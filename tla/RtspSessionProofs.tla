-------------------------- MODULE RtspSessionProofs --------------------------
(***************************************************************************)
(* RtspSession, for any tracks, clocks and bounds: at most one socket is   *)
(* open and none is left behind, a reader is blocked only by a pause in    *)
(* force, DTS does not go back and a reconnection is marked.               *)
(***************************************************************************)
EXTENDS RtspSession, TLAPS

-----------------------------------------------------------------------------
(* The session: who holds the connection. *)

Over == rd.pc \in {"fail", "gone"}

Session ==
  /\ DOMAIN rd = {"pc", "ch", "item"} /\ DOMAIN job = {"kind", "step", "tries", "new"}
  /\ open \subseteq {conn}
  /\ closed => open = {} /\ Over
  /\ rd.pc = "gone" => closed
  /\ ~started => rd.pc \in {"new", "codecs", "fail", "gone"}
  /\ started => rd.pc \notin {"new", "codecs"}
  /\ job.kind = "connect" => rd.pc \notin {"new", "gone"} /\ (~started => rd.pc = "codecs")
  /\ job.kind = "keepalive" => rd.pc = "lock"
  /\ job.kind = "redial" => rd.pc = "recover"
  /\ pauseCh # 0 => paused
  /\ job.kind = "pause" => ~paused
  /\ BlockedByPause

-----------------------------------------------------------------------------
(* The timeline. *)

\* The state of a track, and of all of them.
IsTrack(tr) ==
  /\ DOMAIN tr = {"have", "lastRTP", "total", "base", "lastDTS", "haveDTS", "dur"}
  /\ tr.have \in BOOLEAN /\ tr.haveDTS = tr.have /\ tr.dur \in Nat
  /\ tr.lastRTP \in Int /\ tr.total \in Int /\ tr.base \in Int /\ tr.lastDTS \in Int
AreTracks(trs) == DOMAIN trs = Tracks /\ \A t \in Tracks : IsTrack(trs[t])

Frames    == [k : {"rtp"}, t : Tracks, ts : Int, code : {0}]
Responses == [k : {"resp"}, t : {NoTrack}, ts : {0}, code : Int]
Packets   == [t : Tracks, c : Int, dts : Int, disc : BOOLEAN]

IsItem(s) == s = <<s[1]>> /\ s[1] \in Frames

RtspTypes ==
  /\ conn \in Int /\ started \in BOOLEAN /\ disc \in BOOLEAN /\ hollow \in BOOLEAN
  /\ line \in Seq(Frames \cup Responses) /\ pending \in Seq(Packets)
  /\ AreTracks(tracks) /\ AreTracks(chans)
  /\ cam \in [Tracks -> Int] /\ got \in [Tracks -> Int]
  /\ rd.pc = "handle" => IsItem(rd.item)
  /\ job.kind = "connect" => AreTracks(job.new)

\* How far a track has come.
Reached(tr) == IF tr.haveDTS THEN tr.lastDTS ELSE tr.base

\* What is queued lies between what was returned and how far its track has
\* come, and is in order track by track.
Timely(q, g, trs) ==
  \A t \in Tracks :
    /\ g[t] <= Reached(trs[t])
    /\ \A i \in 1 .. Len(q) : q[i].t = t => g[t] <= q[i].dts /\ q[i].dts <= Reached(trs[t])
    /\ \A i, j \in 1 .. Len(q) : i < j /\ q[i].t = t /\ q[j].t = t => q[i].dts <= q[j].dts

\* What is queued is of connection c, and the first packet to come of it is
\* marked if the last one returned, l, was not of c.
Marks(q, d, l, c) ==
  /\ \A i \in 1 .. Len(q) : q[i].c = c
  /\ l.c # c => IF q = <<>> THEN d ELSE q[1].disc

\* A session that plays, is being set up again, or has not played yet.
Playing ==
  started /\ ~Over /\ job.kind # "connect" =>
    /\ tracks = chans
    /\ Marks(pending, disc, last, conn)
    /\ ~hollow => Timely(pending, got, tracks)
Reconnecting ==
  started /\ ~Over /\ job.kind = "connect" =>
    /\ job.new = Carry(tracks)
    /\ ~hollow => \A t \in Tracks : got[t] <= Reached(tracks[t])
Connecting ==
  ~started =>
    /\ got = [t \in Tracks |-> -1] /\ last.c = 1
    /\ rd.pc = "new" => conn = 0
    /\ job.kind = "connect" => job.new = NewTracks /\ conn = 1

Timeline == Session /\ RtspTypes /\ Playing /\ Reconnecting /\ Connecting

\* The first connection is dialled.
LEMMA GetCodecsSession ==
  ASSUME Session, GetCodecs
  PROVE  Session'
<1>1. /\ rd.pc = "new" /\ rd'.pc = "codecs" /\ rd'.ch = rd.ch
      /\ DOMAIN rd' = DOMAIN rd
  BY ZenonT(60) DEF Session, GetCodecs
<1>2. /\ job.kind = "none" /\ job'.kind = "connect"
      /\ DOMAIN job' = {"kind", "step", "tries", "new"}
  BY ZenonT(60) DEF GetCodecs, Free
<1>3. open' = {conn'} /\ UNCHANGED <<started, closed, paused, pauseCh>>
  BY ZenonT(60) DEF GetCodecs, Dial, pausing
<1> QED
  BY <1>1, <1>2, <1>3, ZenonT(60) DEF Session, BlockedByPause, Over

\* A new connection is dialled for the one that ended.
LEMMA ReconnectSession ==
  ASSUME Session, Reconnect
  PROVE  Session'
<1>1. /\ rd.pc = "recover" /\ rd'.pc \in {"loop", "lock"} /\ rd'.ch = rd.ch
      /\ DOMAIN rd' = DOMAIN rd
  BY ZenonT(60) DEF Session, Reconnect, Recovering
<1>2. /\ job'.kind = "connect"
      /\ DOMAIN job' = {"kind", "step", "tries", "new"}
  BY ZenonT(60) DEF Reconnect, Free
<1>3. open' = {conn'} /\ UNCHANGED <<started, closed, paused, pauseCh>>
  BY ZenonT(60) DEF Reconnect, Dial, pausing
<1> QED
  BY <1>1, <1>2, <1>3, ZenonT(60) DEF Session, BlockedByPause, Over

\* A request of the handshake is answered.
LEMMA HandshakeOkSession ==
  ASSUME Session, NEW e \in Tracks \cup {NoTrack}, HandshakeOk(e)
  PROVE  Session'
<1>1. /\ UNCHANGED <<closed, conn, open, paused, pauseCh>> /\ job.kind = "connect"
  BY ZenonT(60) DEF HandshakeOk, link, pausing
<1>2. CASE job.step < Requests
  <2>1. /\ UNCHANGED <<started, rd>> /\ job' = [job EXCEPT !.step = @ + 1, !.tries = 0]
    BY <1>2, ZenonT(60) DEF HandshakeOk
  <2>2. /\ job'.kind = job.kind
        /\ DOMAIN job' = {"kind", "step", "tries", "new"}
    BY <2>1, ZenonT(60) DEF Session
  <2> QED
    BY <1>1, <2>1, <2>2, ZenonT(60) DEF Session, BlockedByPause, Over
<1>3. CASE ~(job.step < Requests)
  <2>1. /\ started' /\ job' = Free /\ rd' = IF started THEN rd ELSE [rd EXCEPT !.pc = "loop"]
    BY <1>3, ZenonT(60) DEF HandshakeOk
  <2>2. /\ started => rd' = rd
        /\ ~started => rd'.pc = "loop" /\ rd'.ch = rd.ch
        /\ DOMAIN rd' = DOMAIN rd
    BY <2>1, ZenonT(60) DEF Session
  <2>3. /\ job'.kind = "none"
        /\ DOMAIN job' = {"kind", "step", "tries", "new"}
    BY <2>1, ZenonT(60) DEF Free
  <2> QED
    BY <1>1, <2>1, <2>2, <2>3, ZenonT(60) DEF Session, BlockedByPause, Over
<1> QED
  BY <1>2, <1>3, ZenonT(60)

\* The reader takes the channel of the pause.
LEMMA WaitIfPausedSession ==
  ASSUME Session, WaitIfPaused
  PROVE  Session'
<1>1. /\ rd.pc = "paused" /\ rd'.ch = pauseCh
      /\ rd'.pc = IF pauseCh # 0 THEN "blocked" ELSE "lock"
      /\ DOMAIN rd' = DOMAIN rd
  BY ZenonT(60) DEF Session, WaitIfPaused
<1>2. UNCHANGED <<started, closed, conn, open, job, paused, pauseCh>>
  BY ZenonT(60) DEF WaitIfPaused, link, pausing
<1> QED
  BY <1>1, <1>2, ZenonT(60) DEF Session, BlockedByPause, Over

\* The reader takes a frame off the socket.
LEMMA ReadFrameSession ==
  ASSUME Session, ReadFrame
  PROVE  Session'
<1>1. /\ rd.pc = "reading"
      /\ rd'.pc \in {"handle", "recover"}
      /\ DOMAIN rd' = DOMAIN rd
  BY ZenonT(60) DEF Session, ReadFrame
<1>2. UNCHANGED <<started, closed, conn, open, job, paused, pauseCh>>
  BY ZenonT(60) DEF ReadFrame, link, pausing
<1> QED
  BY <1>1, <1>2, ZenonT(60) DEF Session, BlockedByPause, Over

\* The reader decodes the frame it took.
LEMMA HandleFrameSession ==
  ASSUME Session, HandleFrame
  PROVE  Session'
<1>1. /\ rd.pc = "handle"
      /\ rd'.pc = "loop"
      /\ DOMAIN rd' = DOMAIN rd
  BY ZenonT(60) DEF Session, HandleFrame
<1>2. UNCHANGED <<started, closed, conn, open, job, paused, pauseCh>>
  BY ZenonT(60) DEF HandleFrame, link, pausing
<1> QED
  BY <1>1, <1>2, ZenonT(60) DEF Session, BlockedByPause, Over

\* A resume is asked for.
LEMMA ResumeSession ==
  ASSUME Session, Resume
  PROVE  Session'
<1>1. UNCHANGED <<started, closed, conn, open, rd>> /\ job = Free
  BY ZenonT(60) DEF Resume, link
<1>2. CASE started
  <2>1. UNCHANGED pausing /\ job' = [Free EXCEPT !.kind = "resume"]
    BY <1>2, ZenonT(60) DEF Resume
  <2>2. /\ job'.kind = "resume" /\ UNCHANGED <<paused, pauseCh>>
        /\ DOMAIN job' = {"kind", "step", "tries", "new"}
    BY <2>1, ZenonT(60) DEF Free, pausing
  <2> QED
    BY <1>1, <2>2, ZenonT(60) DEF Session, BlockedByPause, Over
<1>3. CASE ~started
  <2>1. pauseCh' = 0 /\ job' = job
    BY <1>3, ZenonT(60) DEF Resume
  <2> QED
    BY <1>1, <1>3, <2>1, ZenonT(60) DEF Session, BlockedByPause, Over, Free
<1> QED
  BY <1>2, <1>3, ZenonT(60)

\* The session as a whole starts right, and every step keeps it so.
LEMMA SessionStarts == Init => Session
BY SMTT(40) DEF Init, Session, BlockedByPause, Over, Free

\* Every step keeps the session's invariant.
LEMMA SessionStays == ASSUME Session, [Next]_rtspVars PROVE Session'
<1> USE DEF Session, BlockedByPause, Over
<1>1. CASE UNCHANGED rtspVars
  BY <1>1, ZenonT(60) DEF rtspVars
<1>2. ASSUME NEW t \in Tracks, NEW j, CameraFrame(t, j) PROVE Session'
  BY <1>2, ZenonT(60) DEF Free, CameraFrame, link, pausing
<1>3. CASE CameraEnds
  BY <1>3, ZenonT(60) DEF Free, CameraEnds, pausing
<1>4. CASE DialFails
  BY <1>4, ZenonT(60) DEF Free, DialFails, link, pausing
<1>5. CASE RedialFails
  BY <1>5, ZenonT(60) DEF Free, RedialFails, Recovering, pausing
<1>6. CASE Handshake401
  BY <1>6, ZenonT(60) DEF Free, Handshake401, link, pausing
<1>7. CASE HandshakeFails
  BY <1>7, ZenonT(60) DEF Free, HandshakeFails, CloseSocket
<1>8. CASE LoadPaused
  BY <1>8, ZenonT(60) DEF Free, LoadPaused, link, pausing
<1>9. CASE PopPending
  BY <1>9, ZenonT(60) DEF Free, PopPending, link, pausing
<1>10. CASE GoRead
  BY <1>10, ZenonT(60) DEF Free, GoRead, link, pausing
<1>11. CASE KeepAliveDue
  BY <1>11, ZenonT(60) DEF Free, KeepAliveDue, link, pausing
<1>12. CASE KeepAlive
  BY <1>12, ZenonT(60) DEF Free, KeepAlive, link, pausing
<1>13. CASE ReadEOF
  BY <1>13, ZenonT(60) DEF Free, ReadEOF, link, pausing
<1>14. CASE ReadTimeout
  BY <1>14, ZenonT(60) DEF Free, ReadTimeout, link, pausing
<1>15. CASE ReadTorn
  BY <1>15, ZenonT(60) DEF Free, ReadTorn, link, pausing
<1>16. CASE Pause
  BY <1>16, SMTT(40) DEF Free, Pause, link, pausing
<1>17. CASE AwaitFrame
  BY <1>17, ZenonT(60) DEF Free, AwaitFrame, link, pausing
<1>18. CASE AwaitResponse
  BY <1>18, SMTT(40) DEF Free, AwaitResponse, link, pausing, Succeeded, Failed, Woken, OnLine
<1>19. ASSUME NEW late \in BOOLEAN, AwaitFails(late) PROVE Session'
  BY <1>19, ZenonT(60) DEF Free, AwaitFails, link, pausing, Failed, OnLine
<1>20. ASSUME NEW code \in {200, 501}, Answer(code) PROVE Session'
  BY <1>20, SMTT(40) DEF Free, Answer, link, pausing, OnLine
<1>21. CASE Stop
  BY <1>21, ZenonT(60) DEF Free, Stop, link, pausing
<1>22. CASE Close
  BY <1>22, ZenonT(60) DEF Free, Close
<1>23. CASE GetCodecs \/ Reconnect \/ WaitIfPaused \/ ReadFrame \/ HandleFrame \/ Resume
  BY <1>23, GetCodecsSession, ReconnectSession, WaitIfPausedSession,
     ReadFrameSession, HandleFrameSession, ResumeSession, ZenonT(60)
<1>24. ASSUME NEW e \in Tracks \cup {NoTrack}, HandshakeOk(e) PROVE Session'
  BY <1>24, HandshakeOkSession, ZenonT(60)
<1> HIDE DEF Session, BlockedByPause, Over
<1> QED
  BY <1>1, <1>2, <1>3, <1>4, <1>5, <1>6, <1>7, <1>8, <1>9, <1>10, <1>11, <1>12, <1>13, <1>14,
     <1>15, <1>16, <1>17, <1>18, <1>19, <1>20, <1>21, <1>22, <1>23, <1>24, ZenonT(60) DEF Next

-----------------------------------------------------------------------------
(* The operators. *)

\* A difference of RTP timestamps is a number.
LEMMA SignedInt == ASSUME Clocked, NEW d \in Int PROVE Signed(d) \in Int
BY SMTT(40) DEF Signed, Clocked

\* decodeDTS does not go back behind what its track has reached, and takes the
\* track there.
LEMMA DecodeGoesOn ==
  ASSUME Clocked, NEW tr, IsTrack(tr), NEW ts \in Int
  PROVE  /\ DecodeDTS(tr, ts) \in Int /\ Reached(tr) <= DecodeDTS(tr, ts)
         /\ IsTrack(Decoded(tr, ts)) /\ Reached(Decoded(tr, ts)) = DecodeDTS(tr, ts)
<1> DEFINE s == Signed(ts - tr.lastRTP)
           dts == DecodeDTS(tr, ts)
           dur == EstimateDuration(tr, dts)
           ad == Advance(tr, ts)
           de == Decoded(tr, ts)
<1>1. s \in Int
  <2>1. ts - tr.lastRTP \in Int
    BY SMTT(40) DEF IsTrack
  <2> QED
    BY <2>1, SignedInt, ZenonT(60)
<1>2. dts = IF ~tr.have THEN tr.base ELSE Clamp(tr, tr.base + tr.total + s)
  BY ZenonT(60) DEF DecodeDTS
<1>3. dur = EstimateDuration(tr, dts)
  BY ZenonT(60)
<1>4. ad = [tr EXCEPT !.have = TRUE, !.lastRTP = ts, !.total = IF tr.have THEN tr.total + s ELSE 0]
  BY ZenonT(60) DEF Advance
<1>5. de = [ad EXCEPT !.lastDTS = dts, !.haveDTS = TRUE, !.dur = dur]
  BY ZenonT(60) DEF Decoded
<1> HIDE DEF s, dts, dur, ad, de
<1>6. dts \in Int /\ Reached(tr) <= dts
  BY <1>1, <1>2, SMTT(40) DEF IsTrack, Clamp, Reached
<1>7. dur \in Nat
  BY <1>3, <1>6, SMTT(40) DEF EstimateDuration, IsTrack, Clocked
<1>8. /\ DOMAIN ad = DOMAIN tr /\ ad.have = TRUE /\ ad.lastRTP = ts /\ ad.total \in Int
      /\ ad.base = tr.base
  BY <1>1, <1>4, SMTT(40) DEF IsTrack
<1>9. /\ DOMAIN de = DOMAIN tr /\ de.have = TRUE /\ de.lastRTP = ts /\ de.total \in Int
      /\ de.base = tr.base /\ de.lastDTS = dts /\ de.haveDTS = TRUE /\ de.dur = dur
  BY <1>5, <1>8, ZenonT(60) DEF IsTrack
<1>10. IsTrack(de)
  BY <1>6, <1>7, <1>9, ZenonT(60) DEF IsTrack
<1>11. Reached(de) = dts
  BY <1>9, ZenonT(60) DEF Reached
<1> QED
  BY <1>6, <1>10, <1>11, ZenonT(60) DEF dts, de

\* carryTrackState: a track that has decoded goes on after where it was.
LEMMA CarryGoesOn ==
  ASSUME NEW trs, AreTracks(trs)
  PROVE  /\ AreTracks(Carry(trs))
         /\ \A t \in Tracks : IF trs[t].haveDTS THEN Reached(trs[t]) <= Reached(Carry(trs)[t])
                              ELSE Reached(Carry(trs)[t]) = 0
<1> DEFINE c == Carry(trs)
<1>1. DOMAIN c = Tracks
  BY ZenonT(60) DEF Carry
<1>2. ASSUME NEW t \in Tracks
      PROVE  /\ IsTrack(c[t])
             /\ IF trs[t].haveDTS THEN Reached(trs[t]) <= Reached(c[t]) ELSE Reached(c[t]) = 0
  <2>1. IsTrack(trs[t])
    BY ZenonT(60) DEF AreTracks
  <2>2. CASE trs[t].haveDTS
    <3> DEFINE r == [NewTrack EXCEPT !.base = trs[t].lastDTS + trs[t].dur, !.dur = trs[t].dur]
    <3>1. c[t] = r
      BY <2>2, ZenonT(60) DEF Carry
    <3>2. /\ DOMAIN r = {"have", "lastRTP", "total", "base", "lastDTS", "haveDTS", "dur"}
          /\ r.have = FALSE /\ r.lastRTP = 0 /\ r.total = 0 /\ r.lastDTS = 0 /\ r.haveDTS = FALSE
          /\ r.base = trs[t].lastDTS + trs[t].dur /\ r.dur = trs[t].dur
      BY ZenonT(60) DEF NewTrack
    <3> HIDE DEF c, r
    <3>3. trs[t].lastDTS \in Int /\ trs[t].dur \in Nat
      BY <2>1, ZenonT(60) DEF IsTrack
    <3>4. \A n \in Int : \A d \in Nat : n + d \in Int /\ n <= n + d
      BY SMTT(40)
    <3>5. r.base \in Int /\ trs[t].lastDTS <= r.base
      BY <3>2, <3>3, <3>4, ZenonT(60)
    <3>6. IsTrack(r)
      <4>1. 0 \in Int /\ FALSE \in BOOLEAN
        BY SMTT(40)
      <4> QED
        BY <3>2, <3>3, <3>5, <4>1, ZenonT(60) DEF IsTrack
    <3>7. Reached(trs[t]) = trs[t].lastDTS /\ Reached(r) = r.base
      BY <2>2, <3>2, ZenonT(60) DEF Reached
    <3> QED
      BY <2>2, <3>1, <3>5, <3>6, <3>7, ZenonT(60)
  <2>3. CASE ~trs[t].haveDTS
    <3>1. c[t] = NewTrack
      BY <2>3, ZenonT(60) DEF Carry
    <3>2. IsTrack(NewTrack) /\ Reached(NewTrack) = 0
      BY SMTT(40) DEF IsTrack, NewTrack, Reached
    <3> HIDE DEF c
    <3> QED
      BY <2>3, <3>1, <3>2, ZenonT(60)
  <2> QED
    BY <2>2, <2>3, ZenonT(60)
<1> QED
  BY <1>1, <1>2, ZenonT(60) DEF AreTracks

\* New tracks are at 0.
LEMMA NewAreTracks ==
  AreTracks(NewTracks) /\ \A t \in Tracks : Reached(NewTracks[t]) = 0
<1>1. IsTrack(NewTrack) /\ Reached(NewTrack) = 0
  BY SMTT(40) DEF IsTrack, NewTrack, Reached
<1>2. DOMAIN NewTracks = Tracks /\ \A t \in Tracks : NewTracks[t] = NewTrack
  BY ZenonT(60) DEF NewTracks
<1> QED
  BY <1>1, <1>2, ZenonT(60) DEF AreTracks

\* Decoding a frame of one track.
TrackDecoded(trs, t, ts, new) ==
  /\ DOMAIN new = Tracks /\ new[t] = Decoded(trs[t], ts)
  /\ \A u \in Tracks : u # t => new[u] = trs[u]

\* Its track goes on and the others stay.
LEMMA DecodeTrack ==
  ASSUME Clocked, NEW trs, AreTracks(trs), NEW t \in Tracks, NEW ts \in Int,
         NEW new, TrackDecoded(trs, t, ts, new)
  PROVE  /\ AreTracks(new) /\ DecodeDTS(trs[t], ts) \in Int
         /\ Reached(trs[t]) <= DecodeDTS(trs[t], ts)
         /\ Reached(new[t]) = DecodeDTS(trs[t], ts)
<1>1. IsTrack(trs[t])
  BY ZenonT(60) DEF AreTracks
<1> QED
  BY <1>1, DecodeGoesOn, ZenonT(60) DEF AreTracks, TrackDecoded

\* How far a track has come is a number.
LEMMA ReachedInt == ASSUME NEW trs, AreTracks(trs) PROVE \A t \in Tracks : Reached(trs[t]) \in Int
BY ZenonT(60) DEF AreTracks, IsTrack, Reached

\* A frame queued keeps the queue timely, and so does a packet taken off it.
LEMMA TimelyAppend ==
  ASSUME Clocked, NEW q \in Seq(Packets), NEW g \in [Tracks -> Int],
         NEW trs, AreTracks(trs), Timely(q, g, trs),
         NEW p \in Packets, NEW v \in Tracks, p.t = v,
         NEW ts \in Int, p.dts = DecodeDTS(trs[v], ts),
         NEW new, TrackDecoded(trs, v, ts, new)
  PROVE  Timely(Append(q, p), g, new)
<1> DEFINE x == Append(q, p)
<1>1. p.t \in Tracks /\ p.dts \in Int
  BY ZenonT(60) DEF Packets
<1>2. /\ AreTracks(new) /\ Reached(trs[v]) <= p.dts /\ Reached(new[v]) = p.dts
      /\ \A u \in Tracks : u # v => new[u] = trs[u]
  <2>1. /\ AreTracks(new) /\ Reached(trs[v]) <= DecodeDTS(trs[v], ts)
        /\ Reached(new[v]) = DecodeDTS(trs[v], ts)
    BY DecodeTrack, ZenonT(60)
  <2> QED
    BY <2>1, ZenonT(60) DEF TrackDecoded
<1>3. /\ Len(x) = Len(q) + 1 /\ Len(q) \in Nat /\ x[Len(q) + 1] = p
      /\ \A i \in 1 .. Len(q) : x[i] = q[i] /\ q[i] \in Packets
  BY SMTT(40)
<1> HIDE DEF x
<1>4. \A t \in Tracks : Reached(trs[t]) \in Int /\ Reached(new[t]) \in Int
  BY <1>2, ReachedInt, ZenonT(60)
<1>5. \A t \in Tracks : Reached(trs[t]) <= Reached(new[t])
  BY <1>2, <1>4, SMTT(40)
<1>6. ASSUME NEW t \in Tracks
      PROVE  /\ g[t] <= Reached(new[t])
             /\ \A i \in 1 .. Len(x) : x[i].t = t => g[t] <= x[i].dts /\ x[i].dts <= Reached(new[t])
             /\ \A i, j \in 1 .. Len(x) : i < j /\ x[i].t = t /\ x[j].t = t => x[i].dts <= x[j].dts
  <2> DEFINE a == Reached(trs[t])
             b == Reached(new[t])
  <2>1. /\ g[t] \in Int /\ a \in Int /\ b \in Int /\ a <= b /\ g[t] <= a
        /\ t = v => a <= p.dts /\ b = p.dts
    BY <1>2, <1>4, <1>5, ZenonT(60) DEF Timely
  <2>2. \A i \in 1 .. Len(q) : q[i].t = t => g[t] <= q[i].dts /\ q[i].dts <= a /\ q[i].dts \in Int
    BY <1>3, ZenonT(60) DEF Timely, Packets
  <2>3. \A i, j \in 1 .. Len(q) : i < j /\ q[i].t = t /\ q[j].t = t => q[i].dts <= q[j].dts
    BY ZenonT(60) DEF Timely
  <2> HIDE DEF a, b
  <2>4. g[t] <= b
    BY <2>1, SMTT(40)
  <2>5. ASSUME NEW i \in 1 .. Len(x), x[i].t = t PROVE g[t] <= x[i].dts /\ x[i].dts <= b
    <3>1. CASE i \in 1 .. Len(q)
      <4>1. x[i] = q[i] /\ g[t] <= q[i].dts /\ q[i].dts <= a /\ q[i].dts \in Int
        BY <1>3, <2>2, <2>5, <3>1, ZenonT(60)
      <4> QED
        BY <2>1, <4>1, SMTT(40)
    <3>2. CASE i = Len(q) + 1
      BY <1>1, <1>3, <2>1, <2>5, <3>2, SMTT(40)
    <3> QED
      BY <1>3, <3>1, <3>2, SMTT(40)
  <2>6. ASSUME NEW i \in 1 .. Len(x), NEW j \in 1 .. Len(x), i < j, x[i].t = t, x[j].t = t
        PROVE  x[i].dts <= x[j].dts
    <3>0. i \in 1 .. Len(q) /\ (j \in 1 .. Len(q) \/ j = Len(q) + 1)
      <4>1. \A n \in Nat : \A l : l = n + 1 =>
              \A k, m \in 1 .. l : k < m => k \in 1 .. n /\ (m \in 1 .. n \/ m = n + 1)
        BY SMTT(40)
      <4> QED
        BY <1>3, <2>6, <4>1, ZenonT(60)
    <3>1. CASE j \in 1 .. Len(q)
      BY <1>3, <2>3, <2>6, <3>0, <3>1, ZenonT(60)
    <3>2. CASE j = Len(q) + 1
      BY <1>1, <1>3, <2>1, <2>2, <2>6, <3>0, <3>2, SMTT(40)
    <3> QED
      BY <3>0, <3>1, <3>2, ZenonT(60)
  <2> QED
    BY <2>4, <2>5, <2>6, ZenonT(60) DEF b
<1> QED
  BY <1>6, ZenonT(60) DEF Timely, x

\* The packet returned is not behind what was returned of its track.
LEMMA TimelyPop ==
  ASSUME NEW q \in Seq(Packets), q # <<>>, NEW g \in [Tracks -> Int],
         NEW trs, AreTracks(trs), Timely(q, g, trs),
         NEW h, h = [g EXCEPT ![Head(q).t] = Head(q).dts]
  PROVE  /\ Timely(Tail(q), h, trs) /\ h \in [Tracks -> Int]
         /\ \A t \in Tracks : g[t] <= h[t]
<1> DEFINE p == q[1]
           x == Tail(q)
<1>1. /\ Len(q) \in Nat /\ 1 \in 1 .. Len(q) /\ Head(q) = p /\ p \in Packets
      /\ Len(x) = Len(q) - 1 /\ \A i \in 1 .. Len(x) : x[i] = q[i + 1]
      /\ \A i \in 1 .. Len(q) : q[i] \in Packets
  BY SMTT(40)
<1>2. p.t \in Tracks /\ p.dts \in Int
  BY <1>1, ZenonT(60) DEF Packets
<1>3. h \in [Tracks -> Int] /\ h[p.t] = p.dts /\ \A t \in Tracks : t # p.t => h[t] = g[t]
  BY <1>1, <1>2, ZenonT(60)
<1> HIDE DEF x, p
<1>4. \A t \in Tracks : Reached(trs[t]) \in Int
  BY ReachedInt, ZenonT(60)
<1>5. ASSUME NEW t \in Tracks
      PROVE  /\ h[t] <= Reached(trs[t]) /\ g[t] <= h[t]
             /\ \A i \in 1 .. Len(x) : x[i].t = t => h[t] <= x[i].dts /\ x[i].dts <= Reached(trs[t])
             /\ \A i, j \in 1 .. Len(x) : i < j /\ x[i].t = t /\ x[j].t = t => x[i].dts <= x[j].dts
  <2> DEFINE a == Reached(trs[t])
  <2>1. g[t] \in Int /\ a \in Int /\ g[t] <= a
    BY <1>4, ZenonT(60) DEF Timely
  <2>2. \A i \in 1 .. Len(q) : q[i].t = t => g[t] <= q[i].dts /\ q[i].dts <= a /\ q[i].dts \in Int
    BY <1>1, ZenonT(60) DEF Timely, Packets
  <2>3. \A i, j \in 1 .. Len(q) : i < j /\ q[i].t = t /\ q[j].t = t => q[i].dts <= q[j].dts
    BY ZenonT(60) DEF Timely
  <2> HIDE DEF a
  <2>4. h[t] <= a /\ g[t] <= h[t]
    BY <1>1, <1>3, <2>1, <2>2, SMTT(40) DEF p
  <2>5. ASSUME NEW i \in 1 .. Len(x) PROVE x[i] = q[i + 1] /\ i + 1 \in 1 .. Len(q) /\ 1 < i + 1
    BY <1>1, SMTT(40)
  <2>6. ASSUME NEW i \in 1 .. Len(x), x[i].t = t PROVE h[t] <= x[i].dts /\ x[i].dts <= a
    <3>1. q[i + 1].t = t /\ g[t] <= q[i + 1].dts /\ q[i + 1].dts <= a
      BY <2>2, <2>5, <2>6, ZenonT(60)
    <3>2. CASE t = p.t
      <4>1. q[1].dts <= q[i + 1].dts
        BY <1>1, <2>3, <2>5, <3>1, <3>2, ZenonT(60) DEF p
      <4> QED
        BY <1>3, <2>5, <3>1, <3>2, <4>1, ZenonT(60) DEF p
    <3>3. CASE t # p.t
      BY <1>3, <2>5, <3>1, <3>3, ZenonT(60)
    <3> QED
      BY <3>2, <3>3, ZenonT(60)
  <2>7. ASSUME NEW i \in 1 .. Len(x), NEW j \in 1 .. Len(x), i < j, x[i].t = t, x[j].t = t
        PROVE  x[i].dts <= x[j].dts
    <3>1. i + 1 < j + 1
      BY <2>7, SMTT(40)
    <3> QED
      BY <2>3, <2>5, <2>7, <3>1, ZenonT(60)
  <2> QED
    BY <2>4, <2>6, <2>7, ZenonT(60) DEF a
<1> QED
  BY <1>3, <1>5, ZenonT(60) DEF Timely, x

\* The mark is not lost by queueing or by taking a packet off the queue.
LEMMA MarksAppend ==
  ASSUME NEW q \in Seq(Packets), NEW d, NEW l, NEW c, Marks(q, d, l, c),
         NEW p \in Packets, p.c = c, p.disc = d
  PROVE  Marks(Append(q, p), FALSE, l, c)
<1> DEFINE x == Append(q, p)
<1>1. /\ Len(x) = Len(q) + 1 /\ Len(q) \in Nat /\ x[Len(q) + 1] = p /\ x # <<>>
      /\ \A i \in 1 .. Len(q) : x[i] = q[i]
      /\ q = <<>> => x[1] = p
      /\ q # <<>> => x[1] = q[1]
  BY SMTT(40)
<1> HIDE DEF x
<1>2. \A i \in 1 .. Len(x) : i \in 1 .. Len(q) \/ i = Len(q) + 1
  BY <1>1, SMTT(40)
<1>3. \A i \in 1 .. Len(x) : x[i].c = c
  BY <1>1, <1>2, ZenonT(60) DEF Marks
<1>4. l.c # c => x[1].disc
  BY <1>1, ZenonT(60) DEF Marks
<1> QED
  BY <1>1, <1>3, <1>4, ZenonT(60) DEF Marks, x

\* The packet returned is marked if it is the first of its connection.
LEMMA MarksPop ==
  ASSUME NEW q \in Seq(Packets), q # <<>>, NEW d, NEW l, NEW c, Marks(q, d, l, c),
         NEW m, m = [c |-> Head(q).c, disc |-> Head(q).disc]
  PROVE  Marks(Tail(q), d, m, c) /\ (m.c # l.c => m.disc)
<1> DEFINE x == Tail(q)
<1>1. /\ Len(q) \in Nat /\ 1 \in 1 .. Len(q) /\ Head(q) = q[1] /\ Len(x) = Len(q) - 1
      /\ \A i \in 1 .. Len(x) : x[i] = q[i + 1]
  BY SMTT(40)
<1> HIDE DEF x
<1>2. \A i \in 1 .. Len(x) : i + 1 \in 1 .. Len(q)
  BY <1>1, SMTT(40)
<1>3. m.c = c /\ m.disc = q[1].disc
  BY <1>1, ZenonT(60) DEF Marks
<1>4. l.c # c => q[1].disc
  BY ZenonT(60) DEF Marks
<1>5. \A i \in 1 .. Len(x) : x[i].c = c
  BY <1>1, <1>2, ZenonT(60) DEF Marks
<1> QED
  BY <1>3, <1>4, <1>5, ZenonT(60) DEF Marks, x

\* Sequences.
LEMMA SeqKept ==
  ASSUME NEW S, NEW s \in Seq(S)
  PROVE  /\ s # <<>> => Head(s) \in S /\ Tail(s) \in Seq(S)
         /\ \A x \in S : Append(s, x) \in Seq(S)
BY SMTT(40)

\* Short ones.
LEMMA ShortSeqs == ASSUME NEW S PROVE <<>> \in Seq(S) /\ \A x \in S : <<x>> \in Seq(S)
BY SMTT(40)

\* What is read and is RTP is a frame.
LEMMA IsRtp == ASSUME NEW f \in Frames \cup Responses, f.k = "rtp" PROVE f \in Frames
BY ZenonT(60) DEF Frames, Responses

\* A response is one.
LEMMA IsResponse == \A code \in Int : Response(code) \in Responses
BY ZenonT(60) DEF Response, Responses

\* The mark stays.
LEMMA DiscKept == ASSUME Timeline, disc' = disc PROVE disc' \in BOOLEAN /\ (disc => disc')
BY ZenonT(60) DEF Timeline, RtspTypes

\* With nothing queued.
LEMMA TimelyEmpty ==
  ASSUME NEW g, NEW trs, \A t \in Tracks : g[t] <= Reached(trs[t])
  PROVE  Timely(<<>>, g, trs)
<1>1. 1 .. Len(<<>>) = {}
  BY SMTT(40)
<1> QED
  BY <1>1, ZenonT(60) DEF Timely

\* A mark that is set, or is not needed.
LEMMA MarksEmpty ==
  ASSUME NEW d, NEW l, NEW c, d \/ l.c = c
  PROVE  Marks(<<>>, d, l, c)
<1>1. 1 .. Len(<<>>) = {}
  BY SMTT(40)
<1> QED
  BY <1>1, ZenonT(60) DEF Marks


-----------------------------------------------------------------------------
(* Steps that decode nothing and return nothing. *)

Quiet ==
  /\ UNCHANGED <<started, conn, tracks, chans, pending, got, last, hollow>>
  /\ disc' \in BOOLEAN /\ (disc => disc')
  /\ line' \in Seq(Frames \cup Responses) /\ cam' \in [Tracks -> Int]
  /\ Over => Over'
  /\ rd'.pc = "new" => rd.pc = "new"
  /\ rd'.pc = "handle" => IsItem(rd'.item)
  /\ job'.kind = "connect" => job.kind = "connect"
  /\ job.kind = "connect" => job'.kind = "connect" /\ job'.new = job.new

\* Such a step keeps the timeline.
LEMMA QuietKeeps == ASSUME Timeline, Session', Quiet PROVE Timeline'
<1>1. RtspTypes'
  BY ZenonT(60) DEF Timeline, RtspTypes, Quiet
<1>2. Playing'
  <2>1. Marks(pending, disc, last, conn) => Marks(pending, disc, last, conn)'
    BY ZenonT(60) DEF Quiet, Marks
  <2> QED
    BY <2>1, ZenonT(60) DEF Timeline, Playing, Quiet
<1>3. Reconnecting'
  BY ZenonT(60) DEF Timeline, Reconnecting, Quiet
<1>4. Connecting'
  BY ZenonT(60) DEF Timeline, Connecting, Quiet
<1> QED
  BY <1>1, <1>2, <1>3, <1>4, ZenonT(60) DEF Timeline

\* A step of the reader that moves it alone.
LEMMA ReaderQuiet ==
  ASSUME Timeline, LoadPaused \/ WaitIfPaused \/ GoRead \/ ReadEOF \/ ReadTimeout \/ Stop \/ Close
  PROVE  Quiet
<1>1. UNCHANGED <<started, conn, tracks, chans, pending, got, last, hollow, disc, line, cam>>
  BY ZenonT(60) DEF LoadPaused, WaitIfPaused, GoRead, ReadEOF, ReadTimeout, Stop, Close,
     link, decode, world, past
<1>2. /\ Over => Over'
      /\ rd'.pc = "new" => rd.pc = "new"
      /\ rd'.pc = "handle" => rd.pc = "handle" /\ rd'.item = rd.item
      /\ job'.kind = "connect" => job.kind = "connect"
      /\ job.kind = "connect" => job'.kind = "connect" /\ job'.new = job.new
  <2>1. CASE WaitIfPaused
    BY <2>1, ZenonT(60) DEF WaitIfPaused, Timeline, Session, Over
  <2>2. CASE LoadPaused \/ GoRead \/ ReadEOF \/ ReadTimeout \/ Stop \/ Close
    BY <2>2, ZenonT(60) DEF LoadPaused, GoRead, ReadEOF, ReadTimeout, Stop, Close, Timeline,
       Session, Over
  <2> QED
    BY <2>1, <2>2, ZenonT(60)
<1> QED
  BY <1>1, <1>2, DiscKept, ZenonT(60) DEF Quiet, Timeline, RtspTypes

\* A step of the connection or of a request that leaves the socket unread.
LEMMA MuQuiet ==
  ASSUME Timeline, \/ CameraEnds \/ DialFails \/ RedialFails \/ Handshake401
                   \/ KeepAliveDue \/ KeepAlive \/ Pause \/ Resume
  PROVE  Quiet
<1>1. UNCHANGED <<started, conn, tracks, chans, pending, got, last, hollow, disc, line, cam>>
  BY ZenonT(60) DEF CameraEnds, DialFails, RedialFails, Handshake401, KeepAliveDue, KeepAlive,
     Pause, Resume, link, decode, world, past
<1>2. /\ Over => Over'
      /\ rd'.pc = "new" => rd.pc = "new"
      /\ rd'.pc = "handle" => rd.pc = "handle" /\ rd'.item = rd.item
      /\ job'.kind = "connect" => job.kind = "connect"
      /\ job.kind = "connect" => job'.kind = "connect" /\ job'.new = job.new
  BY SMTT(40) DEF CameraEnds, DialFails, RedialFails, Handshake401, KeepAliveDue, KeepAlive,
     Pause, Resume, Recovering, Timeline, Session, Over, Free
<1> QED
  BY <1>1, <1>2, DiscKept, ZenonT(60) DEF Quiet, Timeline, RtspTypes


\* The camera sends.
LEMMA CameraFrameQuiet ==
  ASSUME Clocked, Timeline, NEW t \in Tracks, NEW j \in Jumps[t], CameraFrame(t, j) PROVE Quiet
<1>1. UNCHANGED <<started, conn, tracks, chans, pending, got, last, hollow, disc, rd, job>>
  BY ZenonT(60) DEF CameraFrame, link, decode, past
<1>2. cam' = [cam EXCEPT ![t] = (cam[t] + j) % RtpMod] /\ cam \in [Tracks -> Int]
  BY ZenonT(60) DEF CameraFrame, Timeline, RtspTypes
<1>3. (cam[t] + j) % RtpMod \in Int
  <2>1. j \in Int /\ cam[t] \in Int /\ RtpMod \in Nat \ {0}
    BY <1>2, ZenonT(60) DEF Clocked
  <2> QED
    BY <2>1, SMTT(40)
<1>4. cam' \in [Tracks -> Int] /\ cam'[t] \in Int
  BY <1>2, <1>3, ZenonT(60)
<1>5. [k |-> "rtp", t |-> t, ts |-> cam'[t], code |-> 0] \in Frames
  BY <1>4, ZenonT(60) DEF Frames
<1>6. line' \in Seq(Frames \cup Responses)
  BY <1>5, SeqKept, ZenonT(60) DEF CameraFrame, Timeline, RtspTypes
<1>7. disc' \in BOOLEAN /\ (disc => disc')
  BY <1>1, ZenonT(60) DEF Timeline, RtspTypes
<1> QED
  BY <1>1, <1>4, <1>6, <1>7, ZenonT(60) DEF Quiet, Timeline, RtspTypes, Over

\* The reader takes a frame, or something else, off the socket.
LEMMA ReadFrameQuiet == ASSUME Timeline, ReadFrame PROVE Quiet
<1>1. UNCHANGED <<started, conn, tracks, chans, pending, got, last, hollow, disc, job, cam>>
  BY ZenonT(60) DEF ReadFrame, link, decode, world, past
<1>2. line # <<>> /\ line' = Tail(line) /\ line \in Seq(Frames \cup Responses)
  BY ZenonT(60) DEF ReadFrame, Timeline, RtspTypes
<1>3. Head(line) \in Frames \cup Responses /\ line' \in Seq(Frames \cup Responses)
  BY <1>2, SeqKept, ZenonT(60)
<1>4. Head(line).k = "rtp" => Head(line) \in Frames
  BY <1>3, IsRtp, ZenonT(60)
<1>5. DOMAIN rd = {"pc", "ch", "item"} /\ rd.pc = "reading"
  BY ZenonT(60) DEF ReadFrame, Timeline, Session
<1>6. CASE Head(line).k = "rtp"
  <2>1. rd' = [rd EXCEPT !.pc = "handle", !.item = <<Head(line)>>]
    BY <1>6, ZenonT(60) DEF ReadFrame
  <2>2. rd'.pc = "handle" /\ rd'.item = <<Head(line)>>
    BY <1>5, <2>1, ZenonT(60)
  <2>3. IsItem(<<Head(line)>>)
    BY <1>4, <1>6, ZenonT(60) DEF IsItem
  <2> QED
    BY <1>5, <2>2, <2>3, <1>1, <1>3, DiscKept, ZenonT(60) DEF Quiet, Over, Timeline, RtspTypes
<1>7. CASE Head(line).k # "rtp"
  <2>1. rd'.pc = "recover"
    BY <1>5, <1>7, ZenonT(60) DEF ReadFrame
  <2> QED
    BY <1>5, <2>1, <1>1, <1>3, DiscKept, ZenonT(60) DEF Quiet, Over, Timeline, RtspTypes
<1> QED
  BY <1>6, <1>7, ZenonT(60)

\* A frame is torn.
LEMMA ReadTornQuiet == ASSUME Timeline, ReadTorn PROVE Quiet
<1>1. UNCHANGED <<started, conn, tracks, chans, pending, got, last, hollow, disc, job, cam>>
  BY ZenonT(60) DEF ReadTorn, link, decode, world, past
<1>2. line # <<>> /\ line' = <<Response(0)>> \o Tail(line) /\ line \in Seq(Frames \cup Responses)
  BY ZenonT(60) DEF ReadTorn, Timeline, RtspTypes
<1>3. Response(0) \in Responses
  BY IsResponse, SMTT(40)
<1>4. line' \in Seq(Frames \cup Responses)
  BY <1>2, <1>3, SeqKept, SMTT(40)
<1>5. rd.pc = "reading" /\ rd'.pc = "loop"
  BY ZenonT(60) DEF ReadTorn, Timeline, Session
<1> QED
  BY <1>5, <1>1, <1>4, DiscKept, ZenonT(60) DEF Quiet, Over, Timeline, RtspTypes

\* The camera answers.
LEMMA AnswerQuiet == ASSUME Timeline, NEW code \in {200, 501}, Answer(code) PROVE Quiet
<1>1. UNCHANGED <<started, conn, tracks, chans, pending, got, last, hollow, disc, rd, cam>>
  BY ZenonT(60) DEF Answer, link, decode, world, past
<1>2. Response(code) \in Responses
  BY IsResponse, SMTT(40)
<1>3. line' \in Seq(Frames \cup Responses)
  BY <1>2, SeqKept, ZenonT(60) DEF Answer, Timeline, RtspTypes
<1>4. job.kind # "connect" /\ job'.kind = job.kind
  BY ZenonT(60) DEF Answer, OnLine, Timeline, Session
<1> QED
  BY <1>1, <1>3, <1>4, DiscKept, ZenonT(60) DEF Quiet, Over, Timeline, RtspTypes

\* An answer is read.
LEMMA AwaitResponseQuiet == ASSUME Timeline, AwaitResponse PROVE Quiet
<1>1. UNCHANGED <<started, conn, tracks, chans, pending, got, last, hollow, cam>>
  BY ZenonT(60) DEF AwaitResponse, link, world, past
<1>2. line' \in Seq(Frames \cup Responses)
  BY SeqKept, ZenonT(60) DEF AwaitResponse, Timeline, RtspTypes
<1>3. /\ Over => Over'
      /\ rd'.pc = "new" => rd.pc = "new"
      /\ rd'.pc = "handle" => rd.pc = "handle" /\ rd'.item = rd.item
      /\ job.kind # "connect" /\ job'.kind # "connect"
  BY SMTT(40) DEF AwaitResponse, Succeeded, Failed, Woken, OnLine, Timeline, Session, Over, Free,
     pausing
<1>4. disc' = disc \/ disc' = TRUE
  BY ZenonT(60) DEF AwaitResponse, Succeeded, Failed, OnLine
<1>5. disc' \in BOOLEAN /\ (disc => disc')
  <2>1. CASE disc' = disc
    BY <2>1, DiscKept, ZenonT(60)
  <2>2. CASE disc' = TRUE
    BY <2>2, ZenonT(60)
  <2> QED
    BY <1>4, <2>1, <2>2, ZenonT(60)
<1> QED
  BY <1>1, <1>2, <1>3, <1>5, ZenonT(60) DEF Quiet, Timeline, RtspTypes

\* No answer is.
LEMMA AwaitFailsQuiet == ASSUME Timeline, NEW late \in BOOLEAN, AwaitFails(late) PROVE Quiet
<1>1. UNCHANGED <<started, conn, tracks, chans, pending, got, last, hollow, cam, disc>>
  BY ZenonT(60) DEF AwaitFails, Failed, link, world, past
<1>2. Response(200) \in Responses
  BY IsResponse, SMTT(40)
<1>3. line' \in Seq(Frames \cup Responses)
  <2>1. line' = <<>> \/ line' = <<Response(200)>>
    BY ZenonT(60) DEF AwaitFails
  <2>2. CASE line' = <<>>
    BY <2>2, ShortSeqs, ZenonT(60)
  <2>3. CASE line' = <<Response(200)>>
    BY <1>2, <2>3, ShortSeqs, ZenonT(60)
  <2> QED
    BY <2>1, <2>2, <2>3, ZenonT(60)
<1>4. /\ Over => Over'
      /\ rd'.pc = "new" => rd.pc = "new"
      /\ rd'.pc = "handle" => rd.pc = "handle" /\ rd'.item = rd.item
      /\ job.kind # "connect" /\ job'.kind # "connect"
  BY ZenonT(60) DEF AwaitFails, Failed, OnLine, Timeline, Session, Over, Free
<1> QED
  BY <1>1, <1>3, <1>4, DiscKept, ZenonT(60) DEF Quiet, Timeline, RtspTypes


-----------------------------------------------------------------------------
(* Connecting. *)

\* The first connection.
LEMMA GetCodecsKeeps == ASSUME Timeline, Session', GetCodecs PROVE Timeline'
<1>1. /\ UNCHANGED <<started, tracks, chans, pending, disc, got, last, hollow, cam>>
      /\ line' = <<>> /\ conn' = conn + 1
  BY ZenonT(60) DEF GetCodecs, Dial, decode, world, past
<1>2. rd.pc = "new" /\ rd'.pc = "codecs"
  BY ZenonT(60) DEF GetCodecs, Timeline, Session
<1>3. job'.kind = "connect" /\ job'.new = NewTracks
  BY ZenonT(60) DEF GetCodecs, Free
<1>4. ~started /\ conn = 0
  BY <1>2, ZenonT(60) DEF Timeline, Session, Connecting
<1>5. conn' = 1
  BY <1>1, <1>4, SMTT(40)
<1>6. RtspTypes'
  <2>1. line' \in Seq(Frames \cup Responses)
    BY <1>1, ShortSeqs, ZenonT(60)
  <2>2. conn' \in Int
    BY <1>5, SMTT(40)
  <2> QED
    BY <1>1, <1>2, <1>3, <2>1, <2>2, NewAreTracks, ZenonT(60) DEF Timeline, RtspTypes
<1>7. Connecting'
  BY <1>1, <1>2, <1>3, <1>4, <1>5, ZenonT(60) DEF Timeline, Connecting
<1> QED
  BY <1>1, <1>4, <1>6, <1>7, ZenonT(60) DEF Timeline, Playing, Reconnecting

\* Another: the tracks go on from where they are.
LEMMA ReconnectKeeps == ASSUME Timeline, Session', Reconnect PROVE Timeline'
<1>1. /\ UNCHANGED <<started, tracks, chans, pending, disc, got, last, hollow, cam>>
      /\ line' = <<>> /\ conn' = conn + 1
  BY ZenonT(60) DEF Reconnect, Dial, decode, world, past
<1>2. rd.pc = "recover" /\ rd'.pc \in {"loop", "lock"} /\ job.kind \in {"none", "redial"}
  BY ZenonT(60) DEF Reconnect, Recovering, Timeline, Session
<1>3. job'.kind = "connect" /\ job'.new = Carry(tracks)
  BY ZenonT(60) DEF Reconnect, Free
<1>4. started /\ ~Over /\ job.kind # "connect"
  BY <1>2, ZenonT(60) DEF Timeline, Session, Over
<1>5. ~hollow => \A t \in Tracks : got[t] <= Reached(tracks[t])
  BY <1>4, ZenonT(60) DEF Timeline, Playing, Timely
<1>6. RtspTypes'
  <2>1. line' \in Seq(Frames \cup Responses)
    BY <1>1, ShortSeqs, ZenonT(60)
  <2>2. conn' \in Int
    <3>1. conn \in Int
      BY ZenonT(60) DEF Timeline, RtspTypes
    <3> QED
      BY <1>1, <3>1, SMTT(40)
  <2>3. rd'.pc # "handle"
    BY <1>2, ZenonT(60)
  <2>4. AreTracks(Carry(tracks))
    BY CarryGoesOn, ZenonT(60) DEF Timeline, RtspTypes
  <2> QED
    BY <1>1, <1>3, <2>1, <2>2, <2>3, <2>4, ZenonT(60) DEF Timeline, RtspTypes
<1>7. Reconnecting'
  BY <1>1, <1>3, <1>5, ZenonT(60) DEF Reconnecting
<1> QED
  BY <1>1, <1>3, <1>4, <1>6, <1>7, ZenonT(60) DEF Timeline, Playing, Connecting

\* A handshake that fails ends the session.
LEMMA HandshakeFailsKeeps == ASSUME Timeline, Session', HandshakeFails PROVE Timeline'
<1>1. UNCHANGED <<started, conn, line, tracks, pending, disc, got, last, hollow, cam>>
  BY ZenonT(60) DEF HandshakeFails, world, past
<1>2. rd'.pc = "fail" /\ job'.kind = "none" /\ job.kind = "connect"
  BY ZenonT(60) DEF HandshakeFails, CloseSocket, Timeline, Session, Free
<1>3. AreTracks(chans')
  BY <1>2, ZenonT(60) DEF HandshakeFails, Timeline, RtspTypes
<1>4. Over' /\ rd'.pc # "new" /\ rd'.pc # "handle" /\ job'.kind # "connect"
  BY <1>2, ZenonT(60) DEF Over
<1>5. RtspTypes'
  BY <1>1, <1>3, <1>4, ZenonT(60) DEF Timeline, RtspTypes
<1> QED
  BY <1>1, <1>4, <1>5, ZenonT(60) DEF Timeline, Playing, Reconnecting, Connecting

\* A request before PLAY is answered.
LEMMA HandshakeOnQuiet ==
  ASSUME Timeline, NEW early \in Tracks \cup {NoTrack}, HandshakeOk(early), job.step < Requests
  PROVE  Quiet
<1>1. UNCHANGED <<started, conn, line, tracks, chans, pending, disc, got, last, hollow, cam, rd>>
  BY ZenonT(60) DEF HandshakeOk, decode, link
<1>2. job' = [job EXCEPT !.step = @ + 1, !.tries = 0]
  BY ZenonT(60) DEF HandshakeOk
<1>3. job'.kind = job.kind /\ job'.new = job.new
  BY <1>2, ZenonT(60) DEF Timeline, Session
<1> QED
  BY <1>1, <1>3, DiscKept, ZenonT(60) DEF Quiet, Over, Timeline, RtspTypes


\* PLAY is answered.  The tracks are the new ones, the first may have decoded.
LEMMA HandshakeDoneKeeps ==
  ASSUME Clocked, Timeline, Session', NEW early \in Tracks \cup {NoTrack}, HandshakeOk(early),
         ~(job.step < Requests)
  PROVE  Timeline'
<1> DEFINE new == job.new
           ts  == cam'[early]
           pkt == Packet(early, new[early], ts)
<1>1. /\ UNCHANGED <<conn, line, got, last>> /\ job.kind = "connect" /\ job' = Free /\ started'
      /\ cam' = IF early = NoTrack THEN cam ELSE [cam EXCEPT ![early] = (cam[early] + 1) % RtpMod]
      /\ tracks' = IF early = NoTrack THEN new ELSE [new EXCEPT ![early] = Decoded(new[early], ts)]
      /\ chans' = tracks'
      /\ pending' = IF ~started /\ early # NoTrack THEN <<pkt>> ELSE <<>>
      /\ disc' = started
      /\ hollow' = (hollow \/ (started /\ \E t \in Tracks : ~tracks[t].haveDTS /\ got[t] >= 0))
      /\ rd' = IF started THEN rd ELSE [rd EXCEPT !.pc = "loop"]
  BY ZenonT(60) DEF HandshakeOk, link
<1>2. /\ AreTracks(new) /\ cam \in [Tracks -> Int] /\ got \in [Tracks -> Int] /\ conn \in Int
      /\ AreTracks(tracks) /\ started \in BOOLEAN /\ hollow \in BOOLEAN
      /\ line \in Seq(Frames \cup Responses)
  BY <1>1, ZenonT(60) DEF Timeline, RtspTypes
<1>3. pkt = [t |-> early, c |-> conn, dts |-> DecodeDTS(new[early], ts), disc |-> FALSE]
  BY ZenonT(60) DEF Packet
<1> HIDE DEF new, ts, pkt
<1>4. cam' \in [Tracks -> Int] /\ (early # NoTrack => ts \in Int)
  <2>1. CASE early = NoTrack
    BY <1>1, <1>2, <2>1, ZenonT(60)
  <2>2. CASE early # NoTrack
    <3>1. cam[early] \in Int /\ early \in Tracks /\ RtpMod \in Nat \ {0}
      BY <1>2, <2>2, ZenonT(60) DEF Clocked
    <3>2. (cam[early] + 1) % RtpMod \in Int
      BY <3>1, SMTT(40)
    <3>3. cam' = [cam EXCEPT ![early] = (cam[early] + 1) % RtpMod]
      BY <1>1, <2>2, ZenonT(60)
    <3> QED
      BY <1>2, <3>1, <3>2, <3>3, ZenonT(60) DEF ts
  <2> QED
    BY <2>1, <2>2, ZenonT(60)
<1>5. early # NoTrack => early \in Tracks /\ TrackDecoded(new, early, ts, tracks')
  BY <1>1, <1>2, ZenonT(60) DEF TrackDecoded, AreTracks
<1>6. AreTracks(tracks')
  <2>1. CASE early = NoTrack
    BY <1>1, <1>2, <2>1, ZenonT(60)
  <2>2. CASE early # NoTrack
    BY <1>2, <1>4, <1>5, <2>2, DecodeTrack, ZenonT(60)
  <2> QED
    BY <2>1, <2>2, ZenonT(60)
<1>7. early # NoTrack => pkt \in Packets /\ pkt.t = early /\ pkt.c = conn
                         /\ pkt.dts = DecodeDTS(new[early], ts)
  <2>1. early # NoTrack => early \in Tracks /\ DecodeDTS(new[early], ts) \in Int
    BY <1>2, <1>4, <1>5, DecodeTrack, ZenonT(60)
  <2> QED
    BY <1>2, <1>3, <2>1, ZenonT(60) DEF Packets
<1>8. /\ started => rd' = rd
      /\ ~started => rd'.pc = "loop"
      /\ rd'.pc # "new" /\ job'.kind # "connect"
      /\ rd'.pc = "handle" => rd.pc = "handle" /\ rd'.item = rd.item
  BY <1>1, ZenonT(60) DEF Timeline, Session, Free
<1>9. RtspTypes'
  <2>1. pending' \in Seq(Packets)
    <3>1. pending' = <<>> \/ (early # NoTrack /\ pending' = <<pkt>>)
      BY <1>1, ZenonT(60)
    <3>2. CASE pending' = <<>>
      BY <3>2, ShortSeqs, ZenonT(60)
    <3>3. CASE early # NoTrack /\ pending' = <<pkt>>
      BY <1>7, <3>3, ShortSeqs, ZenonT(60)
    <3> QED
      BY <3>1, <3>2, <3>3, ZenonT(60)
  <2>2. disc' \in BOOLEAN /\ hollow' \in BOOLEAN /\ started' \in BOOLEAN
    BY <1>1, <1>2, ZenonT(60)
  <2>3. rd'.pc = "handle" => IsItem(rd'.item)
    BY <1>8, ZenonT(60) DEF Timeline, RtspTypes
  <2> QED
    BY <1>1, <1>2, <1>4, <1>6, <1>8, <2>1, <2>2, <2>3, ZenonT(60) DEF RtspTypes
<1>10. \A t \in Tracks : Reached(new[t]) <= Reached(tracks'[t]) /\ Reached(new[t]) \in Int
                         /\ Reached(tracks'[t]) \in Int
  <2>1. \A t \in Tracks : Reached(new[t]) \in Int /\ Reached(tracks'[t]) \in Int
    BY <1>2, <1>6, ReachedInt, ZenonT(60)
  <2>2. \A n \in Int : n <= n
    BY SMTT(40)
  <2>3. CASE early = NoTrack
    <3>1. tracks' = new
      BY <1>1, <2>3, ZenonT(60)
    <3> QED
      BY <2>1, <2>2, <3>1, ZenonT(60)
  <2>4. CASE early # NoTrack
    <3>1. Reached(new[early]) <= Reached(tracks'[early])
      BY <1>2, <1>4, <1>5, <2>4, DecodeTrack, ZenonT(60)
    <3>2. \A t \in Tracks : t # early => tracks'[t] = new[t]
      BY <1>5, <2>4, ZenonT(60) DEF TrackDecoded
    <3> QED
      BY <2>1, <2>2, <3>1, <3>2, ZenonT(60)
  <2> QED
    BY <2>3, <2>4, ZenonT(60)
<1>11. CASE started
  <2>1. pending' = <<>> /\ disc' = TRUE /\ (Over <=> Over')
    BY <1>1, <1>8, <1>11, ZenonT(60) DEF Over
  <2>2. ASSUME ~Over, ~hollow' PROVE Timely(<<>>, got, tracks')
    <3>1. /\ new = Carry(tracks) /\ (~hollow => \A t \in Tracks : got[t] <= Reached(tracks[t]))
      BY <1>1, <1>11, <2>2, ZenonT(60) DEF Timeline, Reconnecting, new
    <3>2. ~hollow /\ \A t \in Tracks : tracks[t].haveDTS \/ ~(got[t] >= 0)
      BY <1>1, <1>11, <2>2, ZenonT(60)
    <3>3. \A t \in Tracks : Reached(tracks[t]) \in Int /\ got[t] \in Int
      BY <1>2, ReachedInt, ZenonT(60)
    <3>4. \A t \in Tracks : IF tracks[t].haveDTS THEN Reached(tracks[t]) <= Reached(new[t])
                             ELSE Reached(new[t]) = 0
      BY <1>2, <3>1, CarryGoesOn, ZenonT(60)
    <3>5. ASSUME NEW t \in Tracks PROVE got[t] <= Reached(tracks'[t])
      <4> DEFINE a == Reached(tracks[t])
                 b == Reached(new[t])
                 c == Reached(tracks'[t])
      <4>1. a \in Int /\ b \in Int /\ c \in Int /\ got[t] \in Int /\ b <= c /\ got[t] <= a
        BY <1>10, <3>1, <3>2, <3>3, ZenonT(60)
      <4>2. a <= b \/ (b = 0 /\ ~(got[t] >= 0))
        BY <3>2, <3>4, ZenonT(60)
      <4> HIDE DEF a, b, c
      <4>3. got[t] <= c
        BY <4>1, <4>2, SMTT(40)
      <4> QED
        BY <4>3, ZenonT(60) DEF c
    <3> QED
      BY <3>5, TimelyEmpty, ZenonT(60)
  <2>3. Marks(<<>>, TRUE, last, conn)
    BY MarksEmpty, ZenonT(60)
  <2>4. Playing'
    BY <1>1, <2>1, <2>2, <2>3, ZenonT(60) DEF Playing
  <2> QED
    BY <1>1, <1>8, <1>9, <2>4, ZenonT(60) DEF Timeline, Reconnecting, Connecting
<1>12. CASE ~started
  <2>1. new = NewTracks /\ conn = 1 /\ last.c = 1 /\ got = [t \in Tracks |-> -1]
    BY <1>1, <1>12, ZenonT(60) DEF Timeline, Connecting, new
  <2>2. Timely(<<>>, got, new)
    <3>1. ASSUME NEW t \in Tracks PROVE got[t] <= Reached(new[t])
      <4>1. got[t] = -1 /\ Reached(new[t]) = 0
        BY <2>1, NewAreTracks, ZenonT(60)
      <4> QED
        BY <4>1, SMTT(40)
    <3> QED
      BY <3>1, TimelyEmpty, ZenonT(60)
  <2>3. CASE early = NoTrack
    <3>1. pending' = <<>> /\ tracks' = new
      BY <1>1, <2>3, ZenonT(60)
    <3>2. Marks(<<>>, disc', last, conn)
      BY <2>1, MarksEmpty, ZenonT(60)
    <3>3. Playing'
      BY <1>1, <2>2, <3>1, <3>2, ZenonT(60) DEF Playing
    <3> QED
      BY <1>1, <1>8, <1>9, <3>3, ZenonT(60) DEF Timeline, Reconnecting, Connecting
  <2>4. CASE early # NoTrack
    <3>1. pending' = <<pkt>>
      BY <1>1, <1>12, <2>4, ZenonT(60)
    <3>2. <<>> \in Seq(Packets) /\ Append(<<>>, pkt) = <<pkt>>
      BY <1>7, <2>4, ShortSeqs, SMTT(40)
    <3>3. Timely(Append(<<>>, pkt), got, tracks')
      BY <1>2, <1>4, <1>5, <1>7, <2>2, <2>4, <3>2, TimelyAppend, ZenonT(60)
    <3>4. Marks(<<pkt>>, disc', last, conn)
      BY <1>7, <2>1, <2>4, SMTT(40) DEF Marks
    <3>5. Timely(<<pkt>>, got, tracks')
      BY <3>2, <3>3, ZenonT(60)
    <3>6. Playing'
      BY <1>1, <3>1, <3>4, <3>5, ZenonT(60) DEF Playing
    <3> QED
      BY <1>1, <1>8, <1>9, <3>6, ZenonT(60) DEF Timeline, Reconnecting, Connecting
  <2> QED
    BY <2>3, <2>4, ZenonT(60)
<1> QED
  BY <1>11, <1>12, ZenonT(60)


-----------------------------------------------------------------------------
(* Decoding and returning. *)

\* handleInterleavedPayloadLocked, whoever calls it.
LEMMA HandleStep ==
  ASSUME Clocked, Timeline, NEW f \in Frames, Handle(f)
  PROVE  /\ Queue(f) \in Seq(Packets) /\ Queue(f) # <<>> /\ disc' = FALSE
         /\ AreTracks(tracks') /\ AreTracks(chans') /\ (tracks = chans => tracks' = chans')
         /\ tracks = chans /\ Timely(pending, got, tracks) => Timely(Queue(f), got, tracks')
         /\ Marks(pending, disc, last, conn) => Marks(Queue(f), FALSE, last, conn)
<1> DEFINE v == f.t
           p == Marked(Packet(v, chans[v], f.ts))
<1>1. v \in Tracks /\ f.ts \in Int
  BY ZenonT(60) DEF Frames
<1>2. /\ AreTracks(tracks) /\ AreTracks(chans) /\ pending \in Seq(Packets) /\ conn \in Int
      /\ disc \in BOOLEAN /\ got \in [Tracks -> Int]
  BY ZenonT(60) DEF Timeline, RtspTypes
<1>3. /\ chans' = [chans EXCEPT ![v] = Decoded(chans[v], f.ts)] /\ disc' = FALSE
      /\ tracks' = IF tracks = chans THEN chans' ELSE tracks
  BY ZenonT(60) DEF Handle
<1>4. TrackDecoded(chans, v, f.ts, chans')
  BY <1>1, <1>2, <1>3, ZenonT(60) DEF TrackDecoded, AreTracks
<1>5. AreTracks(chans') /\ DecodeDTS(chans[v], f.ts) \in Int
  BY <1>1, <1>2, <1>4, DecodeTrack, ZenonT(60)
<1>6. /\ p = [t |-> v, c |-> conn, dts |-> DecodeDTS(chans[v], f.ts), disc |-> disc]
      /\ Queue(f) = Append(pending, p)
  BY SMTT(40) DEF Marked, Packet, Queue
<1> HIDE DEF v, p
<1>7. p \in Packets /\ p.t = v /\ p.c = conn /\ p.disc = disc /\ p.dts = DecodeDTS(chans[v], f.ts)
  BY <1>1, <1>2, <1>5, <1>6, ZenonT(60) DEF Packets
<1>8. Append(pending, p) \in Seq(Packets) /\ Append(pending, p) # <<>>
  BY <1>2, <1>7, SMTT(40)
<1>9. ASSUME Timely(pending, got, chans) PROVE Timely(Append(pending, p), got, chans')
  BY <1>1, <1>2, <1>4, <1>7, <1>9, TimelyAppend, ZenonT(60)
<1>10. ASSUME Marks(pending, disc, last, conn) PROVE Marks(Append(pending, p), FALSE, last, conn)
  BY <1>2, <1>7, <1>10, MarksAppend, ZenonT(60)
<1> QED
  BY <1>2, <1>3, <1>5, <1>6, <1>8, <1>9, <1>10, ZenonT(60)

\* A frame before the answer is decoded and queued.
LEMMA AwaitFrameKeeps == ASSUME Clocked, Timeline, Session', AwaitFrame PROVE Timeline'
<1> DEFINE f == Head(line)
<1>1. /\ UNCHANGED <<started, conn, got, last, hollow, cam, rd, job>> /\ Handle(f)
      /\ pending' = Queue(f) /\ line # <<>> /\ f.k = "rtp" /\ line' = Tail(line)
  BY ZenonT(60) DEF AwaitFrame, link, world, past
<1>2. f \in Frames /\ line' \in Seq(Frames \cup Responses)
  BY <1>1, SeqKept, IsRtp, ZenonT(60) DEF Timeline, RtspTypes
<1> HIDE DEF f
<1>3. /\ Queue(f) \in Seq(Packets) /\ disc' = FALSE
      /\ AreTracks(tracks') /\ AreTracks(chans') /\ (tracks = chans => tracks' = chans')
      /\ tracks = chans /\ Timely(pending, got, tracks) => Timely(Queue(f), got, tracks')
      /\ Marks(pending, disc, last, conn) => Marks(Queue(f), FALSE, last, conn)
  BY <1>1, <1>2, HandleStep, ZenonT(60)
<1>4. RtspTypes'
  <2>1. disc' \in BOOLEAN
    BY <1>3, ZenonT(60)
  <2> QED
    BY <1>1, <1>2, <1>3, <2>1, ZenonT(60) DEF Timeline, RtspTypes
<1>5. job.kind # "connect"
  BY <1>1, ZenonT(60) DEF AwaitFrame, OnLine
<1>6. Over <=> Over'
  BY <1>1, ZenonT(60) DEF Over
<1>7. Playing'
  BY <1>1, <1>3, <1>5, <1>6, ZenonT(60) DEF Timeline, Playing
<1> QED
  BY <1>1, <1>4, <1>5, <1>7, ZenonT(60) DEF Timeline, Reconnecting, Connecting

\* What a returned packet may not do, by either way of returning one.
Onward == /\ ~hollow => \A t \in Tracks : got[t] <= got'[t]
          /\ last'.c # last.c => last'.disc

\* The first of the queue is returned.
LEMMA PopPendingKeeps == ASSUME Timeline, Session', PopPending PROVE Timeline' /\ Onward
<1>1. /\ UNCHANGED <<started, conn, line, tracks, chans, disc, hollow, cam, job>> /\ job = Free
      /\ got' = [got EXCEPT ![Head(pending).t] = Head(pending).dts]
      /\ last' = [c |-> Head(pending).c, disc |-> Head(pending).disc]
      /\ pending # <<>> /\ pending' = Tail(pending)
  BY ZenonT(60) DEF PopPending, Return, link, world
<1>2. rd.pc = "lock" /\ rd'.pc = "loop" /\ job.kind # "connect"
  BY <1>1, SMTT(40) DEF PopPending, Timeline, Session, Free
<1>3. started /\ ~Over /\ rd'.pc # "handle" /\ rd'.pc # "new"
  BY <1>2, ZenonT(60) DEF Timeline, Session, Over
<1>4. pending \in Seq(Packets) /\ got \in [Tracks -> Int] /\ AreTracks(tracks)
  BY ZenonT(60) DEF Timeline, RtspTypes
<1>5. /\ tracks = chans /\ Marks(pending, disc, last, conn)
      /\ ~hollow => Timely(pending, got, tracks)
  BY <1>2, <1>3, ZenonT(60) DEF Timeline, Playing
<1>6. Marks(pending', disc, last', conn) /\ (last'.c # last.c => last'.disc)
  BY <1>1, <1>4, <1>5, MarksPop, ZenonT(60)
<1>7. ~hollow => Timely(pending', got', tracks) /\ \A t \in Tracks : got[t] <= got'[t]
  BY <1>1, <1>4, <1>5, TimelyPop, ZenonT(60)
<1>8. got' \in [Tracks -> Int] /\ pending' \in Seq(Packets)
  <2>1. Head(pending) \in Packets /\ Tail(pending) \in Seq(Packets)
    BY <1>1, <1>4, SeqKept, ZenonT(60)
  <2>2. Head(pending).dts \in Int
    BY <2>1, ZenonT(60) DEF Packets
  <2> QED
    BY <1>1, <1>4, <2>1, <2>2, ZenonT(60)
<1>9. RtspTypes'
  BY <1>1, <1>2, <1>3, <1>8, ZenonT(60) DEF Timeline, RtspTypes
<1>10. Playing'
  BY <1>1, <1>5, <1>6, <1>7, ZenonT(60) DEF Playing
<1> QED
  BY <1>1, <1>2, <1>3, <1>6, <1>7, <1>9, <1>10, ZenonT(60)
     DEF Timeline, Reconnecting, Connecting, Onward

\* A frame is decoded and queued, and the first of the queue returned.
LEMMA HandleFrameKeeps == ASSUME Clocked, Timeline, Session', HandleFrame PROVE Timeline' /\ Onward
<1> DEFINE f == rd.item[1]
           q == Queue(f)
<1>1. /\ UNCHANGED <<started, conn, line, hollow, cam, job>> /\ job = Free
      /\ Handle(f) /\ pending' = Tail(q) /\ rd.pc = "handle"
      /\ got' = [got EXCEPT ![Head(q).t] = Head(q).dts]
      /\ last' = [c |-> Head(q).c, disc |-> Head(q).disc]
  BY ZenonT(60) DEF HandleFrame, Return, link, world
<1>2. rd'.pc = "loop" /\ job.kind # "connect"
  BY <1>1, SMTT(40) DEF HandleFrame, Timeline, Session, Free
<1>3. started /\ ~Over /\ rd'.pc # "handle" /\ rd'.pc # "new"
  BY <1>1, <1>2, ZenonT(60) DEF Timeline, Session, Over
<1>4. f \in Frames /\ got \in [Tracks -> Int]
  BY <1>1, ZenonT(60) DEF Timeline, RtspTypes, IsItem
<1>5. /\ tracks = chans /\ Marks(pending, disc, last, conn)
      /\ ~hollow => Timely(pending, got, tracks)
  BY <1>2, <1>3, ZenonT(60) DEF Timeline, Playing
<1> HIDE DEF f
<1>6. /\ q \in Seq(Packets) /\ q # <<>> /\ disc' = FALSE /\ AreTracks(tracks') /\ AreTracks(chans')
      /\ tracks' = chans' /\ Marks(q, FALSE, last, conn)
      /\ ~hollow => Timely(q, got, tracks')
  BY <1>1, <1>4, <1>5, HandleStep, ZenonT(60)
<1> HIDE DEF q
<1>7. Marks(pending', FALSE, last', conn) /\ (last'.c # last.c => last'.disc)
  BY <1>1, <1>6, MarksPop, ZenonT(60)
<1>8. ~hollow => Timely(pending', got', tracks') /\ \A t \in Tracks : got[t] <= got'[t]
  BY <1>1, <1>4, <1>6, TimelyPop, ZenonT(60)
<1>9. got' \in [Tracks -> Int] /\ pending' \in Seq(Packets) /\ disc' \in BOOLEAN
  <2>1. Head(q) \in Packets /\ Tail(q) \in Seq(Packets)
    BY <1>6, SeqKept, ZenonT(60)
  <2>2. Head(q).dts \in Int
    BY <2>1, ZenonT(60) DEF Packets
  <2>3. disc' \in BOOLEAN
    BY <1>6, ZenonT(60)
  <2> QED
    BY <1>1, <1>4, <2>1, <2>2, <2>3, ZenonT(60)
<1>10. RtspTypes'
  BY <1>1, <1>2, <1>3, <1>6, <1>9, ZenonT(60) DEF Timeline, RtspTypes
<1>11. Playing'
  BY <1>1, <1>6, <1>7, <1>8, ZenonT(60) DEF Playing
<1> QED
  BY <1>1, <1>2, <1>3, <1>7, <1>8, <1>10, <1>11, ZenonT(60)
     DEF Timeline, Reconnecting, Connecting, Onward


-----------------------------------------------------------------------------
(* Every step. *)

\* A session that has not connected has no timeline yet.
LEMMA TimelineStarts == ASSUME Clocked, Init PROVE Timeline
<1>1. Session
  BY SessionStarts, ZenonT(60)
<1>2. /\ <<>> \in Seq(Frames \cup Responses) /\ <<>> \in Seq(Packets)
      /\ 0 \in Int /\ -1 \in Int /\ FALSE \in BOOLEAN /\ RtpMod - 3 \in Int
  BY SMTT(40) DEF Clocked
<1>3. /\ ~started /\ rd.pc = "new" /\ job.kind = "none"
      /\ [t \in Tracks |-> RtpMod - 3] \in [Tracks -> Int]
      /\ [t \in Tracks |-> -1] \in [Tracks -> Int]
  BY <1>2, ZenonT(60) DEF Init, Free
<1>4. rd.pc # "handle" /\ job.kind # "connect"
  BY <1>3, ZenonT(60)
<1>5. RtspTypes
  BY <1>2, <1>3, <1>4, NewAreTracks, ZenonT(60) DEF Init, RtspTypes
<1>6. Connecting
  <2>1. last.c = 1
    BY ZenonT(60) DEF Init
  <2> QED
    BY <1>4, <2>1, ZenonT(60) DEF Init, Connecting
<1> QED
  BY <1>1, <1>3, <1>5, <1>6, ZenonT(60) DEF Timeline, Playing, Reconnecting

\* A step that returns nothing.
LEMMA NothingReturned == ASSUME Timeline, UNCHANGED <<got, last>> PROVE Onward
<1>1. \A n \in Int : n <= n
  BY SMTT(40)
<1>2. \A t \in Tracks : got[t] \in Int
  BY ZenonT(60) DEF Timeline, RtspTypes
<1> QED
  BY <1>1, <1>2, ZenonT(60) DEF Onward

\* A step that decodes nothing keeps all of it.
LEMMA QuietOnward == ASSUME Timeline, Session', Quiet PROVE Timeline' /\ Onward
BY QuietKeeps, NothingReturned, ZenonT(60) DEF Quiet

\* Every step keeps the timeline.
LEMMA TimelineStays ==
  ASSUME Clocked, Timeline, [Next]_rtspVars
  PROVE  Timeline' /\ Onward
<1>1. Session /\ Session'
  BY SessionStays, ZenonT(60) DEF Timeline
<1>2. CASE UNCHANGED rtspVars
  <2>1. UNCHANGED <<started, conn, tracks, chans, pending, got, last, hollow, disc, line, cam,
                    rd, job>>
    BY <1>2, ZenonT(60) DEF rtspVars
  <2>2. Quiet
    BY <2>1, DiscKept, ZenonT(60) DEF Quiet, Timeline, RtspTypes, Over
  <2> QED
    BY <1>1, <2>2, QuietOnward, ZenonT(60)
<1>3. CASE \/ CameraEnds \/ DialFails \/ RedialFails \/ Handshake401 \/ LoadPaused
           \/ WaitIfPaused \/ GoRead \/ KeepAliveDue \/ KeepAlive \/ ReadFrame
           \/ ReadEOF \/ ReadTimeout \/ ReadTorn \/ Pause \/ Resume
           \/ AwaitResponse \/ Stop \/ Close
  <2>1. Quiet
    BY <1>3, ReaderQuiet, MuQuiet, ReadFrameQuiet, ReadTornQuiet, AwaitResponseQuiet, ZenonT(60)
  <2> QED
    BY <1>1, <2>1, QuietOnward, ZenonT(60)
<1>4. CASE \E t \in Tracks : \E j \in Jumps[t] : CameraFrame(t, j)
  <2>1. Quiet
    BY <1>4, CameraFrameQuiet, ZenonT(60)
  <2> QED
    BY <1>1, <2>1, QuietOnward, ZenonT(60)
<1>5. CASE \E late \in BOOLEAN : AwaitFails(late)
  <2>1. Quiet
    BY <1>5, AwaitFailsQuiet, ZenonT(60)
  <2> QED
    BY <1>1, <2>1, QuietOnward, ZenonT(60)
<1>6. CASE \E code \in {200, 501} : Answer(code)
  <2>1. Quiet
    BY <1>6, AnswerQuiet, ZenonT(60)
  <2> QED
    BY <1>1, <2>1, QuietOnward, ZenonT(60)
<1>7. CASE GetCodecs
  BY <1>1, <1>7, GetCodecsKeeps, NothingReturned, ZenonT(60) DEF GetCodecs, past
<1>8. CASE Reconnect
  BY <1>1, <1>8, ReconnectKeeps, NothingReturned, ZenonT(60) DEF Reconnect, past
<1>9. CASE HandshakeFails
  BY <1>1, <1>9, HandshakeFailsKeeps, NothingReturned, ZenonT(60) DEF HandshakeFails, past
<1>10. CASE AwaitFrame
  BY <1>1, <1>10, AwaitFrameKeeps, NothingReturned, ZenonT(60) DEF AwaitFrame, past
<1>11. CASE PopPending
  BY <1>1, <1>11, PopPendingKeeps, ZenonT(60)
<1>12. CASE HandleFrame
  BY <1>1, <1>12, HandleFrameKeeps, ZenonT(60)
<1>13. ASSUME NEW t \in Tracks \cup {NoTrack}, HandshakeOk(t) PROVE Timeline' /\ Onward
  <2>1. CASE job.step < Requests
    BY <1>1, <1>13, <2>1, HandshakeOnQuiet, QuietOnward, ZenonT(60)
  <2>2. CASE ~(job.step < Requests)
    <3>1. UNCHANGED <<got, last>>
      BY <1>13, ZenonT(60) DEF HandshakeOk
    <3> QED
      BY <1>1, <1>13, <2>2, <3>1, HandshakeDoneKeeps, NothingReturned, ZenonT(60)
  <2> QED
    BY <2>1, <2>2, ZenonT(60)
<1> QED
  BY <1>2, <1>3, <1>4, <1>5, <1>6, <1>7, <1>8, <1>9, <1>10, <1>11, <1>12,
     <1>13, ZenonT(180) DEF Next

-----------------------------------------------------------------------------
\* At most the current socket is open, none once the relay has closed the
\* demuxer, and a reader is blocked only by a pause in force, on the channel
\* that Resume or Close closes: for any tracks and any number of connections.
THEOREM InHand == Spec => []SessionIsInHand
<1>1. Init => Session
  BY SessionStarts, ZenonT(60)
<1>2. Session /\ [Next]_rtspVars => Session'
  BY SessionStays, ZenonT(60)
<1>3. Session => SessionIsInHand
  BY ZenonT(60) DEF Session, SessionIsInHand, SocketsAreClosed, BlockedByPause
<1> QED
  BY <1>1, <1>2, <1>3, PTL DEF Spec

\* The DTS of a track does not go back, at wraps, reorderings or reconnections,
\* unless the session reconnected twice without a packet of it between; and the
\* first packet returned of a connection carries the mark.
THEOREM GoesOn == Spec => TimelineGoesOn
<1>1. Init => Timeline
  BY TimelineStarts, ClockAssumption, ZenonT(60)
<1>2. Timeline /\ [Next]_rtspVars => Timeline' /\ Onward
  BY TimelineStays, ClockAssumption, ZenonT(60)
<1>3. Timeline /\ Timeline' /\ Onward => (~hollow => \A t \in Tracks : got'[t] >= got[t])
  <2>1. SUFFICES ASSUME Timeline, Timeline', Onward, ~hollow, NEW t \in Tracks
                 PROVE  got'[t] >= got[t]
    BY ZenonT(60)
  <2>2. got[t] <= got'[t]
    BY <2>1, ZenonT(60) DEF Onward
  <2>3. got[t] \in Int /\ got'[t] \in Int
    BY <2>1, ZenonT(60) DEF Timeline, RtspTypes
  <2> QED
    BY <2>2, <2>3, ZenonT(60)
<1>4. Onward => (last'.c # last.c => last'.disc)
  BY ZenonT(60) DEF Onward
<1> QED
  BY <1>1, <1>2, <1>3, <1>4, PTL
     DEF Spec, TimelineGoesOn, DtsMonotoneUnlessHollow, ReconnectIsMarked
====
