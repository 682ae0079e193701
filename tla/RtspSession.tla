---------------------------- MODULE RtspSession ----------------------------
(***************************************************************************)
(* av/format/rtsp: the session of an RTSP Demuxer.  The relay goroutine    *)
(* connects in GetCodecs, reads in ReadPacket and closes at the end; a     *)
(* controller pauses and resumes.  mu is held through every exchange of    *)
(* requests, but ReadPacket reads the TCP connection without it, so that   *)
(* both may read the same connection.  A frame here is an access unit in   *)
(* one RTP packet; RtpDepacketizer models access units of several.         *)
(***************************************************************************)
EXTENDS Integers, Sequences, FiniteSets

CONSTANTS Tracks, NoTrack,
          RtpMod,                 \* RTP timestamps are modulo this (2^32)
          Jumps,                  \* Jumps[t]: how much t's RTP timestamp may move
          DefaultDur,             \* the duration of a packet nothing tells
          MaxFrames, MaxConns, MaxPauses, MaxKeepAlives

\* Clocks count in integers, and wrap.
Clocked == /\ RtpMod \in Nat \ {0} /\ DefaultDur \in Nat
           /\ Jumps \in [Tracks -> SUBSET Int]
ASSUME ClockAssumption == Clocked

VARIABLES started, closed,        \* fields of Demuxer
          conn,                   \* d.conn: the number of the connection, 0: none
          open,                   \* the sockets not closed
          line,                   \* what is left to read on conn
          dead,                   \* the peer has ended conn
          tracks,                 \* d.tracks
          chans,                  \* d.trackByRTPCh: the tracks that decode
          pending, disc,          \* pending, pendingDiscontinuity
          paused, pauseCh,
          kaDue,                  \* the keep-alive time has come
          job,                    \* the exchange in progress under mu
          rd,                     \* the relay goroutine
          cam,                    \* cam[t]: the camera's RTP timestamp
          frames, npause, nka,
          got,                    \* history: the last DTS returned of every track, or -1
          last,                   \* history: the connection and mark of the last packet returned
          hollow                  \* history: reconnected twice without a packet between

rtspVars == <<started, closed, conn, open, line, dead, tracks, chans, pending, disc, paused,
              pauseCh, kaDue, job, rd, cam, frames, npause, nka, got, last, hollow>>
link   == <<conn, open, dead>>
decode == <<tracks, chans, pending, disc>>
pausing == <<paused, pauseCh>>
world  == <<cam, frames, npause, nka>>
past   == <<got, last, hollow>>

Free     == [kind |-> "none", step |-> 0, tries |-> 0, new |-> <<>>]
NewTrack == [have |-> FALSE, lastRTP |-> 0, total |-> 0, base |-> 0,
             lastDTS |-> 0, haveDTS |-> FALSE, dur |-> 0]
NewTracks == [t \in Tracks |-> NewTrack]
\* OPTIONS, DESCRIBE, a SETUP for every track, PLAY.
Requests == 3 + Cardinality(Tracks)

Init == /\ started = FALSE /\ closed = FALSE /\ conn = 0 /\ open = {} /\ line = <<>>
        /\ dead = FALSE /\ tracks = NewTracks /\ chans = NewTracks
        /\ pending = <<>> /\ disc = FALSE /\ paused = FALSE /\ pauseCh = 0 /\ kaDue = FALSE
        /\ job = Free /\ rd = [pc |-> "new", ch |-> 0, item |-> <<>>]
        /\ cam = [t \in Tracks |-> RtpMod - 3] /\ frames = 0 /\ npause = 0 /\ nka = 0
        /\ got = [t \in Tracks |-> -1] /\ last = [c |-> 1, disc |-> FALSE] /\ hollow = FALSE

-----------------------------------------------------------------------------
\* decodeDTS: the difference as a signed number, and no step back.
Signed(d) == IF d % RtpMod >= RtpMod \div 2 THEN (d % RtpMod) - RtpMod ELSE d % RtpMod
Clamp_None(tr, dts) == dts
Clamp(tr, dts) == IF tr.haveDTS /\ dts < tr.lastDTS THEN tr.lastDTS ELSE dts
DecodeDTS(tr, ts) == IF ~tr.have THEN tr.base
                     ELSE Clamp(tr, tr.base + tr.total + Signed(ts - tr.lastRTP))
Advance(tr, ts) ==
  [tr EXCEPT !.have = TRUE, !.lastRTP = ts,
             !.total = IF tr.have THEN @ + Signed(ts - tr.lastRTP) ELSE 0]

\* estimateDuration.
EstimateDuration(tr, dts) == IF tr.haveDTS /\ dts > tr.lastDTS THEN dts - tr.lastDTS
                             ELSE IF tr.dur > 0 THEN tr.dur ELSE DefaultDur

\* decodeRTP of a payload that is one packet.
Decoded(tr, ts) == LET dts == DecodeDTS(tr, ts)
                   IN  [Advance(tr, ts) EXCEPT !.lastDTS = dts, !.haveDTS = TRUE,
                                               !.dur = EstimateDuration(tr, dts)]
Packet(t, tr, ts) == [t |-> t, c |-> conn, dts |-> DecodeDTS(tr, ts), disc |-> FALSE]

\* handleInterleavedPayloadLocked, appendPendingLocked.  trackByRTPCh holds the
\* tracks of d.tracks unless a reconnection failed half way.
Marked_Late(p) == p
Marked(p) == [p EXCEPT !.disc = disc]
Handle(f) == /\ chans' = [chans EXCEPT ![f.t] = Decoded(@, f.ts)]
             /\ tracks' = IF tracks = chans THEN chans' ELSE tracks
             /\ disc' = FALSE
Queue(f) == Append(pending, Marked(Packet(f.t, chans[f.t], f.ts)))

\* carryTrackState.
Carry(old) == [t \in Tracks |->
  IF old[t].haveDTS THEN [NewTrack EXCEPT !.base = old[t].lastDTS + old[t].dur, !.dur = old[t].dur]
  ELSE NewTrack]

-----------------------------------------------------------------------------
\* The camera sends a frame while the session plays, or ends the connection.
CameraFrame(t, jump) ==
  /\ started /\ open # {} /\ ~dead /\ frames < MaxFrames /\ job.kind # "connect"
  /\ cam' = [cam EXCEPT ![t] = (@ + jump) % RtpMod] /\ frames' = frames + 1
  /\ line' = Append(line, [k |-> "rtp", t |-> t, ts |-> cam'[t], code |-> 0])
  /\ UNCHANGED <<started, closed, link, decode, pausing, kaDue, job, rd, npause, nka, past>>
CameraEnds == /\ started /\ open # {} /\ ~dead /\ conn < MaxConns
              /\ dead' = TRUE
              /\ UNCHANGED <<started, closed, conn, open, line, decode, pausing, kaDue, job, rd,
                             world, past>>

\* dial, at the start of GetCodecs and, after the old socket was closed, of
\* reconnectLocked.
Dial == /\ conn' = conn + 1 /\ open' = {conn'} /\ line' = <<>> /\ dead' = FALSE
GetCodecs == /\ rd.pc = "new" /\ job = Free
             /\ Dial
             /\ job' = [Free EXCEPT !.kind = "connect", !.step = 1, !.new = NewTracks]
             /\ rd' = [rd EXCEPT !.pc = "codecs"]
             /\ UNCHANGED <<started, closed, decode, pausing, kaDue, world, past>>
DialFails == /\ rd.pc = "new"
             /\ rd' = [rd EXCEPT !.pc = "fail"]
             /\ UNCHANGED <<started, closed, link, line, decode, pausing, kaDue, job, world, past>>
\* After a read error mu is taken for it, after a failed keep-alive it is held.
Recovering == rd.pc = "recover" /\ job.kind \in {"none", "redial"}
Reconnect == /\ Recovering /\ conn < MaxConns
             /\ Dial
             /\ job' = [Free EXCEPT !.kind = "connect", !.step = 1, !.new = Carry(tracks)]
             /\ rd' = [rd EXCEPT !.pc = IF job = Free THEN "loop" ELSE "lock"]
             /\ UNCHANGED <<started, closed, decode, pausing, kaDue, world, past>>
RedialFails == /\ Recovering
               /\ open' = {} /\ job' = Free
               /\ rd' = [rd EXCEPT !.pc = "fail"]
               /\ UNCHANGED <<started, closed, conn, dead, line, decode, pausing, kaDue, world,
                              past>>

\* closeLocked: only the first call does anything.
CloseSocket_NotBeforePlay == /\ open' = IF closed \/ ~started THEN open ELSE {}
                             /\ closed' = TRUE
                             /\ pauseCh' = IF closed THEN pauseCh ELSE 0
                             /\ rd' = [rd EXCEPT !.pc = "fail"]
CloseSocket == /\ open' = IF closed THEN open ELSE {}
               /\ closed' = TRUE
               /\ pauseCh' = IF closed THEN pauseCh ELSE 0
               /\ rd' = [rd EXCEPT !.pc = "fail"]

\* A request of the handshake is answered: 200, 401 once, or anything else.
\* Until PLAY is answered the new tracks may already decode, in reconnectLocked
\* for nothing, because pending is emptied afterwards.
HandshakeOk(early) ==
  /\ job.kind = "connect"
  /\ IF job.step < Requests
       THEN /\ early = NoTrack
            /\ job' = [job EXCEPT !.step = @ + 1, !.tries = 0]
            /\ UNCHANGED <<started, decode, kaDue, rd, cam, frames, hollow>>
       ELSE /\ job' = Free
            /\ frames' = IF early = NoTrack THEN frames ELSE frames + 1
            /\ frames' <= MaxFrames
            /\ cam' = IF early = NoTrack THEN cam ELSE [cam EXCEPT ![early] = (@ + 1) % RtpMod]
            /\ tracks' = IF early = NoTrack THEN job.new
                         ELSE [job.new EXCEPT ![early] = Decoded(@, cam'[early])]
            /\ chans' = tracks'
            /\ pending' = IF ~started /\ early # NoTrack
                            THEN <<Packet(early, job.new[early], cam'[early])>> ELSE <<>>
            /\ disc' = started
            /\ hollow' = (hollow \/ (started /\ \E t \in Tracks : ~tracks[t].haveDTS
                                                                /\ got[t] >= 0))
            /\ started' = TRUE /\ kaDue' = FALSE
            /\ rd' = IF started THEN rd ELSE [rd EXCEPT !.pc = "loop"]
  /\ UNCHANGED <<closed, link, line, pausing, npause, nka, got, last>>
Handshake401 == /\ job.kind = "connect" /\ job.tries = 0
                /\ job' = [job EXCEPT !.tries = 1]
                /\ UNCHANGED <<started, closed, link, line, decode, pausing, kaDue, rd, world, past>>
HandshakeFails ==
  /\ job.kind = "connect"
  /\ job' = Free
  /\ IF started THEN rd' = [rd EXCEPT !.pc = "fail"] /\ UNCHANGED <<open, closed, pauseCh>>
     ELSE CloseSocket
  /\ chans' = IF job.step = Requests THEN job.new ELSE chans
  /\ UNCHANGED <<started, conn, dead, line, tracks, pending, disc, paused, kaDue, world, past>>

-----------------------------------------------------------------------------
\* ReadPacket: waitIfPaused loads paused, then takes the channel.
LoadPaused == /\ rd.pc = "loop" /\ job.kind # "connect"
              /\ rd' = [rd EXCEPT !.pc = IF paused THEN "paused" ELSE "lock"]
              /\ UNCHANGED <<started, closed, link, line, decode, pausing, kaDue, job, world, past>>
WaitIfPaused == /\ rd.pc = "paused"
                /\ rd' = [rd EXCEPT !.pc = IF pauseCh # 0 THEN "blocked" ELSE "lock", !.ch = pauseCh]
                /\ UNCHANGED <<started, closed, link, line, decode, pausing, kaDue, job, world, past>>

\* Under mu: a keep-alive that is due, a pending packet, or on to the socket.
Return(p) == got' = [got EXCEPT ![p.t] = p.dts] /\ last' = [c |-> p.c, disc |-> p.disc]
PopPending == /\ rd.pc = "lock" /\ job = Free /\ ~kaDue /\ pending # <<>>
              /\ Return(Head(pending)) /\ pending' = Tail(pending)
              /\ rd' = [rd EXCEPT !.pc = "loop"]
              /\ UNCHANGED <<started, closed, link, line, tracks, chans, disc, pausing, kaDue, job,
                             world, hollow>>
GoRead == /\ rd.pc = "lock" /\ job = Free /\ ~kaDue /\ pending = <<>>
          /\ rd' = [rd EXCEPT !.pc = "reading"]
          /\ UNCHANGED <<started, closed, link, line, decode, pausing, kaDue, job, world, past>>
KeepAliveDue == /\ started /\ ~kaDue /\ nka < MaxKeepAlives /\ job = Free
                /\ kaDue' = TRUE /\ nka' = nka + 1
                /\ UNCHANGED <<started, closed, link, line, decode, pausing, job, rd, cam, frames,
                               npause, past>>
KeepAlive == /\ rd.pc = "lock" /\ job = Free /\ kaDue
             /\ job' = [Free EXCEPT !.kind = "keepalive"]
             /\ UNCHANGED <<started, closed, link, line, decode, pausing, kaDue, rd, world, past>>

Response(code) == [k |-> "resp", t |-> NoTrack, ts |-> 0, code |-> code]
\* Without mu: a frame, a response that is none of its business, the end of
\* the connection, or the deadline of a second (and any other net.Error).
ReadFrame == /\ rd.pc = "reading" /\ line # <<>>
             /\ line' = Tail(line)
             /\ rd' = IF Head(line).k = "rtp" THEN [rd EXCEPT !.pc = "handle", !.item = <<Head(line)>>]
                      ELSE [rd EXCEPT !.pc = "recover"]
             /\ UNCHANGED <<started, closed, link, decode, pausing, kaDue, job, world, past>>
ReadEOF == /\ rd.pc = "reading" /\ line = <<>> /\ dead
           /\ rd' = [rd EXCEPT !.pc = "recover"]
           /\ UNCHANGED <<started, closed, link, line, decode, pausing, kaDue, job, world, past>>
ReadTimeout == /\ rd.pc = "reading" /\ line = <<>>
               /\ rd' = [rd EXCEPT !.pc = "loop"]
               /\ UNCHANGED <<started, closed, link, line, decode, pausing, kaDue, job, world, past>>
\* The deadline passes within a frame: what is left of it is not a frame.
ReadTorn == /\ rd.pc = "reading" /\ line # <<>> /\ Head(line).k = "rtp"
            /\ line' = <<Response(0)>> \o Tail(line)
            /\ rd' = [rd EXCEPT !.pc = "loop"]
            /\ UNCHANGED <<started, closed, link, decode, pausing, kaDue, job, world, past>>
HandleFrame == /\ rd.pc = "handle" /\ job = Free
               /\ Handle(rd.item[1])
               /\ pending' = Tail(Queue(rd.item[1]))
               /\ Return(Head(Queue(rd.item[1])))
               /\ rd' = [rd EXCEPT !.pc = "loop", !.item = <<>>]
               /\ UNCHANGED <<started, closed, link, line, pausing, kaDue, job, world, hollow>>

-----------------------------------------------------------------------------
\* Requests on a playing session: the server answers; whoever holds mu reads up
\* to the answer and handles the frames before it.
\* Before the session plays no request is made.
Pause == /\ job = Free /\ ~paused /\ npause < MaxPauses
         /\ npause' = npause + 1
         /\ IF started THEN job' = [Free EXCEPT !.kind = "pause"] /\ UNCHANGED pausing
            ELSE paused' = TRUE /\ pauseCh' = npause' /\ UNCHANGED job
         /\ UNCHANGED <<started, closed, link, line, decode, kaDue, rd, cam, frames, nka, past>>
Resume == /\ job = Free /\ paused
          /\ IF started THEN job' = [Free EXCEPT !.kind = "resume"] /\ UNCHANGED pausing
             ELSE paused' = FALSE /\ pauseCh' = 0 /\ UNCHANGED job
          /\ UNCHANGED <<started, closed, link, line, decode, kaDue, rd, world, past>>

OnLine == job.kind \in {"pause", "resume", "keepalive"}
\* 405, 451 and 501 make a keep-alive try OPTIONS.
Answer(code) == /\ OnLine /\ job.step \in {0, 2} /\ ~dead /\ open # {}
                /\ line' = Append(line, Response(code))
                /\ job' = [job EXCEPT !.step = @ + 1]
                /\ UNCHANGED <<started, closed, link, decode, pausing, kaDue, rd, world, past>>
AwaitFrame == /\ OnLine /\ line # <<>> /\ Head(line).k = "rtp"
              /\ line' = Tail(line) /\ Handle(Head(line)) /\ pending' = Queue(Head(line))
              /\ UNCHANGED <<started, closed, link, pausing, kaDue, job, rd, world, past>>

Failed == /\ job' = IF job.kind = "keepalive" THEN [Free EXCEPT !.kind = "redial"] ELSE Free
          /\ rd' = IF job.kind = "keepalive" THEN [rd EXCEPT !.pc = "recover"] ELSE rd
          /\ UNCHANGED <<disc, pausing, kaDue>>
Woken_NotByResume == rd
Woken == IF rd.pc = "blocked" /\ rd.ch = pauseCh THEN [rd EXCEPT !.pc = "lock"] ELSE rd
Succeeded ==
  /\ job' = Free
  /\ CASE job.kind = "pause" ->
            paused' = TRUE /\ pauseCh' = npause /\ UNCHANGED <<disc, kaDue, rd>>
       [] job.kind = "resume" ->
            /\ paused' = FALSE /\ pauseCh' = 0 /\ disc' = TRUE /\ kaDue' = FALSE
            /\ rd' = Woken
       [] OTHER -> kaDue' = FALSE /\ UNCHANGED <<disc, pausing, rd>>
AwaitResponse ==
  /\ OnLine /\ line # <<>> /\ Head(line).k = "resp"
  /\ line' = Tail(line)
  /\ CASE Head(line).code = 200 -> Succeeded
       [] Head(line).code = 501 /\ job.kind = "keepalive" /\ job.step = 1 ->
            job' = [job EXCEPT !.step = 2] /\ UNCHANGED <<disc, pausing, kaDue, rd>>
       [] OTHER -> Failed
  /\ UNCHANGED <<started, closed, link, tracks, chans, pending, world, past>>
\* The connection ended, or the answer did not come in time: the reader took
\* it, or it comes later.
AwaitFails(late) ==
              /\ OnLine /\ line = <<>>
              /\ late => job.step \in {0, 2} /\ ~dead /\ open # {} /\ job.kind # "keepalive"
              /\ line' = IF late THEN <<Response(200)>> ELSE <<>>
              /\ Failed
              /\ UNCHANGED <<started, closed, link, tracks, chans, pending, world, past>>

-----------------------------------------------------------------------------
\* The relay's context ends, or ReadPacket failed: it closes the demuxer.
Stop == /\ rd.pc \in {"loop", "blocked", "reading"}
        /\ rd' = [rd EXCEPT !.pc = "fail"]
        /\ UNCHANGED <<started, closed, link, line, decode, pausing, kaDue, job, world, past>>
Close == /\ rd.pc = "fail" /\ job = Free
         /\ open' = IF closed THEN open ELSE {}
         /\ closed' = TRUE /\ pauseCh' = IF closed THEN pauseCh ELSE 0
         /\ rd' = [rd EXCEPT !.pc = "gone"]
         /\ UNCHANGED <<started, conn, dead, line, decode, paused, kaDue, job, world, past>>

Next == \/ \E t \in Tracks : \E j \in Jumps[t] : CameraFrame(t, j)
        \/ CameraEnds \/ GetCodecs \/ DialFails \/ Reconnect \/ RedialFails
        \/ \E t \in Tracks \cup {NoTrack} : HandshakeOk(t)
        \/ Handshake401 \/ HandshakeFails
        \/ LoadPaused \/ WaitIfPaused \/ PopPending \/ GoRead \/ KeepAliveDue \/ KeepAlive
        \/ ReadFrame \/ ReadEOF \/ ReadTimeout \/ ReadTorn \/ HandleFrame
        \/ Pause \/ Resume \/ AwaitFrame \/ AwaitResponse \/ \E late \in BOOLEAN : AwaitFails(late)
        \/ \E code \in {200, 501} : Answer(code)
        \/ Stop \/ Close

Spec == Init /\ [][Next]_rtspVars

-----------------------------------------------------------------------------
\* One socket at a time is open, through failed handshakes and reconnections,
\* and none once the relay has closed the demuxer.
SocketsAreClosed == /\ open \subseteq {conn}
                    /\ rd.pc = "gone" => open = {}

\* The DTS of a track does not go back: not at a wrap of the RTP timestamp, not
\* with reordered frames and not at a reconnection that follows packets of the
\* track on the connection before.
DtsMonotoneUnlessHollow == [][~hollow => \A t \in Tracks : got'[t] >= got[t]]_rtspVars

\* The first packet after a reconnection carries the discontinuity mark,
\* whichever track it belongs to and whoever read it off the connection.
ReconnectIsMarked == [][last'.c # last.c => last'.disc]_rtspVars

\* A reader blocked by a pause waits on the channel that Resume or Close closes.
BlockedByPause == rd.pc = "blocked" => paused /\ rd.ch = pauseCh

\* No connection is lost sight of, and a reader is blocked only by a pause that
\* is in force.
SessionIsInHand == SocketsAreClosed /\ BlockedByPause

\* The DTS of a track do not go back and the first packet after a reconnection
\* is marked.
TimelineGoesOn == DtsMonotoneUnlessHollow /\ ReconnectIsMarked
=============================================================================
