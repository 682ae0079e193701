------------------------------- MODULE LLHLS -------------------------------
(***************************************************************************)
(* av/format/llhls: the muxer goroutine cuts the stream into parts and     *)
(* segments while HTTP requests block in waitForPart on a sync.Cond until  *)
(* the part they name is published, the muxer is closed, the reload        *)
(* timeout has passed or the client has gone.  The timer and the context   *)
(* watcher call Broadcast without holding mu.                              *)
(***************************************************************************)
EXTENDS Integers, Sequences, FiniteSets

CONSTANTS PartTarget, SegTarget, SegBufferCount,   \* Config, in packet durations
          Clients, Asks,                           \* Asks: the queries, [msn, part], part = -1: none
          MaxTaken, MaxChanges

\* A muxer keeps a segment at least; _HLS_part counts only beside _HLS_msn.
Configured == /\ PartTarget \in Nat /\ SegTarget \in Nat /\ SegBufferCount \in Nat \ {0}
              /\ \A q \in Asks : /\ q.msn \in Int /\ q.part \in Nat \cup {-1}
                                 /\ q.msn < 0 => q.part = -1
ASSUME HlsAssumption == Configured

VARIABLES buf,           \* FragmentWriter: the buffered packets
          partDur,       \* partDurAccum
          seenKey, init, curSeg, comp, maxDur, trailer, terminating,
          conn,          \* conn[c]: the request of client c
          waiters,       \* sync.Cond: the clients whose Wait would be woken
          nIn, taken     \* input count; history: the packets accepted

muxState == <<buf, partDur, seenKey, init, curSeg, comp, maxDur, trailer, terminating>>
hlsVars  == <<buf, partDur, seenKey, init, curSeg, comp, maxDur, trailer, terminating,
              conn, waiters, nIn, taken>>

NewSeg(n) == [seq |-> n, dur |-> 0, parts |-> <<>>]
NoRequest == [pc |-> "idle", msn |-> 0, part |-> -1, late |-> FALSE, gone |-> FALSE, list |-> <<>>]

\* NewMuxer and WriteHeader.
HlsInit == /\ buf = <<>> /\ partDur = 0 /\ seenKey = FALSE /\ init = 0
           /\ curSeg = NewSeg(0) /\ comp = <<>> /\ maxDur = 0
           /\ trailer = FALSE /\ terminating = FALSE
           /\ conn = [c \in Clients |-> NoRequest] /\ waiters = {}
           /\ nIn = 0 /\ taken = <<>>

\* sync.Cond.Broadcast: the waiting goroutines go back to their loop.
Woken(cs) == [c \in Clients |-> IF c \in cs THEN [conn[c] EXCEPT !.pc = "check"] ELSE conn[c]]
Broadcast == conn' = Woken(waiters) /\ waiters' = {}

\* mu is held by a request from its check until it is on the waiting list.
Unlocked == \A c \in Clients : conn[c].pc # "add"

\* finaliseSegment.
Trim_KeepsOldest(segs) == IF Len(segs) > SegBufferCount THEN SubSeq(segs, 1, SegBufferCount) ELSE segs
Trim(segs) == IF Len(segs) > SegBufferCount
                THEN SubSeq(segs, Len(segs) - SegBufferCount + 1, Len(segs)) ELSE segs
Finalise(seg) == /\ comp' = Trim(Append(comp, seg))
                 /\ maxDur' = IF seg.dur > maxDur THEN seg.dur ELSE maxDur
                 /\ curSeg' = NewSeg(seg.seq + 1)

\* FragmentWriter.FirstIsKeyframe: the first video sample decides.
FirstIsKeyframe == \E i \in DOMAIN buf : /\ buf[i].video /\ buf[i].key
                                        /\ \A j \in 1 .. i - 1 : ~buf[j].video

WithPart == [curSeg EXCEPT !.parts = Append(@, [indep |-> FirstIsKeyframe, dur |-> partDur,
                                                 init |-> init, data |-> buf]),
                           !.dur = @ + partDur]

Ends_AnyPacket(nextIsKey, seg) == seg.dur >= SegTarget
Ends(nextIsKey, seg) == nextIsKey /\ seg.dur >= SegTarget

\* emitPart, with samples buffered.
EmitPart(nextIsKey) ==
  /\ IF Ends(nextIsKey, WithPart) THEN Finalise(WithPart)
     ELSE curSeg' = WithPart /\ UNCHANGED <<comp, maxDur>>
  /\ Broadcast

\* WritePacket.
WritePacket(video, key) ==
  LET p     == [n |-> Len(taken) + 1, video |-> video, key |-> key]
      isKey == video /\ key
      flush == buf # <<>> /\ (isKey \/ partDur >= PartTarget)
  IN  /\ nIn < MaxTaken /\ ~trailer /\ Unlocked
      /\ nIn' = nIn + 1
      /\ IF ~seenKey /\ ~isKey
           THEN UNCHANGED <<muxState, conn, waiters, taken>>
           ELSE /\ seenKey' = TRUE /\ taken' = Append(taken, p)
                /\ IF flush THEN EmitPart(isKey)
                   ELSE UNCHANGED <<curSeg, comp, maxDur, conn, waiters>>
                /\ buf' = IF flush THEN <<p>> ELSE Append(buf, p)
                /\ partDur' = (IF flush THEN 0 ELSE partDur) + 1
                /\ UNCHANGED <<init, trailer, terminating>>

\* WriteCodecChange: the part in progress is published under the old init
\* segment, then the new one replaces it.
WriteCodecChange ==
  /\ init < MaxChanges /\ ~trailer /\ Unlocked
  /\ init' = init + 1 /\ buf' = <<>>
  /\ IF buf # <<>> THEN EmitPart(FALSE) /\ partDur' = 0
     ELSE Broadcast /\ UNCHANGED <<curSeg, comp, maxDur, partDur>>
  /\ UNCHANGED <<seenKey, trailer, terminating, nIn, taken>>

\* WriteTrailer.
Final == IF buf = <<>> THEN curSeg ELSE WithPart
WriteTrailer ==
  /\ ~trailer /\ Unlocked
  /\ trailer' = TRUE
  /\ buf' = <<>> /\ partDur' = IF buf = <<>> THEN partDur ELSE 0
  /\ IF Final.parts # <<>> THEN Finalise(Final) ELSE UNCHANGED <<curSeg, comp, maxDur>>
  /\ Broadcast
  /\ UNCHANGED <<seenKey, init, terminating, nIn, taken>>

\* Close, after the trailer it writes itself when there was none.
CloseMuxer_Silent == /\ trailer /\ ~terminating /\ Unlocked
                     /\ terminating' = TRUE
                     /\ UNCHANGED <<buf, partDur, seenKey, init, curSeg, comp, maxDur, trailer,
                                    conn, waiters, nIn, taken>>
CloseMuxer == /\ trailer /\ ~terminating /\ Unlocked
              /\ terminating' = TRUE /\ Broadcast
              /\ UNCHANGED <<buf, partDur, seenKey, init, curSeg, comp, maxDur, trailer, nIn, taken>>

-----------------------------------------------------------------------------
Complete == {comp[i] : i \in DOMAIN comp}

\* partAvailable.
PartAvailable_OffByOne(msn, part) ==
  \/ \E s \in Complete : s.seq > msn \/ (s.seq = msn /\ part < Len(s.parts))
  \/ curSeg.seq = msn /\ part >= 0 /\ part <= Len(curSeg.parts)
PartAvailable(msn, part) ==
  \/ \E s \in Complete : s.seq > msn \/ (s.seq = msn /\ part < Len(s.parts))
  \/ curSeg.seq = msn /\ part >= 0 /\ part < Len(curSeg.parts)

\* findPartData and findSegmentData.
FindPart(seq, i) ==
  LET s == {x \in Complete \cup {curSeg} : x.seq = seq /\ i \in 0 .. Len(x.parts) - 1}
  IN  IF s = {} THEN <<>> ELSE (CHOOSE x \in s : TRUE).parts[i + 1].data
FindSegment(seq) ==
  LET s == {x \in Complete : x.seq = seq}
  IN  IF s = {} THEN <<>> ELSE [i \in DOMAIN (CHOOSE x \in s : TRUE).parts |->
                                  (CHOOSE x \in s : TRUE).parts[i].data]

\* servePlaylist: a query with _HLS_msn, or a first request, which waits for
\* segment 0 only when nothing is complete.
Request(c, q) ==
  /\ conn[c].pc = "idle" /\ Unlocked
  /\ conn' = [conn EXCEPT ![c] = [NoRequest EXCEPT
       !.msn = q.msn, !.part = q.part,
       !.pc = IF q.msn < 0 /\ comp # <<>> THEN "build" ELSE "check"]]
  /\ UNCHANGED <<muxState, waiters, nIn, taken>>
Msn(c) == IF conn[c].msn < 0 THEN 0 ELSE conn[c].msn

\* One round of the loop of waitForPart, under mu.
Check(c) ==
  /\ conn[c].pc = "check" /\ Unlocked
  /\ conn' = [conn EXCEPT ![c].pc =
       IF PartAvailable(Msn(c), conn[c].part) THEN "build"
       ELSE IF terminating \/ conn[c].late \/ conn[c].gone THEN "failed"
       ELSE "add"]
  /\ UNCHANGED <<muxState, waiters, nIn, taken>>

\* cond.Wait: onto the list, then mu is released.
Add(c) == /\ conn[c].pc = "add"
          /\ conn' = [conn EXCEPT ![c].pc = "wait"] /\ waiters' = waiters \cup {c}
          /\ UNCHANGED <<muxState, nIn, taken>>

\* The timer of the deadline and the watcher of the context: both Broadcast
\* without mu, so that a request that is about to Wait is not woken.
Alert(c) == conn' = [Woken(waiters) EXCEPT ![c] = [@ EXCEPT !.late = TRUE]] /\ waiters' = {}
Timeout(c) == /\ conn[c].pc \in {"check", "add", "wait"} /\ ~conn[c].late
              /\ Alert(c)
              /\ UNCHANGED <<muxState, nIn, taken>>
Leave(c) == /\ conn[c].pc \in {"check", "add", "wait"} /\ ~conn[c].gone
            /\ conn' = [Woken(waiters) EXCEPT ![c] = [@ EXCEPT !.gone = TRUE]]
            /\ waiters' = {}
            /\ UNCHANGED <<muxState, nIn, taken>>

\* buildPlaylist takes mu again: what it lists may be newer.
BuildPlaylist(c) ==
  /\ conn[c].pc = "build" /\ Unlocked
  /\ conn' = [conn EXCEPT ![c] = [@ EXCEPT !.pc = "served",
       !.list = comp \o (IF curSeg.parts = <<>> THEN <<>> ELSE <<curSeg>>)]]
  /\ UNCHANGED <<muxState, waiters, nIn, taken>>

Step(c) == Check(c) \/ Add(c) \/ BuildPlaylist(c)
HlsNext == \/ \E video, key \in BOOLEAN : (key => video) /\ WritePacket(video, key)
           \/ WriteCodecChange \/ WriteTrailer \/ CloseMuxer
           \/ \E c \in Clients : \/ \E q \in Asks : Request(c, q)
                                 \/ Check(c) \/ Add(c) \/ BuildPlaylist(c)
                                 \/ Timeout(c) \/ Leave(c)

HlsSpec == HlsInit /\ [][HlsNext]_hlsVars

\* Every goroutine that can run does; the timer fires.  The camera may stop.
HlsFairness == \A c \in Clients : WF_hlsVars(Step(c)) /\ WF_hlsVars(Timeout(c))

-----------------------------------------------------------------------------
\* Where the packets of a part stand in the stream, the samples of the part in
\* progress, a segment with parts, the current segment; and what follows them.
Following(d)  == d[1].n + Len(d)
BufFrom       == Len(taken) - Len(buf) + 1
SegFrom(s)    == s.parts[1].data[1].n
SegTo(s)      == Following(s.parts[Len(s.parts)].data)
CurFrom       == IF curSeg.parts = <<>> THEN BufFrom ELSE SegFrom(curSeg)

\* Every packet from the first keyframe on is in exactly one part, in order: a
\* part is a piece of the stream, the next part continues it, in its segment or
\* the next, the segments are numbered without a gap, the first one begins at
\* the first packet, and the samples of the part in progress are the last ones.
PartsCoverStream ==
  /\ \A s \in Complete \cup {curSeg} : \A j \in DOMAIN s.parts :
       LET d == s.parts[j].data
       IN  /\ d # <<>> /\ \A i \in DOMAIN d : d[i] = taken[d[1].n + i - 1]
           /\ j > 1 => d[1].n = Following(s.parts[j - 1].data)
  /\ \A i \in DOMAIN comp :
       /\ comp[i].parts # <<>>
       /\ comp[i].seq + (Len(comp) - i + 1) = curSeg.seq
       /\ SegTo(comp[i]) = IF i < Len(comp) THEN SegFrom(comp[i + 1]) ELSE CurFrom
       /\ comp[i].seq = 0 => SegFrom(comp[i]) = 1
  /\ curSeg.seq = 0 => CurFrom = 1
  /\ curSeg.parts # <<>> => SegTo(curSeg) = BufFrom
  /\ \A i \in DOMAIN buf : buf[i] = taken[BufFrom + i - 1]

\* A client that joins at any segment can start decoding: every segment begins
\* with an independent part, codec changes included.
SegmentsStartAtKeyframe ==
  \A s \in Complete \cup {curSeg} : s.parts # <<>> => s.parts[1].indep

\* A reload answered with a playlist lists the part or segment it asked for or
\* later ones, although mu was released in between.
ReloadDelivers ==
  \A c \in Clients : conn[c].pc = "served" =>
    LET l == conn[c].list
    IN  /\ l # <<>>
        /\ \/ l[Len(l)].seq > Msn(c)
           \/ l[Len(l)].seq = Msn(c) /\ conn[c].part < Len(l[Len(l)].parts)

\* What a playlist lists can be fetched under its name, unchanged, until its
\* segment leaves the window.
ListedIsServed ==
  \A c \in Clients : conn[c].pc = "served" =>
    \A k \in DOMAIN conn[c].list : LET s == conn[c].list[k] IN
      s.seq + Len(comp) >= curSeg.seq =>
        \A i \in DOMAIN s.parts :
          /\ FindPart(s.seq, i - 1) = s.parts[i].data
          /\ s.seq < curSeg.seq =>
               i \in DOMAIN FindSegment(s.seq) /\ FindSegment(s.seq)[i] = s.parts[i].data

\* What a player is promised: every packet in one part and in order, segments
\* that can be started at, a playlist that has what was asked for, and parts and
\* segments that can be fetched while they are listed.
PlaylistServes ==
  PartsCoverStream /\ SegmentsStartAtKeyframe /\ ReloadDelivers /\ ListedIsServed

\* Close releases every request: none stays in waitForPart.
CloseReleases == \A c \in Clients : terminating /\ conn[c].pc \in {"check", "add", "wait"}
                                      ~> conn[c].pc \in {"served", "failed"}

\* "BlockingReloadTimeout is the maximum time the server waits on a blocking
\* playlist reload": a request whose deadline has passed is answered.
TimeoutAnswers == \A c \in Clients : conn[c].late ~> conn[c].pc \in {"served", "failed"}
=============================================================================
