--------------------------- MODULE PlaybackProofs ---------------------------
(***************************************************************************)
(* What a viewer is served.  Chain, for any recording and any number of    *)
(* demuxers and Closes: no segment file is lost sight of, DTS never goes   *)
(* back over a segment boundary, and the viewer knows the codecs of every  *)
(* packet.  LLHLS, for any window, part and segment length, packets and    *)
(* requests: the playlist delivers what was asked for and what it lists.   *)
(***************************************************************************)
EXTENDS Chain, LLHLS, TLAPS

Demuxers == [seg : 1 .. Len(Segs), pos : Nat, open : BOOLEAN]
Holding  == {"read", "install", "codecs", "seekCodecs", "seekKey"}
Empty    == {"idle", "next", "openAt"}

ChainTypes ==
  /\ dmx \in Seq(Demuxers) /\ cur \in 0 .. Len(dmx) /\ closing \subseteq 1 .. Len(dmx)
  /\ rd.pc \in Holding \cup Empty /\ rd.d \in 0 .. Len(dmx)
  /\ rd.pc \in Holding => rd.d # 0
  /\ rd.pc \in Empty => rd.d = 0
  /\ srcIdx \in Nat \ {0} /\ dtsOff \in Nat /\ lastEnd \in Nat

\* Why nothing open is lost: what ReadPacket reads is installed or being closed,
\* what it has finished with is closed before the next one is installed, and Seek
\* installs where nothing is.
Held ==
  /\ rd.pc \in {"read", "codecs"} => /\ cur \in {0, rd.d}
                                     /\ dmx[rd.d].open => rd.d \in {cur} \cup closing
  /\ rd.pc \in {"next", "install"} /\ cur # 0 => ~dmx[cur].open
  /\ rd.pc \in {"openAt", "seekCodecs", "seekKey"} => cur = 0

\* The demuxer the next packet comes from.
Playing == IF rd.pc = "idle" THEN cur ELSE IF rd.pc = "read" THEN rd.d ELSE 0

\* Why DTS does not go back: the offset of a segment that is new to the viewer
\* lies behind everything returned.
Placed ==
  out # <<>> =>
    /\ out.end \in Nat /\ out.end <= lastEnd
    /\ Playing \notin torn \cup {0, out.dmx} => out.end <= dtsOff

\* What the viewer has been told or will be told with the next packet.
Announced == IF pending = <<>> THEN view ELSE pending

\* Why the viewer knows the codecs: that is what the last GetCodecs said, and
\* what plays is the segment it was asked of.
Told ==
  /\ \E i \in 1 .. Len(Segs) : prevStreams = Segs[i].streams
  /\ prevStreams # <<>> => prevStreams = Announced
  /\ Playing \notin torn \cup {0} => prevStreams = SegOf(Playing).streams
  /\ rd.pc = "seekKey" => prevStreams = SegOf(rd.d).streams

ChainInv == ChainTypes /\ NothingOpenIsLost /\ Held /\ Placed /\ Told /\ ViewerKnowsCodecs
-----------------------------------------------------------------------------
\* For such a recording streamsChanged tells any two segments' streams apart.
LEMMA ChangedIsExact ==
  ASSUME Recording, NEW i \in 1 .. Len(Segs), NEW j \in 1 .. Len(Segs),
         ~StreamsChanged(Segs[i].streams, Segs[j].streams)
  PROVE  Segs[i].streams = Segs[j].streams
<1> DEFINE p == Segs[i].streams
           n == Segs[j].streams
<1>1. p \in Seq(StreamInfo) /\ n \in Seq(StreamInfo)
  <2>1. Segs[i] \in Segments /\ Segs[j] \in Segments
    BY SMTT(40) DEF Recording
  <2> QED BY <2>1, Zenon DEF Segments
<1>2. Len(p) = Len(n)
  BY Zenon DEF StreamsChanged
<1>3. ASSUME NEW k \in 1 .. Len(p) PROVE p[k] = n[k]
  <2>1. p[k] \in StreamInfo /\ n[k] \in StreamInfo
    BY <1>1, <1>2, SMTT(40)
  <2>2. /\ p[k].idx = n[k].idx /\ p[k].type = n[k].type
        /\ p[k].tag # n[k].tag => "none" \in {p[k].tag, n[k].tag}
        /\ p[k].dim # n[k].dim => "none" \in {p[k].dim, n[k].dim}
    BY Zenon DEF StreamsChanged
  <2>3. /\ p[k].tag = "none" <=> n[k].tag = "none"
        /\ p[k].dim = "none" <=> n[k].dim = "none"
    BY <1>2, <2>2, ZenonT(60) DEF Recording
  <2> HIDE DEF p, n
  <2>4. p[k].tag = n[k].tag /\ p[k].dim = n[k].dim
    BY <2>2, <2>3, Zenon
  <2> QED BY <2>1, <2>2, <2>4, SMTT(40) DEF StreamInfo
<1> HIDE DEF p, n
<1>4. p = n
  BY <1>1, <1>2, <1>3, SMTT(40)
<1> QED BY <1>4, Zenon DEF p, n

\* Closing a demuxer changes nothing else of it and no other.
LEMMA ShutKept ==
  ASSUME dmx \in Seq(Demuxers), NEW d \in 1 .. Len(dmx)
  PROVE  /\ Shut(d) \in Seq(Demuxers) /\ Len(Shut(d)) = Len(dmx) /\ ~Shut(d)[d].open
         /\ \A e \in 1 .. Len(dmx) : /\ Shut(d)[e].seg = dmx[e].seg
                                     /\ Shut(d)[e].open => dmx[e].open /\ e # d
<1> DEFINE new == [dmx[d] EXCEPT !.open = FALSE]
<1>1. dmx[d] \in Demuxers
  BY SMTT(40)
<1>2. new \in Demuxers /\ new.seg = dmx[d].seg /\ ~new.open
  BY <1>1, Zenon DEF Demuxers
<1>3. Shut(d) = [dmx EXCEPT ![d] = new]
  BY Zenon DEF Shut
<1> HIDE DEF new
<1>4. Shut(d) \in Seq(Demuxers) /\ Len(Shut(d)) = Len(dmx)
  BY <1>2, <1>3, SMTT(40)
<1> QED BY <1>2, <1>3, <1>4, SMTT(40)

\* A demuxer is opened: it is the last one, the others stay.
LEMMA OpenedKept ==
  ASSUME dmx \in Seq(Demuxers), NEW new \in Demuxers, dmx' = Append(dmx, new)
  PROVE  /\ dmx' \in Seq(Demuxers) /\ Len(dmx') = Len(dmx) + 1 /\ Len(dmx) \in Nat
         /\ \A e \in 1 .. Len(dmx) : dmx'[e] = dmx[e]
BY SMTT(40)

\* A demuxer moves on in its segment.
LEMMA MovedKept ==
  ASSUME dmx \in Seq(Demuxers), NEW d \in 1 .. Len(dmx), NEW k \in Nat,
         dmx' = [dmx EXCEPT ![d].pos = k]
  PROVE  /\ dmx' \in Seq(Demuxers) /\ Len(dmx') = Len(dmx)
         /\ \A e \in 1 .. Len(dmx) : dmx'[e].seg = dmx[e].seg /\ dmx'[e].open = dmx[e].open
<1> DEFINE new == [dmx[d] EXCEPT !.pos = k]
<1>1. dmx[d] \in Demuxers
  BY SMTT(40)
<1>2. new \in Demuxers /\ new.seg = dmx[d].seg /\ new.open = dmx[d].open
  BY <1>1, Zenon DEF Demuxers
<1>3. dmx' = [dmx EXCEPT ![d] = new]
  BY Zenon
<1> HIDE DEF new
<1>4. dmx' \in Seq(Demuxers) /\ Len(dmx') = Len(dmx)
  BY <1>2, <1>3, SMTT(40)
<1> QED BY <1>2, <1>3, <1>4, SMTT(40)

-----------------------------------------------------------------------------
(* The steps, one by one. *)

\* ReadPacket takes cur.
LEMMA ReadCallKeeps ==
  ASSUME Recording, ChainInv, ReadCall
  PROVE  ChainInv'
<1>1. /\ dmx' = dmx /\ dmx \in Seq(Demuxers)
      /\ \A e \in 1 .. Len(dmx) : SegOf(e)' = SegOf(e)
  BY Zenon DEF ReadCall, opened, ChainInv, ChainTypes, SegOf
<1>2. /\ rd.pc = "idle" /\ cur # 0
      /\ rd'.pc = "read" /\ rd'.d = cur
      /\ UNCHANGED <<cur, closing, srcIdx, dtsOff, lastEnd, prevStreams, pending, out, view, torn>>
  BY <1>1, Zenon DEF ReadCall, opened, stamps, hist, At, Idle
<1>3. ChainTypes'
  BY <1>1, <1>2, Zenon DEF ChainInv, ChainTypes, Holding, Empty, Recording
<1>4. NothingOpenIsLost'
  BY <1>1, <1>2, SMTT(40) DEF ChainInv, ChainTypes, NothingOpenIsLost, Held, Holding, Empty
<1>5. Held'
  BY <1>1, <1>2, Zenon DEF ChainInv, ChainTypes, NothingOpenIsLost, Held, Holding, Empty
<1>6. Placed'
  BY <1>1, <1>2, Zenon DEF ChainInv, ChainTypes, Placed, Playing, Held, Holding, Empty
<1>7. Told'
  BY <1>1, <1>2, SMTT(40) DEF ChainInv, ChainTypes, Told, Playing, Announced, Held, Holding, Empty
<1>8. ViewerKnowsCodecs'
  BY <1>1, <1>2, Zenon DEF ChainInv, ViewerKnowsCodecs
<1> QED BY <1>3, <1>4, <1>5, <1>6, <1>7, <1>8, Zenon DEF ChainInv

\* What ReadPacket reads from is a demuxer.
LEMMA ReadsDemuxer ==
  ASSUME ChainInv, rd.pc = "read"
  PROVE  rd.d \in 1 .. Len(dmx)
<1>1. rd.d \in 0 .. Len(dmx) /\ rd.d # 0
  BY Zenon DEF ChainInv, ChainTypes, Holding
<1>2. dmx \in Seq(Demuxers)
  BY Zenon DEF ChainInv, ChainTypes
<1> QED BY <1>1, <1>2, SMT

\* What ReadPacket returns: a packet of the demuxer in hand, moved by the offset.
LEMMA ReadOneStamps ==
  ASSUME Recording, ChainInv, ReadOne
  PROVE  /\ rd.pc = "read" /\ rd.d \in 1 .. Len(dmx) /\ SegOf(rd.d).streams # <<>>
         /\ out'.dmx = rd.d /\ out'.seg = dmx[rd.d].seg /\ out'.dts \in Nat /\ out'.end \in Nat
         /\ out'.dts >= dtsOff /\ out'.end >= out'.dts
<1> DEFINE p == SegOf(rd.d).pkts[dmx[rd.d].pos + 1]
<1>1. rd.pc = "read" /\ rd.d \in 1 .. Len(dmx)
  <2>1. rd.pc = "read"
    BY Zenon DEF ReadOne
  <2> QED BY <2>1, ReadsDemuxer, Zenon
<1>2. dmx[rd.d] \in Demuxers
  BY <1>1, SMTT(40) DEF ChainInv, ChainTypes
<1>3. dmx[rd.d].seg \in 1 .. Len(Segs) /\ dmx[rd.d].pos \in Nat
  BY <1>2, Zenon DEF Demuxers
<1>4. Segs[dmx[rd.d].seg] \in Segments
  BY <1>3, SMTT(40) DEF Recording
<1>5. SegOf(rd.d).pkts \in Seq(Packets)
  BY <1>4, Zenon DEF Segments, SegOf
<1>6. dmx[rd.d].pos < Len(SegOf(rd.d).pkts) /\ out' = Stamped(p, rd.d)
  BY Zenon DEF ReadOne
<1>7. p \in Packets /\ SegOf(rd.d).pkts # <<>>
  BY <1>3, <1>5, <1>6, SMTT(40)
<1>8. p.dts \in Nat /\ p.dur \in Nat /\ dtsOff \in Nat
  BY <1>7, Zenon DEF Packets, ChainInv, ChainTypes
<1>9. SegOf(rd.d).streams # <<>>
  BY <1>3, <1>7, Zenon DEF Recording, SegOf
<1> HIDE DEF p
<1> QED BY <1>1, <1>6, <1>8, <1>9, SMTT(40) DEF Stamped

\* ReadPacket returns a packet.
LEMMA ReadOneKeeps ==
  ASSUME Recording, ChainInv, ReadOne
  PROVE  ChainInv'
<1>1. /\ dmx' \in Seq(Demuxers) /\ Len(dmx') = Len(dmx) /\ rd.d \in 1 .. Len(dmx)
      /\ \A e \in 1 .. Len(dmx) : SegOf(e)' = SegOf(e) /\ dmx'[e].open = dmx[e].open
  <2>1. dmx \in Seq(Demuxers) /\ rd.d \in 1 .. Len(dmx)
    BY ReadOneStamps, Zenon DEF ChainInv, ChainTypes
  <2>2. dmx[rd.d] \in Demuxers
    BY <2>1, SMTT(40)
  <2>4. dmx[rd.d].pos + 1 \in Nat
    BY <2>2, SMTT(40) DEF Demuxers
  <2>3. dmx' = [dmx EXCEPT ![rd.d].pos = dmx[rd.d].pos + 1]
    BY Zenon DEF ReadOne
  <2> QED BY <2>1, <2>3, <2>4, MovedKept, Zenon DEF SegOf
<1>2. /\ rd.pc = "read" /\ dmx[rd.d].open /\ dmx[rd.d].pos < Len(SegOf(rd.d).pkts)
      /\ rd'.pc = "idle" /\ rd'.d = 0
      /\ pending' = <<>>
      /\ view' = Announced
      /\ out' = Stamped(SegOf(rd.d).pkts[dmx[rd.d].pos + 1], rd.d)
      /\ lastEnd' = IF out'.end > lastEnd THEN out'.end ELSE lastEnd
      /\ UNCHANGED <<cur, closing, srcIdx, dtsOff, prevStreams, torn>>
  BY <1>1, Zenon DEF ReadOne, opened, stamps, hist, At, Idle, Stamped, Announced
<1>3. /\ out'.dmx = rd.d /\ out'.seg = dmx[rd.d].seg /\ out'.dts \in Nat /\ out'.end \in Nat
      /\ out'.dts >= dtsOff /\ out'.end >= out'.dts /\ SegOf(rd.d).streams # <<>>
  BY ReadOneStamps, Zenon
<1>4. lastEnd' \in Nat /\ lastEnd' >= out'.end
  <2>1. lastEnd \in Nat
    BY Zenon DEF ChainInv, ChainTypes
  <2>2. out'.end \in Nat
    BY <1>3, Zenon
  <2>3. lastEnd' = IF out'.end > lastEnd THEN out'.end ELSE lastEnd
    BY <1>2, Zenon
  <2> QED BY <2>1, <2>2, <2>3, SMTT(40)
<1>5. ChainTypes'
  <2>1. rd'.pc = "idle" /\ rd'.d = 0 /\ UNCHANGED <<cur, closing, srcIdx, dtsOff>>
    BY <1>2, Zenon
  <2> QED BY <1>1, <1>4, <2>1, SMTT(40) DEF ChainInv, ChainTypes, Holding, Empty
<1>6. NothingOpenIsLost'
  BY <1>1, <1>2, Zenon DEF ChainInv, ChainTypes, NothingOpenIsLost, Held, Holding, Empty
<1>7. Held'
  BY <1>1, <1>2, Zenon DEF ChainInv, ChainTypes, NothingOpenIsLost, Held, Holding, Empty
<1>8. Placed'
  <2>1. Playing' \in {0, rd.d}
    BY <1>2, Zenon DEF ChainInv, Held, Playing
  <2> QED BY <1>3, <1>4, <2>1, Zenon DEF Placed
<1>9. Told'
  BY <1>1, <1>2, Zenon DEF ChainInv, ChainTypes, Told, Playing, Announced, Held, Holding, Empty
<1>10. ViewerKnowsCodecs'
  <2>1. CASE rd.d \in torn
    BY <1>2, <1>3, <2>1, Zenon DEF ViewerKnowsCodecs
  <2>2. CASE rd.d \notin torn
    <3>1. prevStreams = SegOf(rd.d).streams
      <4>1. Playing = rd.d /\ rd.d # 0
        BY <1>2, ReadOneStamps, Zenon DEF Playing, ChainInv, ChainTypes, Holding
      <4> QED BY <2>2, <4>1, Zenon DEF ChainInv, Told
    <3>2. view' = SegOf(rd.d).streams
      BY <1>2, <1>3, <3>1, Zenon DEF ChainInv, Told
    <3> QED BY <1>3, <3>2, Zenon DEF ViewerKnowsCodecs, SegOf
  <2> QED BY <2>1, <2>2, Zenon
<1> QED BY <1>3, <1>4, <1>5, <1>6, <1>7, <1>8, <1>9, <1>10, Zenon DEF ChainInv

\* A read fails.
LEMMA ReadErrorKeeps ==
  ASSUME Recording, ChainInv, ReadError
  PROVE  ChainInv'
<1>1. /\ dmx' = dmx /\ dmx \in Seq(Demuxers)
      /\ \A e \in 1 .. Len(dmx) : SegOf(e)' = SegOf(e)
  BY Zenon DEF ReadError, opened, ChainInv, ChainTypes, SegOf
<1>2. /\ rd.pc = "read"
      /\ rd'.pc = "idle" /\ rd'.d = 0
      /\ UNCHANGED <<cur, closing, srcIdx, dtsOff, lastEnd, prevStreams, pending, out, view, torn>>
  BY <1>1, Zenon DEF ReadError, opened, stamps, hist, At, Idle
<1>3. ChainTypes'
  BY <1>1, <1>2, SMTT(40) DEF ChainInv, ChainTypes, Holding, Empty, Recording
<1>4. NothingOpenIsLost'
  BY <1>1, <1>2, Zenon DEF ChainInv, ChainTypes, NothingOpenIsLost, Held, Holding, Empty
<1>5. Held'
  BY <1>1, <1>2, Zenon DEF ChainInv, ChainTypes, NothingOpenIsLost, Held, Holding, Empty
<1>6. Placed'
  BY <1>1, <1>2, Zenon DEF ChainInv, ChainTypes, Placed, Playing, Held, Holding, Empty
<1>7. Told'
  BY <1>1, <1>2, SMTT(40) DEF ChainInv, ChainTypes, Told, Playing, Announced, Held, Holding, Empty
<1>8. ViewerKnowsCodecs'
  BY <1>1, <1>2, Zenon DEF ChainInv, ViewerKnowsCodecs
<1> QED BY <1>3, <1>4, <1>5, <1>6, <1>7, <1>8, Zenon DEF ChainInv

\* A segment has been read to its end and is closed.
LEMMA ReadEndKeeps ==
  ASSUME Recording, ChainInv, ReadEnd
  PROVE  ChainInv'
<1>1. /\ dmx' \in Seq(Demuxers) /\ Len(dmx') = Len(dmx) /\ rd.d \in 1 .. Len(dmx)
      /\ ~dmx'[rd.d].open
      /\ \A e \in 1 .. Len(dmx) : SegOf(e)' = SegOf(e) /\ (dmx'[e].open => dmx[e].open /\ e # rd.d)
  <2>1. dmx \in Seq(Demuxers) /\ rd.d \in 1 .. Len(dmx) /\ dmx' = Shut(rd.d)
    BY SMTT(40) DEF ReadEnd, ChainInv, ChainTypes, Holding
  <2> QED BY <2>1, ShutKept, Zenon DEF SegOf
<1>2. /\ rd.pc = "read" /\ dmx[rd.d].open
      /\ rd'.pc = "next" /\ rd'.d = 0
      /\ UNCHANGED <<cur, closing, srcIdx, dtsOff, lastEnd, prevStreams, pending, out, view, torn>>
  BY <1>1, Zenon DEF ReadEnd, opened, stamps, hist, At, Idle
<1>3. ChainTypes'
  BY <1>1, <1>2, SMTT(40) DEF ChainInv, ChainTypes, Holding, Empty, Recording
<1>4. NothingOpenIsLost'
  BY <1>1, <1>2, Zenon DEF ChainInv, ChainTypes, NothingOpenIsLost, Held, Holding, Empty
<1>5. Held'
  BY <1>1, <1>2, Zenon DEF ChainInv, ChainTypes, NothingOpenIsLost, Held, Holding, Empty
<1>6. Placed'
  BY <1>1, <1>2, Zenon DEF ChainInv, ChainTypes, Placed, Playing, Held, Holding, Empty
<1>7. Told'
  BY <1>1, <1>2, Zenon DEF ChainInv, ChainTypes, Told, Playing, Announced, Held, Holding, Empty
<1>8. ViewerKnowsCodecs'
  BY <1>1, <1>2, Zenon DEF ChainInv, ViewerKnowsCodecs
<1> QED BY <1>3, <1>4, <1>5, <1>6, <1>7, <1>8, Zenon DEF ChainInv

\* There is no next segment, or it cannot be opened.
LEMMA NextFailsKeeps ==
  ASSUME Recording, ChainInv, NextFails
  PROVE  ChainInv'
<1>1. /\ dmx' = dmx /\ dmx \in Seq(Demuxers)
      /\ \A e \in 1 .. Len(dmx) : SegOf(e)' = SegOf(e)
  BY Zenon DEF NextFails, opened, ChainInv, ChainTypes, SegOf
<1>2. /\ rd.pc = "next"
      /\ rd'.pc = "idle" /\ rd'.d = 0
      /\ cur' = 0
      /\ srcIdx' \in {srcIdx, srcIdx + 1}
      /\ UNCHANGED <<closing, dtsOff, lastEnd, prevStreams, pending, out, view, torn>>
  BY <1>1, Zenon DEF NextFails, opened, stamps, hist, At, Idle
<1>3. ChainTypes'
  BY <1>1, <1>2, SMTT(40) DEF ChainInv, ChainTypes, Holding, Empty, Recording
<1>4. NothingOpenIsLost'
  BY <1>1, <1>2, Zenon DEF ChainInv, ChainTypes, NothingOpenIsLost, Held, Holding, Empty
<1>5. Held'
  BY <1>1, <1>2, Zenon DEF ChainInv, ChainTypes, NothingOpenIsLost, Held, Holding, Empty
<1>6. Placed'
  BY <1>1, <1>2, Zenon DEF ChainInv, ChainTypes, Placed, Playing, Held, Holding, Empty
<1>7. Told'
  BY <1>1, <1>2, Zenon DEF ChainInv, ChainTypes, Told, Playing, Announced, Held, Holding, Empty
<1>8. ViewerKnowsCodecs'
  BY <1>1, <1>2, Zenon DEF ChainInv, ViewerKnowsCodecs
<1> QED BY <1>3, <1>4, <1>5, <1>6, <1>7, <1>8, Zenon DEF ChainInv

\* The next segment is opened.
LEMMA NextOpensKeeps ==
  ASSUME Recording, ChainInv, NextOpens
  PROVE  ChainInv'
<1>1. /\ dmx' \in Seq(Demuxers) /\ Len(dmx') = Len(dmx) + 1 /\ Len(dmx) \in Nat
      /\ \A e \in 1 .. Len(dmx) : dmx'[e] = dmx[e] /\ SegOf(e)' = SegOf(e)
  <2> DEFINE new == [seg |-> srcIdx, pos |-> 0, open |-> TRUE]
  <2>1. dmx \in Seq(Demuxers) /\ srcIdx \in 1 .. Len(Segs) /\ dmx' = Append(dmx, new)
    BY SMTT(40) DEF NextOpens, ChainInv, ChainTypes, Recording
  <2>2. new \in Demuxers
    BY <2>1, Zenon DEF Demuxers
  <2> HIDE DEF new
  <2>3. /\ dmx' \in Seq(Demuxers) /\ Len(dmx') = Len(dmx) + 1 /\ Len(dmx) \in Nat
        /\ \A e \in 1 .. Len(dmx) : dmx'[e] = dmx[e]
    BY <2>1, <2>2, OpenedKept, Zenon
  <2> QED BY <2>3, Zenon DEF SegOf
<1>2. /\ rd.pc = "next" /\ srcIdx <= Len(Segs)
      /\ rd'.pc = "install" /\ rd'.d = Len(dmx) + 1
      /\ srcIdx' = srcIdx + 1
      /\ UNCHANGED <<cur, closing, dtsOff, lastEnd, prevStreams, pending, out, view, torn>>
  BY <1>1, Zenon DEF NextOpens, opened, stamps, hist, At, Idle
<1>3. ChainTypes'
  BY <1>1, <1>2, SMTT(40) DEF ChainInv, ChainTypes, Holding, Empty, Recording
<1>4. NothingOpenIsLost'
  BY <1>1, <1>2, SMTT(40) DEF ChainInv, ChainTypes, NothingOpenIsLost, Held, Holding, Empty
<1>5. Held'
  BY <1>1, <1>2, SMTT(40) DEF ChainInv, ChainTypes, NothingOpenIsLost, Held, Holding, Empty
<1>6. Placed'
  BY <1>1, <1>2, Zenon DEF ChainInv, ChainTypes, Placed, Playing, Held, Holding, Empty
<1>7. Told'
  BY <1>1, <1>2, Zenon DEF ChainInv, ChainTypes, Told, Playing, Announced, Held, Holding, Empty
<1>8. ViewerKnowsCodecs'
  BY <1>1, <1>2, Zenon DEF ChainInv, ViewerKnowsCodecs
<1> QED BY <1>3, <1>4, <1>5, <1>6, <1>7, <1>8, Zenon DEF ChainInv

\* The next segment is installed, whether or not Close came meanwhile.
LEMMA InstallKeeps ==
  ASSUME Recording, ChainInv, Install
  PROVE  ChainInv'
<1>1. /\ dmx' = dmx /\ dmx \in Seq(Demuxers)
      /\ \A e \in 1 .. Len(dmx) : SegOf(e)' = SegOf(e)
  BY Zenon DEF Install, opened, ChainInv, ChainTypes, SegOf
<1>2. /\ rd.pc = "install"
      /\ rd'.pc = "codecs" /\ rd'.d = rd.d
      /\ cur' = rd.d
      /\ UNCHANGED <<closing, srcIdx, dtsOff, lastEnd, prevStreams, pending, out, view, torn>>
  BY <1>1, Zenon DEF Install, opened, stamps, hist, At, Idle
<1>3. ChainTypes'
  BY <1>1, <1>2, Zenon DEF ChainInv, ChainTypes, Holding, Empty, Recording
<1>4. NothingOpenIsLost'
  BY <1>1, <1>2, SMTT(40) DEF ChainInv, ChainTypes, NothingOpenIsLost, Held, Holding, Empty
<1>5. Held'
  BY <1>1, <1>2, Zenon DEF ChainInv, ChainTypes, NothingOpenIsLost, Held, Holding, Empty
<1>6. Placed'
  BY <1>1, <1>2, Zenon DEF ChainInv, ChainTypes, Placed, Playing, Held, Holding, Empty
<1>7. Told'
  BY <1>1, <1>2, Zenon DEF ChainInv, ChainTypes, Told, Playing, Announced, Held, Holding, Empty
<1>8. ViewerKnowsCodecs'
  BY <1>1, <1>2, Zenon DEF ChainInv, ViewerKnowsCodecs
<1> QED BY <1>3, <1>4, <1>5, <1>6, <1>7, <1>8, Zenon DEF ChainInv

\* The new segment's codecs are known and its packets moved behind what was returned.
LEMMA CodecsKeeps ==
  ASSUME Recording, ChainInv, Codecs
  PROVE  ChainInv'
<1>1. /\ dmx' = dmx /\ dmx \in Seq(Demuxers)
      /\ \A e \in 1 .. Len(dmx) : SegOf(e)' = SegOf(e)
  BY Zenon DEF Codecs, opened, ChainInv, ChainTypes, SegOf
<1>2. /\ rd.pc = "codecs" /\ dmx[rd.d].open
      /\ rd'.pc = "read" /\ rd'.d = rd.d
      /\ pending' = Announce(SegOf(rd.d).streams)
      /\ prevStreams' = SegOf(rd.d).streams
      /\ dtsOff' = lastEnd
      /\ UNCHANGED <<cur, closing, srcIdx, lastEnd, out, view, torn>>
  BY <1>1, Zenon DEF Codecs, opened, stamps, hist, At, Idle, Rebase
<1>3. ChainTypes'
  BY <1>1, <1>2, Zenon DEF ChainInv, ChainTypes, Holding, Empty, Recording
<1>4. NothingOpenIsLost'
  BY <1>1, <1>2, Zenon DEF ChainInv, ChainTypes, NothingOpenIsLost, Held, Holding, Empty
<1>5. Held'
  BY <1>1, <1>2, Zenon DEF ChainInv, ChainTypes, NothingOpenIsLost, Held, Holding, Empty
<1>6. Placed'
  BY <1>1, <1>2, Zenon DEF ChainInv, ChainTypes, Placed, Playing, Held, Holding, Empty
<1>7. Told'
  <2> DEFINE c == SegOf(rd.d).streams
  <2>1. PICK i \in 1 .. Len(Segs) : prevStreams = Segs[i].streams
    BY Zenon DEF ChainInv, Told
  <2>2. rd.d \in 1 .. Len(dmx) /\ dmx[rd.d].seg \in 1 .. Len(Segs) /\ c = Segs[dmx[rd.d].seg].streams
    <3>1. rd.d \in 1 .. Len(dmx)
      BY <1>2, SMTT(40) DEF ChainInv, ChainTypes, Holding
    <3>2. dmx[rd.d] \in Demuxers
      BY <1>1, <3>1, SMTT(40)
    <3> QED BY <3>1, <3>2, Zenon DEF Demuxers, SegOf
  <2>3. ~StreamsChanged(prevStreams, c) => prevStreams = c
    BY <2>1, <2>2, ChangedIsExact, Zenon
  <2>4. prevStreams' = c /\ SegOf(rd.d)' = SegOf(rd.d)
    BY <1>1, <1>2, <2>2, Zenon
  <2>5. prevStreams' # <<>> => prevStreams' = Announced'
    <3>1. CASE StreamsChanged(prevStreams, c)
      BY <1>2, <2>4, <3>1, Zenon DEF Announce, Announced
    <3>2. CASE ~StreamsChanged(prevStreams, c)
      <4>1. prevStreams = c /\ pending' = pending /\ view' = view
        BY <1>2, <2>3, <3>2, Zenon DEF Announce
      <4> QED BY <2>4, <4>1, Zenon DEF Announced, ChainInv, Told
    <3> QED BY <3>1, <3>2, Zenon
  <2>6. \E j \in 1 .. Len(Segs) : prevStreams' = Segs[j].streams
    BY <2>2, <2>4, Zenon
  <2>7. Playing' \in {0, rd'.d} /\ rd'.d = rd.d
    BY <1>2, Zenon DEF Playing
  <2> QED BY <2>4, <2>5, <2>6, <2>7, Zenon DEF Told
<1>8. ViewerKnowsCodecs'
  BY <1>1, <1>2, Zenon DEF ChainInv, ViewerKnowsCodecs
<1> QED BY <1>3, <1>4, <1>5, <1>6, <1>7, <1>8, Zenon DEF ChainInv

\* The new segment's codecs cannot be read; it stays installed.
LEMMA CodecsFailKeeps ==
  ASSUME Recording, ChainInv, CodecsFail
  PROVE  ChainInv'
<1>1. /\ dmx' = dmx /\ dmx \in Seq(Demuxers)
      /\ \A e \in 1 .. Len(dmx) : SegOf(e)' = SegOf(e)
  BY Zenon DEF CodecsFail, opened, ChainInv, ChainTypes, SegOf
<1>2. /\ rd.pc = "codecs"
      /\ rd'.pc = "idle" /\ rd'.d = 0
      /\ torn' = torn \cup {rd.d}
      /\ UNCHANGED <<cur, closing, srcIdx, dtsOff, lastEnd, prevStreams, pending, out, view>>
  BY <1>1, Zenon DEF CodecsFail, opened, stamps, hist, At, Idle
<1>3. ChainTypes'
  BY <1>1, <1>2, SMTT(40) DEF ChainInv, ChainTypes, Holding, Empty, Recording
<1>4. NothingOpenIsLost'
  BY <1>1, <1>2, Zenon DEF ChainInv, ChainTypes, NothingOpenIsLost, Held, Holding, Empty
<1>5. Held'
  BY <1>1, <1>2, Zenon DEF ChainInv, ChainTypes, NothingOpenIsLost, Held, Holding, Empty
<1>6. Placed'
  BY <1>1, <1>2, Zenon DEF ChainInv, ChainTypes, Placed, Playing, Held, Holding, Empty
<1>7. Told'
  BY <1>1, <1>2, Zenon DEF ChainInv, ChainTypes, Told, Playing, Announced, Held, Holding, Empty
<1>8. ViewerKnowsCodecs'
  BY <1>1, <1>2, Zenon DEF ChainInv, ViewerKnowsCodecs
<1> QED BY <1>3, <1>4, <1>5, <1>6, <1>7, <1>8, Zenon DEF ChainInv

\* Seek closes what is installed.
LEMMA SeekCallKeeps ==
  ASSUME Recording, ChainInv, SeekCall
  PROVE  ChainInv'
<1>1. /\ dmx' \in Seq(Demuxers) /\ Len(dmx') = Len(dmx)
      /\ \A e \in 1 .. Len(dmx) : /\ SegOf(e)' = SegOf(e)
                                  /\ dmx'[e].open => dmx[e].open /\ e # cur
  <2>1. dmx \in Seq(Demuxers) /\ cur \in 0 .. Len(dmx)
    BY Zenon DEF ChainInv, ChainTypes
  <2>2. CASE cur = 0
    BY <2>1, <2>2, SMTT(40) DEF SeekCall, SegOf
  <2>3. CASE cur # 0
    <3>1. cur \in 1 .. Len(dmx) /\ dmx' = Shut(cur)
      BY <2>1, <2>3, SMTT(40) DEF SeekCall
    <3> QED BY <2>1, <3>1, ShutKept, Zenon DEF SegOf
  <2> QED BY <2>2, <2>3, Zenon
<1>2. /\ rd.pc = "idle"
      /\ rd'.pc = "openAt" /\ rd'.d = 0
      /\ cur' = 0
      /\ UNCHANGED <<closing, srcIdx, dtsOff, lastEnd, prevStreams, pending, out, view, torn>>
  BY <1>1, Zenon DEF SeekCall, opened, stamps, hist, At, Idle
<1>3. ChainTypes'
  BY <1>1, <1>2, Zenon DEF ChainInv, ChainTypes, Holding, Empty, Recording
<1>4. NothingOpenIsLost'
  BY <1>1, <1>2, Zenon DEF ChainInv, ChainTypes, NothingOpenIsLost, Held, Holding, Empty
<1>5. Held'
  BY <1>1, <1>2, Zenon DEF ChainInv, ChainTypes, NothingOpenIsLost, Held, Holding, Empty
<1>6. Placed'
  BY <1>1, <1>2, Zenon DEF ChainInv, ChainTypes, Placed, Playing, Held, Holding, Empty
<1>7. Told'
  BY <1>1, <1>2, Zenon DEF ChainInv, ChainTypes, Told, Playing, Announced, Held, Holding, Empty
<1>8. ViewerKnowsCodecs'
  BY <1>1, <1>2, Zenon DEF ChainInv, ViewerKnowsCodecs
<1> QED BY <1>3, <1>4, <1>5, <1>6, <1>7, <1>8, Zenon DEF ChainInv

\* No segment covers the time sought.
LEMMA OpenAtFailsKeeps ==
  ASSUME Recording, ChainInv, OpenAtFails
  PROVE  ChainInv'
<1>1. /\ dmx' = dmx /\ dmx \in Seq(Demuxers)
      /\ \A e \in 1 .. Len(dmx) : SegOf(e)' = SegOf(e)
  BY Zenon DEF OpenAtFails, opened, ChainInv, ChainTypes, SegOf
<1>2. /\ rd.pc = "openAt"
      /\ rd'.pc = "idle" /\ rd'.d = 0
      /\ UNCHANGED <<cur, closing, srcIdx, dtsOff, lastEnd, prevStreams, pending, out, view, torn>>
  BY <1>1, Zenon DEF OpenAtFails, opened, stamps, hist, At, Idle
<1>3. ChainTypes'
  BY <1>1, <1>2, Zenon DEF ChainInv, ChainTypes, Holding, Empty, Recording
<1>4. NothingOpenIsLost'
  BY <1>1, <1>2, Zenon DEF ChainInv, ChainTypes, NothingOpenIsLost, Held, Holding, Empty
<1>5. Held'
  BY <1>1, <1>2, Zenon DEF ChainInv, ChainTypes, NothingOpenIsLost, Held, Holding, Empty
<1>6. Placed'
  BY <1>1, <1>2, Zenon DEF ChainInv, ChainTypes, Placed, Playing, Held, Holding, Empty
<1>7. Told'
  BY <1>1, <1>2, Zenon DEF ChainInv, ChainTypes, Told, Playing, Announced, Held, Holding, Empty
<1>8. ViewerKnowsCodecs'
  BY <1>1, <1>2, Zenon DEF ChainInv, ViewerKnowsCodecs
<1> QED BY <1>3, <1>4, <1>5, <1>6, <1>7, <1>8, Zenon DEF ChainInv

\* The codecs of the segment sought are known.
LEMMA SeekCodecsKeeps ==
  ASSUME Recording, ChainInv, SeekCodecs
  PROVE  ChainInv'
<1>1. /\ dmx' = dmx /\ dmx \in Seq(Demuxers)
      /\ \A e \in 1 .. Len(dmx) : SegOf(e)' = SegOf(e)
  BY Zenon DEF SeekCodecs, opened, ChainInv, ChainTypes, SegOf
<1>2. /\ rd.pc = "seekCodecs"
      /\ rd'.pc = "seekKey" /\ rd'.d = rd.d
      /\ pending' = Announce(SegOf(rd.d).streams)
      /\ prevStreams' = SegOf(rd.d).streams
      /\ UNCHANGED <<cur, closing, srcIdx, dtsOff, lastEnd, out, view, torn>>
  BY <1>1, Zenon DEF SeekCodecs, opened, stamps, hist, At, Idle
<1>3. ChainTypes'
  BY <1>1, <1>2, Zenon DEF ChainInv, ChainTypes, Holding, Empty, Recording
<1>4. NothingOpenIsLost'
  BY <1>1, <1>2, Zenon DEF ChainInv, ChainTypes, NothingOpenIsLost, Held, Holding, Empty
<1>5. Held'
  BY <1>1, <1>2, Zenon DEF ChainInv, ChainTypes, NothingOpenIsLost, Held, Holding, Empty
<1>6. Placed'
  BY <1>1, <1>2, Zenon DEF ChainInv, ChainTypes, Placed, Playing, Held, Holding, Empty
<1>7. Told'
  <2> DEFINE c == SegOf(rd.d).streams
  <2>1. PICK i \in 1 .. Len(Segs) : prevStreams = Segs[i].streams
    BY Zenon DEF ChainInv, Told
  <2>2. rd.d \in 1 .. Len(dmx) /\ dmx[rd.d].seg \in 1 .. Len(Segs) /\ c = Segs[dmx[rd.d].seg].streams
    <3>1. rd.d \in 1 .. Len(dmx)
      BY <1>2, SMTT(40) DEF ChainInv, ChainTypes, Holding
    <3>2. dmx[rd.d] \in Demuxers
      BY <1>1, <3>1, SMTT(40)
    <3> QED BY <3>1, <3>2, Zenon DEF Demuxers, SegOf
  <2>3. ~StreamsChanged(prevStreams, c) => prevStreams = c
    BY <2>1, <2>2, ChangedIsExact, Zenon
  <2>4. prevStreams' = c /\ SegOf(rd.d)' = SegOf(rd.d)
    BY <1>1, <1>2, <2>2, Zenon
  <2>5. prevStreams' # <<>> => prevStreams' = Announced'
    <3>1. CASE StreamsChanged(prevStreams, c)
      BY <1>2, <2>4, <3>1, Zenon DEF Announce, Announced
    <3>2. CASE ~StreamsChanged(prevStreams, c)
      <4>1. prevStreams = c /\ pending' = pending /\ view' = view
        BY <1>2, <2>3, <3>2, Zenon DEF Announce
      <4> QED BY <2>4, <4>1, Zenon DEF Announced, ChainInv, Told
    <3> QED BY <3>1, <3>2, Zenon
  <2>6. \E j \in 1 .. Len(Segs) : prevStreams' = Segs[j].streams
    BY <2>2, <2>4, Zenon
  <2>7. Playing' \in {0, rd'.d} /\ rd'.d = rd.d
    BY <1>2, Zenon DEF Playing
  <2> QED BY <2>4, <2>5, <2>6, <2>7, Zenon DEF Told
<1>8. ViewerKnowsCodecs'
  BY <1>1, <1>2, Zenon DEF ChainInv, ViewerKnowsCodecs
<1> QED BY <1>3, <1>4, <1>5, <1>6, <1>7, <1>8, Zenon DEF ChainInv

\* Seek fails and closes what it opened.
LEMMA SeekFailsKeeps ==
  ASSUME Recording, ChainInv, SeekFails
  PROVE  ChainInv'
<1>1. /\ dmx' \in Seq(Demuxers) /\ Len(dmx') = Len(dmx) /\ rd.d \in 1 .. Len(dmx)
      /\ ~dmx'[rd.d].open
      /\ \A e \in 1 .. Len(dmx) : SegOf(e)' = SegOf(e) /\ (dmx'[e].open => dmx[e].open /\ e # rd.d)
  <2>1. dmx \in Seq(Demuxers) /\ rd.d \in 1 .. Len(dmx) /\ dmx' = Shut(rd.d)
    BY SMTT(40) DEF SeekFails, ChainInv, ChainTypes, Holding
  <2> QED BY <2>1, ShutKept, Zenon DEF SegOf
<1>2. /\ rd.pc \in {"seekCodecs", "seekKey"}
      /\ rd'.pc = "idle" /\ rd'.d = 0
      /\ UNCHANGED <<cur, closing, srcIdx, dtsOff, lastEnd, prevStreams, pending, out, view, torn>>
  BY <1>1, Zenon DEF SeekFails, opened, stamps, hist, At, Idle
<1>3. ChainTypes'
  BY <1>1, <1>2, SMTT(40) DEF ChainInv, ChainTypes, Holding, Empty, Recording
<1>4. NothingOpenIsLost'
  BY <1>1, <1>2, Zenon DEF ChainInv, ChainTypes, NothingOpenIsLost, Held, Holding, Empty
<1>5. Held'
  BY <1>1, <1>2, Zenon DEF ChainInv, ChainTypes, NothingOpenIsLost, Held, Holding, Empty
<1>6. Placed'
  BY <1>1, <1>2, Zenon DEF ChainInv, ChainTypes, Placed, Playing, Held, Holding, Empty
<1>7. Told'
  BY <1>1, <1>2, Zenon DEF ChainInv, ChainTypes, Told, Playing, Announced, Held, Holding, Empty
<1>8. ViewerKnowsCodecs'
  BY <1>1, <1>2, Zenon DEF ChainInv, ViewerKnowsCodecs
<1> QED BY <1>3, <1>4, <1>5, <1>6, <1>7, <1>8, Zenon DEF ChainInv

\* The segment sought is opened.
LEMMA OpenAtKeeps ==
  ASSUME Recording, ChainInv, NEW s \in 1 .. Len(Segs), OpenAt(s)
  PROVE  ChainInv'
<1>1. /\ dmx' \in Seq(Demuxers) /\ Len(dmx') = Len(dmx) + 1 /\ Len(dmx) \in Nat
      /\ \A e \in 1 .. Len(dmx) : dmx'[e] = dmx[e] /\ SegOf(e)' = SegOf(e)
  <2> DEFINE new == [seg |-> s, pos |-> 0, open |-> TRUE]
  <2>1. dmx \in Seq(Demuxers) /\ s \in 1 .. Len(Segs) /\ dmx' = Append(dmx, new)
    BY Zenon DEF OpenAt, ChainInv, ChainTypes, Recording
  <2>2. new \in Demuxers
    BY <2>1, Zenon DEF Demuxers
  <2> HIDE DEF new
  <2>3. /\ dmx' \in Seq(Demuxers) /\ Len(dmx') = Len(dmx) + 1 /\ Len(dmx) \in Nat
        /\ \A e \in 1 .. Len(dmx) : dmx'[e] = dmx[e]
    BY <2>1, <2>2, OpenedKept, Zenon
  <2> QED BY <2>3, Zenon DEF SegOf
<1>2. /\ rd.pc = "openAt"
      /\ rd'.pc = "seekCodecs" /\ rd'.d = Len(dmx) + 1
      /\ srcIdx' = s + 1
      /\ UNCHANGED <<cur, closing, dtsOff, lastEnd, prevStreams, pending, out, view, torn>>
  BY <1>1, Zenon DEF OpenAt, opened, stamps, hist, At, Idle
<1>3. ChainTypes'
  BY <1>1, <1>2, SMTT(40) DEF ChainInv, ChainTypes, Holding, Empty, Recording
<1>4. NothingOpenIsLost'
  BY <1>1, <1>2, SMTT(40) DEF ChainInv, ChainTypes, NothingOpenIsLost, Held, Holding, Empty
<1>5. Held'
  BY <1>1, <1>2, Zenon DEF ChainInv, ChainTypes, NothingOpenIsLost, Held, Holding, Empty
<1>6. Placed'
  BY <1>1, <1>2, Zenon DEF ChainInv, ChainTypes, Placed, Playing, Held, Holding, Empty
<1>7. Told'
  BY <1>1, <1>2, Zenon DEF ChainInv, ChainTypes, Told, Playing, Announced, Held, Holding, Empty
<1>8. ViewerKnowsCodecs'
  BY <1>1, <1>2, Zenon DEF ChainInv, ViewerKnowsCodecs
<1> QED BY <1>3, <1>4, <1>5, <1>6, <1>7, <1>8, Zenon DEF ChainInv

\* The segment sought is installed and the timeline starts afresh.
LEMMA SeekDoneKeeps ==
  ASSUME Recording, ChainInv, NEW k \in Nat, SeekDone(k)
  PROVE  ChainInv'
<1>1. /\ dmx' \in Seq(Demuxers) /\ Len(dmx') = Len(dmx) /\ rd.d \in 1 .. Len(dmx)
      /\ \A e \in 1 .. Len(dmx) : SegOf(e)' = SegOf(e) /\ dmx'[e].open = dmx[e].open
  <2>1. dmx \in Seq(Demuxers) /\ rd.d \in 1 .. Len(dmx)
    BY SMTT(40) DEF SeekDone, ChainInv, ChainTypes, Holding
  <2>2. dmx[rd.d] \in Demuxers
    BY <2>1, SMTT(40)
  <2>4. k \in Nat
    BY <2>2, Zenon DEF Demuxers
  <2>3. dmx' = [dmx EXCEPT ![rd.d].pos = k]
    BY Zenon DEF SeekDone
  <2> QED BY <2>1, <2>3, <2>4, MovedKept, Zenon DEF SegOf
<1>2. /\ rd.pc = "seekKey"
      /\ rd'.pc = "idle" /\ rd'.d = 0
      /\ cur' = rd.d
      /\ dtsOff' = 0
      /\ lastEnd' = 0
      /\ out' = <<>>
      /\ UNCHANGED <<closing, srcIdx, prevStreams, pending, view, torn>>
  BY <1>1, Zenon DEF SeekDone, opened, stamps, hist, At, Idle
<1>3. ChainTypes'
  BY <1>1, <1>2, SMTT(40) DEF ChainInv, ChainTypes, Holding, Empty, Recording
<1>4. NothingOpenIsLost'
  BY <1>1, <1>2, Zenon DEF ChainInv, ChainTypes, NothingOpenIsLost, Held, Holding, Empty
<1>5. Held'
  BY <1>1, <1>2, Zenon DEF ChainInv, ChainTypes, NothingOpenIsLost, Held, Holding, Empty
<1>6. Placed'
  BY <1>1, <1>2, Zenon DEF ChainInv, ChainTypes, Placed, Playing, Held, Holding, Empty
<1>7. Told'
  BY <1>1, <1>2, Zenon DEF ChainInv, ChainTypes, Told, Playing, Announced, Held, Holding, Empty
<1>8. ViewerKnowsCodecs'
  BY <1>1, <1>2, Zenon DEF ChainInv, ViewerKnowsCodecs
<1> QED BY <1>3, <1>4, <1>5, <1>6, <1>7, <1>8, Zenon DEF ChainInv

\* Close takes cur.
LEMMA CloseTakeKeeps ==
  ASSUME Recording, ChainInv, CloseTake
  PROVE  ChainInv'
<1>1. /\ dmx' = dmx /\ dmx \in Seq(Demuxers)
      /\ \A e \in 1 .. Len(dmx) : SegOf(e)' = SegOf(e)
  BY Zenon DEF CloseTake, opened, ChainInv, ChainTypes, SegOf
<1>2. /\ rd' = rd
      /\ closing' = closing \cup ({cur} \ {0})
      /\ cur' = 0
      /\ UNCHANGED <<srcIdx, dtsOff, lastEnd, prevStreams, pending, out, view, torn>>
  BY <1>1, Zenon DEF CloseTake, opened, stamps, hist, At, Idle
<1>3. ChainTypes'
  BY <1>1, <1>2, SMTT(40) DEF ChainInv, ChainTypes, Holding, Empty, Recording
<1>4. NothingOpenIsLost'
  BY <1>1, <1>2, Zenon DEF ChainInv, ChainTypes, NothingOpenIsLost, Held, Holding, Empty
<1>5. Held'
  BY <1>1, <1>2, Zenon DEF ChainInv, ChainTypes, NothingOpenIsLost, Held, Holding, Empty
<1>6. Placed'
  BY <1>1, <1>2, Zenon DEF ChainInv, ChainTypes, Placed, Playing, Held, Holding, Empty
<1>7. Told'
  BY <1>1, <1>2, SMTT(40) DEF ChainInv, ChainTypes, Told, Playing, Announced, Held, Holding, Empty
<1>8. ViewerKnowsCodecs'
  BY <1>1, <1>2, Zenon DEF ChainInv, ViewerKnowsCodecs
<1> QED BY <1>3, <1>4, <1>5, <1>6, <1>7, <1>8, Zenon DEF ChainInv

\* Close closes what it took.
LEMMA CloseCurKeeps ==
  ASSUME Recording, ChainInv, NEW d \in 1 .. Len(dmx), CloseCur(d)
  PROVE  ChainInv'
<1>1. /\ dmx' \in Seq(Demuxers) /\ Len(dmx') = Len(dmx) /\ d \in 1 .. Len(dmx)
      /\ ~dmx'[d].open
      /\ \A e \in 1 .. Len(dmx) : SegOf(e)' = SegOf(e) /\ (dmx'[e].open => dmx[e].open /\ e # d)
  <2>1. dmx \in Seq(Demuxers) /\ d \in 1 .. Len(dmx) /\ dmx' = Shut(d)
    BY Zenon DEF CloseCur, ChainInv, ChainTypes, Holding
  <2> QED BY <2>1, ShutKept, Zenon DEF SegOf
<1>2. /\ d \in closing
      /\ rd' = rd
      /\ closing' = closing \ {d}
      /\ UNCHANGED <<cur, srcIdx, dtsOff, lastEnd, prevStreams, pending, out, view, torn>>
  BY <1>1, Zenon DEF CloseCur, opened, stamps, hist, At, Idle
<1>3. ChainTypes'
  BY <1>1, <1>2, Zenon DEF ChainInv, ChainTypes, Holding, Empty, Recording
<1>4. NothingOpenIsLost'
  BY <1>1, <1>2, Zenon DEF ChainInv, ChainTypes, NothingOpenIsLost, Held, Holding, Empty
<1>5. Held'
  BY <1>1, <1>2, SMTT(40) DEF ChainInv, ChainTypes, NothingOpenIsLost, Held, Holding, Empty
<1>6. Placed'
  BY <1>1, <1>2, Zenon DEF ChainInv, ChainTypes, Placed, Playing, Held, Holding, Empty
<1>7. Told'
  BY <1>1, <1>2, SMTT(40) DEF ChainInv, ChainTypes, Told, Playing, Announced, Held, Holding, Empty
<1>8. ViewerKnowsCodecs'
  BY <1>1, <1>2, Zenon DEF ChainInv, ViewerKnowsCodecs
<1> QED BY <1>3, <1>4, <1>5, <1>6, <1>7, <1>8, Zenon DEF ChainInv

\* Nothing changes.
LEMMA StutterKeeps ==
  ASSUME Recording, ChainInv, UNCHANGED chainVars
  PROVE  ChainInv'
<1>1. /\ dmx' = dmx /\ dmx \in Seq(Demuxers)
      /\ \A e \in 1 .. Len(dmx) : SegOf(e)' = SegOf(e)
  BY Zenon DEF chainVars, opened, ChainInv, ChainTypes, SegOf
<1>2. /\ rd' = rd
      /\ UNCHANGED <<cur, closing, srcIdx, dtsOff, lastEnd, prevStreams, pending, out, view, torn>>
  BY <1>1, Zenon DEF chainVars
<1>3. ChainTypes'
  BY <1>1, <1>2, Zenon DEF ChainInv, ChainTypes, Holding, Empty, Recording
<1>4. NothingOpenIsLost'
  BY <1>1, <1>2, Zenon DEF ChainInv, ChainTypes, NothingOpenIsLost, Held, Holding, Empty
<1>5. Held'
  BY <1>1, <1>2, Zenon DEF ChainInv, ChainTypes, NothingOpenIsLost, Held, Holding, Empty
<1>6. Placed'
  BY <1>1, <1>2, Zenon DEF ChainInv, ChainTypes, Placed, Playing, Held, Holding, Empty
<1>7. Told'
  BY <1>1, <1>2, SMTT(40) DEF ChainInv, ChainTypes, Told, Playing, Announced, Held, Holding, Empty
<1>8. ViewerKnowsCodecs'
  BY <1>1, <1>2, Zenon DEF ChainInv, ViewerKnowsCodecs
<1> QED BY <1>3, <1>4, <1>5, <1>6, <1>7, <1>8, Zenon DEF ChainInv

-----------------------------------------------------------------------------
(* The theorems. *)

\* A new ChainingDemuxer, its first GetCodecs done, satisfies the invariant.
LEMMA ChainInit ==
  ASSUME Recording, Init
  PROVE  ChainInv
<1> DEFINE new == [seg |-> 1, pos |-> 0, open |-> TRUE]
<1>1. Len(Segs) \in Nat /\ 1 \in 1 .. Len(Segs)
  BY SMTT(40) DEF Recording
<1>2. new \in Demuxers /\ new.seg = 1
  BY <1>1, Zenon DEF Demuxers
<1>3. dmx = <<new>>
  BY Zenon DEF Init
<1> HIDE DEF new
<1>4. dmx \in Seq(Demuxers) /\ Len(dmx) = 1 /\ dmx[1].seg = 1
  BY <1>2, <1>3, SMTT(40)
<1>5. /\ cur = 1 /\ srcIdx = 2 /\ dtsOff = 0 /\ lastEnd = 0 /\ pending = <<>>
      /\ prevStreams = Segs[1].streams /\ view = prevStreams
      /\ rd.pc = "idle" /\ rd.d = 0 /\ closing = {} /\ out = <<>>
  BY Zenon DEF Init, Idle
<1>6. ChainTypes
  BY <1>4, <1>5, SMTT(40) DEF ChainTypes, Holding, Empty
<1>7. NothingOpenIsLost /\ Held
  BY <1>4, <1>5, SMTT(40) DEF NothingOpenIsLost, Held
<1>8. Placed /\ ViewerKnowsCodecs
  BY <1>5, Zenon DEF Placed, ViewerKnowsCodecs
<1>9. Told
  BY <1>1, <1>4, <1>5, Zenon DEF Told, Announced, Playing, SegOf
<1> QED BY <1>6, <1>7, <1>8, <1>9, Zenon DEF ChainInv

\* Every step keeps the invariant.
LEMMA ChainStep ==
  ASSUME Recording, ChainInv, [Next]_chainVars
  PROVE  ChainInv'
<1>1. CASE Read
  BY <1>1, ReadCallKeeps, ReadOneKeeps, ReadErrorKeeps, ReadEndKeeps, NextFailsKeeps, Zenon,
     NextOpensKeeps, InstallKeeps, CodecsKeeps, CodecsFailKeeps DEF Read
<1>2. CASE Seek
  <2>1. ASSUME NEW k \in 0 .. Len(SegOf(rd.d).pkts), SeekDone(k) PROVE ChainInv'
    <3>1. k \in Nat
      BY SMTT(40)
    <3> QED BY <2>1, <3>1, SeekDoneKeeps, Zenon
  <2>2. ASSUME NEW s \in 1 .. Len(Segs), OpenAt(s) PROVE ChainInv'
    BY <2>2, OpenAtKeeps, Zenon
  <2> QED BY <1>2, <2>1, <2>2, SeekCallKeeps, OpenAtFailsKeeps, SeekCodecsKeeps, Zenon,
             SeekFailsKeeps DEF Seek
<1>3. CASE Close
  <2>1. ASSUME NEW d \in closing, CloseCur(d) PROVE ChainInv'
    <3>1. d \in 1 .. Len(dmx)
      BY <2>1, Zenon DEF ChainInv, ChainTypes
    <3> QED BY <2>1, <3>1, CloseCurKeeps, Zenon
  <2> QED BY <1>3, <2>1, CloseTakeKeeps, Zenon DEF Close
<1>4. CASE UNCHANGED chainVars
  BY <1>4, StutterKeeps, Zenon
<1> QED BY <1>1, <1>2, <1>3, <1>4, Zenon DEF Next

\* A packet of another segment starts behind what was returned: only ReadOne
\* returns one, and Placed tells where its segment's timeline lies.
LEMMA NextOverlapsNothing ==
  ASSUME Recording, ChainInv, [Next]_chainVars, out # <<>>, out' \notin {<<>>, out},
         out'.dmx \notin torn \cup {out.dmx}
  PROVE  out'.dts >= out.end
<1>1. ReadOne
  BY Zenon DEF Next, Read, Seek, Close, ReadCall, ReadError, ReadEnd, NextFails, NextOpens,
         Install, Codecs, CodecsFail, SeekCall, OpenAt, OpenAtFails, SeekCodecs, SeekFails,
         SeekDone, CloseTake, CloseCur, hist, chainVars
<1>2. /\ out'.dmx = rd.d /\ rd.d \in 1 .. Len(dmx) /\ rd.pc = "read"
      /\ out'.dts \in Nat /\ out'.dts >= dtsOff
  BY <1>1, ReadOneStamps, Zenon
<1>3. out.end \in Nat /\ out.end <= dtsOff /\ dtsOff \in Nat
  BY <1>2, SMTT(40) DEF ChainInv, ChainTypes, Placed, Playing
<1> QED BY <1>2, <1>3, SMTT(40)

\* In every behaviour, every segment file that is open is installed or in the
\* hands of the call that will install or close it, however Close interleaves
\* with ReadPacket and Seek and whichever of them fails.
THEOREM NothingLost == Spec => []NothingOpenIsLost
<1>1. Init => ChainInv
  BY ChainInit, RecordingAssumption, Zenon
<1>2. ChainInv /\ [Next]_chainVars => ChainInv'
  BY ChainStep, RecordingAssumption, Zenon
<1>3. ChainInv => NothingOpenIsLost
  BY Zenon DEF ChainInv
<1> QED BY <1>1, <1>2, <1>3, PTL DEF Spec

\* A chain of segments is one stream: in every behaviour a packet of a new
\* segment starts where the ones returned before ended, and the viewer knows
\* the codecs of every packet of a segment whose GetCodecs did not fail.
THEOREM OneStream == Spec => ChainIsOneStream
<1>1. Init => ChainInv
  BY ChainInit, RecordingAssumption, Zenon
<1>2. ChainInv /\ [Next]_chainVars => ChainInv'
  BY ChainStep, RecordingAssumption, Zenon
<1>3. ChainInv => ViewerKnowsCodecs
  BY Zenon DEF ChainInv
<1>4. ChainInv /\ [Next]_chainVars =>
        [ (out # <<>> /\ out' \notin {<<>>, out} /\ out'.dmx \notin torn \cup {out.dmx})
            => out'.dts >= out.end ]_chainVars
  BY NextOverlapsNothing, RecordingAssumption, Zenon
<1>5. Spec => []ViewerKnowsCodecs
  BY <1>1, <1>2, <1>3, PTL DEF Spec
<1>6. Spec => NoOverlap
  BY <1>1, <1>2, <1>4, PTL DEF Spec, NoOverlap
<1> QED BY <1>5, <1>6, Zenon DEF ChainIsOneStream

-----------------------------------------------------------------------------
\* The packets, parts and segments, and the requests.
Frames   == [n : Nat, video : BOOLEAN, key : BOOLEAN]
Parts    == [indep : BOOLEAN, dur : Nat, init : Nat, data : Seq(Frames)]
PlaySegs == [seq : Nat, dur : Nat, parts : Seq(Parts)]
Requests == [pc : {"idle", "check", "add", "wait", "build", "served", "failed"},
             msn : Int, part : Int, late : BOOLEAN, gone : BOOLEAN, list : Seq(PlaySegs)]

HlsTypes ==
  /\ partDur \in Nat /\ init \in Nat /\ maxDur \in Nat
  /\ seenKey \in BOOLEAN /\ trailer \in BOOLEAN /\ terminating \in BOOLEAN
  /\ conn \in [Clients -> Requests] /\ waiters \subseteq Clients

\* d is a piece of the stream t; parts that are pieces and continue each other.
Piece(d, t) == /\ d # <<>> /\ d[1].n \in Nat \ {0} /\ Following(d) <= Len(t) + 1
               /\ \A i \in 1 .. Len(d) : d[i] = t[d[1].n + i - 1]
Pieces(ps, t) == \A j \in 1 .. Len(ps) :
                   /\ Piece(ps[j].data, t)
                   /\ j > 1 => ps[j].data[1].n = Following(ps[j - 1].data)

\* The complete segments cs, the current one now and the samples b hold the end
\* of the stream t.
Rest(now, b, t) == IF now.parts = <<>> THEN Len(t) - Len(b) + 1 ELSE SegFrom(now)
Holds(s, t) == s.parts # <<>> /\ Pieces(s.parts, t) /\ (s.seq = 0 => SegFrom(s) = 1)
Window(cs, now, b, t) ==
  /\ cs \in Seq(PlaySegs) /\ now \in PlaySegs /\ b \in Seq(Frames) /\ t \in Seq(Frames)
  /\ \A i \in 1 .. Len(cs) :
       /\ Holds(cs[i], t) /\ cs[i].seq + (Len(cs) - i + 1) = now.seq
       /\ SegTo(cs[i]) = IF i < Len(cs) THEN SegFrom(cs[i + 1]) ELSE Rest(now, b, t)
  /\ now.parts # <<>> => Holds(now, t) /\ SegTo(now) = Len(t) - Len(b) + 1
  /\ now.seq = 0 => Rest(now, b, t) = 1
  /\ Len(b) <= Len(t) /\ \A i \in 1 .. Len(b) : b[i] = t[Len(t) - Len(b) + i]
  /\ \A k \in 1 .. Len(t) : t[k].n = k

\* Segments begin with a keyframe; the next one will.
Starts(cs, now) == /\ \A i \in 1 .. Len(cs) : cs[i].parts[1].indep
                   /\ now.parts # <<>> => now.parts[1].indep
KeyNext ==
  /\ ~seenKey => buf = <<>> /\ curSeg.parts = <<>>
  /\ seenKey /\ ~trailer /\ curSeg.parts = <<>> => buf # <<>> /\ buf[1].video /\ buf[1].key
  /\ trailer => buf = <<>>

\* Segment m has part p, or a later segment is there.
Avail(cs, now, m, p) ==
  \/ \E i \in 1 .. Len(cs) : cs[i].seq > m \/ (cs[i].seq = m /\ p < Len(cs[i].parts))
  \/ now.seq = m /\ p >= 0 /\ p < Len(now.parts)
Delivered(l, m, p) == /\ l # <<>>
                      /\ \/ l[Len(l)].seq > m
                         \/ l[Len(l)].seq = m /\ p < Len(l[Len(l)].parts)
\* What was listed and is in the window has only grown.
Grew(s, x) == /\ x.seq = s.seq /\ Len(s.parts) <= Len(x.parts)
              /\ \A j \in 1 .. Len(s.parts) : x.parts[j] = s.parts[j]
Listed(l, cs, now) == \A k \in 1 .. Len(l) :
  l[k].seq + Len(cs) >= now.seq => Grew(l[k], now) \/ \E i \in 1 .. Len(cs) : Grew(l[k], cs[i])
Answers(cs, now) == \A c \in Clients :
  /\ conn[c].msn < 0 => conn[c].part = -1
  /\ conn[c].pc = "build" => Avail(cs, now, Msn(c), conn[c].part)
  /\ conn[c].pc = "served" => /\ Delivered(conn[c].list, Msn(c), conn[c].part)
                              /\ Listed(conn[c].list, cs, now)
Waiters == \A c \in waiters : conn[c].pc = "wait"

HlsInv == /\ HlsTypes /\ Window(comp, curSeg, buf, taken) /\ Starts(comp, curSeg) /\ KeyNext
          /\ Answers(comp, curSeg) /\ Waiters

-----------------------------------------------------------------------------
\* A sequence with one element more, an empty one.
LEMMA OneMore ==
  ASSUME NEW S, NEW s \in Seq(S), NEW x \in S
  PROVE  /\ Append(s, x) \in Seq(S) /\ Len(Append(s, x)) = Len(s) + 1 /\ Len(s) \in Nat
         /\ \A i \in 1 .. Len(s) : Append(s, x)[i] = s[i]
         /\ Append(s, x)[Len(s) + 1] = x /\ Append(s, x) # <<>>
OBVIOUS

\* A sequence's length, domain and elements.
LEMMA NoElement ==
  ASSUME NEW S, NEW s \in Seq(S)
  PROVE  /\ Len(s) \in Nat /\ (s = <<>> <=> Len(s) = 0) /\ DOMAIN s = 1 .. Len(s)
         /\ \A i \in 1 .. Len(s) : s[i] \in S
OBVIOUS

\* What a segment and a part consist of.
LEMMA SegmentParts ==
  ASSUME NEW s \in PlaySegs
  PROVE  /\ s.seq \in Nat /\ s.dur \in Nat /\ s.parts \in Seq(Parts) /\ Len(s.parts) \in Nat
         /\ \A j \in 1 .. Len(s.parts) : s.parts[j] \in Parts /\ s.parts[j].data \in Seq(Frames)
<1>1. s.seq \in Nat /\ s.dur \in Nat /\ s.parts \in Seq(Parts)
  BY Zenon DEF PlaySegs
<1>2. Len(s.parts) \in Nat /\ \A j \in 1 .. Len(s.parts) : s.parts[j] \in Parts
  BY <1>1, NoElement, Zenon
<1>3. \A q \in Parts : q.data \in Seq(Frames)
  BY Zenon DEF Parts
<1> QED BY <1>1, <1>2, <1>3, Zenon

\* A piece of a stream is one of the longer stream.
LEMMA PieceStays ==
  ASSUME NEW t \in Seq(Frames), NEW p \in Frames, NEW d \in Seq(Frames), Piece(d, t)
  PROVE  Piece(d, Append(t, p))
<1>1. /\ Len(Append(t, p)) = Len(t) + 1 /\ Len(t) \in Nat /\ Len(d) \in Nat
      /\ \A i \in 1 .. Len(t) : Append(t, p)[i] = t[i]
  BY OneMore, NoElement
<1>2. d # <<>> /\ d[1].n \in Nat \ {0} /\ d[1].n + Len(d) <= Len(t) + 1
      /\ \A i \in 1 .. Len(d) : d[i] = t[d[1].n + i - 1]
  BY Zenon DEF Piece, Following
<1>3. d[1].n + Len(d) <= Len(Append(t, p)) + 1
  BY <1>1, <1>2, SMT
<1>4. ASSUME NEW i \in 1 .. Len(d) PROVE d[i] = Append(t, p)[d[1].n + i - 1]
  <2>1. d[1].n + i - 1 \in 1 .. Len(t)
    BY <1>1, <1>2, SMT
  <2> QED BY <1>1, <1>2, <2>1, Zenon
<1> QED BY <1>2, <1>3, <1>4, Zenon DEF Piece, Following

\* A segment of the stream is one of the longer stream.
LEMMA HoldsStays ==
  ASSUME NEW t \in Seq(Frames), NEW p \in Frames, NEW s \in PlaySegs, Holds(s, t)
  PROVE  Holds(s, Append(t, p))
BY SegmentParts, PieceStays, Zenon DEF Holds, Pieces

\* A packet is accepted.
LEMMA PacketTaken ==
  ASSUME NEW cs, NEW now, NEW b, NEW t, Window(cs, now, b, t), NEW p \in Frames, p.n = Len(t) + 1
  PROVE  Window(cs, now, Append(b, p), Append(t, p))
<1> DEFINE bb == Append(b, p)
           tt == Append(t, p)
<1>1. cs \in Seq(PlaySegs) /\ now \in PlaySegs /\ b \in Seq(Frames) /\ t \in Seq(Frames)
      /\ Len(b) <= Len(t) /\ (\A i \in 1 .. Len(b) : b[i] = t[Len(t) - Len(b) + i])
      /\ (\A k \in 1 .. Len(t) : t[k].n = k)
  BY Zenon DEF Window
<1>2. /\ bb \in Seq(Frames) /\ Len(bb) = Len(b) + 1 /\ Len(b) \in Nat
      /\ \A i \in 1 .. Len(b) : bb[i] = b[i]
      /\ bb[Len(b) + 1] = p
  BY <1>1, OneMore
<1>3. /\ tt \in Seq(Frames) /\ Len(tt) = Len(t) + 1 /\ Len(t) \in Nat
      /\ \A i \in 1 .. Len(t) : tt[i] = t[i]
      /\ tt[Len(t) + 1] = p
  BY <1>1, OneMore
<1>4. Holds(now, t) => Holds(now, tt)
  BY <1>1, HoldsStays, Zenon
<1>5. \A i \in 1 .. Len(cs) : Holds(cs[i], tt)
  BY <1>1, NoElement, HoldsStays, Zenon DEF Window
<1> HIDE DEF bb, tt
<1>6. Len(tt) - Len(bb) + 1 = Len(t) - Len(b) + 1 /\ Len(bb) <= Len(tt)
  BY <1>1, <1>2, <1>3, SMT
<1>7. Rest(now, bb, tt) = Rest(now, b, t)
  BY <1>6, Zenon DEF Rest
<1>8. ASSUME NEW i \in 1 .. Len(bb) PROVE bb[i] = tt[Len(tt) - Len(bb) + i]
  <2>1. CASE i \in 1 .. Len(b)
    <3>1. Len(tt) - Len(bb) + i = Len(t) - Len(b) + i /\ Len(t) - Len(b) + i \in 1 .. Len(t)
      BY <1>1, <1>2, <1>3, <2>1, SMT
    <3> QED BY <1>1, <1>2, <1>3, <2>1, <3>1, Zenon
  <2>2. CASE i = Len(b) + 1
    <3>1. Len(tt) - Len(bb) + i = Len(t) + 1
      BY <1>2, <1>3, <2>2, SMT
    <3> QED BY <1>2, <1>3, <2>2, <3>1, Zenon
  <2> QED BY <1>2, <2>1, <2>2, SMT
<1>9. ASSUME NEW k \in 1 .. Len(tt) PROVE tt[k].n = k
  <2>1. k \in 1 .. Len(t) \/ k = Len(t) + 1
    BY <1>3, SMT
  <2> QED BY <1>1, <1>3, <2>1, Zenon
<1> QED BY <1>1, <1>2, <1>3, <1>4, <1>5, <1>6, <1>7, <1>8, <1>9, Zenon DEF Window, bb, tt

\* The samples in progress become a part of the current segment.
LEMMA PartAdded ==
  ASSUME NEW cs, NEW now, NEW b, NEW t, Window(cs, now, b, t), b # <<>>,
         NEW q \in Parts, q.data = b,
         NEW grown \in PlaySegs, grown.seq = now.seq, grown.parts = Append(now.parts, q)
  PROVE  Window(cs, grown, <<>>, t)
<1> DEFINE f == Len(t) - Len(b) + 1
           n == Len(now.parts)
<1>1. cs \in Seq(PlaySegs) /\ now \in PlaySegs /\ b \in Seq(Frames) /\ t \in Seq(Frames)
      /\ Len(b) <= Len(t) /\ (\A i \in 1 .. Len(b) : b[i] = t[Len(t) - Len(b) + i])
      /\ (\A k \in 1 .. Len(t) : t[k].n = k)
      /\ (now.parts # <<>> => Holds(now, t) /\ SegTo(now) = Len(t) - Len(b) + 1)
      /\ (now.seq = 0 => Rest(now, b, t) = 1)
  BY Zenon DEF Window
<1>2. /\ Len(b) \in Nat /\ Len(b) # 0 /\ Len(t) \in Nat
      /\ now.parts \in Seq(Parts) /\ n \in Nat /\ (now.parts = <<>> <=> n = 0)
  BY <1>1, NoElement, SegmentParts, Zenon
<1>3. /\ Len(grown.parts) = n + 1
      /\ \A j \in 1 .. n : grown.parts[j] = now.parts[j]
      /\ grown.parts[n + 1] = q /\ grown.parts # <<>>
  BY <1>2, OneMore
<1>4. b[1] = t[f] /\ f \in 1 .. Len(t) /\ f \in Nat \ {0}
  <2>1. 1 \in 1 .. Len(b) /\ Len(t) - Len(b) + 1 \in 1 .. Len(t)
    BY <1>1, <1>2, SMT
  <2>2. 1 .. Len(t) \subseteq Nat \ {0}
    BY <1>2, SMT
  <2> QED BY <1>1, <2>1, <2>2, Zenon
<1>5. b[1].n = f
  BY <1>1, <1>4, Zenon
<1>6. Following(b) = Len(t) + 1
  <2>1. f + Len(b) = Len(t) + 1
    BY <1>2, SMT
  <2> QED BY <1>5, <2>1, Zenon DEF Following
<1>7. Piece(b, t)
  <2>1. ASSUME NEW i \in 1 .. Len(b) PROVE b[i] = t[b[1].n + i - 1]
    <3>1. f + i - 1 = Len(t) - Len(b) + i
      BY <1>2, SMT
    <3> QED BY <1>1, <1>5, <3>1, Zenon
  <2>2. Len(t) + 1 <= Len(t) + 1
    BY <1>2, SMT
  <2> QED BY <1>4, <1>5, <1>6, <2>1, <2>2, Zenon DEF Piece
<1> HIDE DEF f, n
<1>8. SegFrom(grown) = Rest(now, b, t)
  <2>1. CASE now.parts = <<>>
    <3>1. grown.parts[1] = q
      BY <1>2, <1>3, <2>1, SMT
    <3> QED BY <1>5, <2>1, <3>1, Zenon DEF SegFrom, Rest, f
  <2>2. CASE now.parts # <<>>
    <3>1. 1 \in 1 .. n
      BY <1>2, <2>2, SMT
    <3> QED BY <1>3, <2>2, <3>1, Zenon DEF SegFrom, Rest
  <2> QED BY <2>1, <2>2, Zenon
<1>9. Pieces(grown.parts, t)
  <2>1. ASSUME NEW j \in 1 .. Len(grown.parts)
        PROVE  /\ Piece(grown.parts[j].data, t)
               /\ j > 1 => grown.parts[j].data[1].n = Following(grown.parts[j - 1].data)
    <3>1. CASE j \in 1 .. n
      <4>1. now.parts # <<>> /\ (j > 1 => j - 1 \in 1 .. n)
        BY <1>2, <3>1, SMT
      <4>2. Pieces(now.parts, t)
        BY <1>1, <4>1, Zenon DEF Holds
      <4>3. /\ Piece(now.parts[j].data, t)
            /\ j > 1 => now.parts[j].data[1].n = Following(now.parts[j - 1].data)
        BY <3>1, <4>2, Zenon DEF Pieces, n
      <4> QED BY <1>3, <3>1, <4>1, <4>3, Zenon
    <3>2. CASE j = n + 1
      <4>1. j > 1 => n \in 1 .. n /\ j - 1 = n /\ now.parts # <<>>
        BY <1>2, <3>2, SMT
      <4>2. j > 1 => Following(now.parts[n].data) = f
        BY <1>1, <4>1, Zenon DEF SegTo, n, f
      <4> QED BY <1>3, <1>5, <1>7, <3>2, <4>1, <4>2, Zenon
    <3> QED BY <1>2, <1>3, <3>1, <3>2, SMTT(40)
  <2> QED BY <2>1, Zenon DEF Pieces
<1>10. Holds(grown, t)
  BY <1>1, <1>3, <1>8, <1>9, Zenon DEF Holds
<1>11. Len(<<>>) = 0 /\ Len(t) - 0 + 1 = Len(t) + 1 /\ 0 <= Len(t) /\ 1 .. 0 = {} /\ <<>> \in Seq(Frames)
  BY <1>2, SMT
<1>12. SegTo(grown) = Len(t) - Len(<<>>) + 1
  BY <1>3, <1>6, <1>11, Zenon DEF SegTo
<1>13. Rest(grown, <<>>, t) = Rest(now, b, t)
  BY <1>3, <1>8, Zenon DEF Rest
<1>14. \A i \in 1 .. Len(cs) :
         /\ Holds(cs[i], t) /\ cs[i].seq + (Len(cs) - i + 1) = grown.seq
         /\ SegTo(cs[i]) = IF i < Len(cs) THEN SegFrom(cs[i + 1]) ELSE Rest(grown, <<>>, t)
  BY <1>13, Zenon DEF Window
<1> QED BY <1>1, <1>3, <1>10, <1>11, <1>12, <1>13, <1>14, Zenon DEF Window

\* finaliseSegment moves the window by k segments and adds s.
Slid(cs, s, ds, k) ==
  /\ k \in 0 .. Len(cs) /\ ds \in Seq(PlaySegs) /\ Len(ds) = Len(cs) + 1 - k
  /\ \A i \in 1 .. Len(cs) + 1 - k : ds[i] = IF i + k <= Len(cs) THEN cs[i + k] ELSE s
\* finaliseSegment drops the oldest segments only, and keeps the new one.
LEMMA Trimmed ==
  ASSUME NEW cs \in Seq(PlaySegs), NEW s \in PlaySegs
  PROVE  \E k \in 0 .. Len(cs) : Slid(cs, s, Trim(Append(cs, s)), k)
<1> DEFINE a == Append(cs, s)
           m == Len(a) - SegBufferCount + 1
<1>1. /\ a \in Seq(PlaySegs) /\ Len(a) = Len(cs) + 1 /\ Len(cs) \in Nat
      /\ \A i \in 1 .. Len(cs) : a[i] = cs[i]
      /\ a[Len(cs) + 1] = s
  BY OneMore
<1>2. SegBufferCount \in Nat \ {0}
  BY HlsAssumption, Zenon DEF Configured
<1> HIDE DEF a
<1>3. \A i \in 1 .. Len(cs) + 1 : a[i] = IF i <= Len(cs) THEN cs[i] ELSE s
  BY <1>1, SMT
<1>4. CASE Len(a) > SegBufferCount
  <2>1. m \in 1 .. Len(a) /\ m - 1 \in 0 .. Len(cs) /\ Len(a) - m + 1 = Len(cs) + 1 - (m - 1)
    BY <1>1, <1>2, <1>4, SMT
  <2> DEFINE w == SubSeq(a, m, Len(a))
  <2>2. /\ w \in Seq(PlaySegs) /\ Len(w) = Len(a) - m + 1
        /\ \A i \in 1 .. Len(a) - m + 1 : w[i] = a[m + i - 1]
    BY <1>1, <2>1, SMTT(40)
  <2>3. Trim(a) = w
    BY <1>4, Zenon DEF Trim
  <2> HIDE DEF w, m
  <2>4. ASSUME NEW i \in 1 .. Len(cs) + 1 - (m - 1)
        PROVE  w[i] = IF i + (m - 1) <= Len(cs) THEN cs[i + (m - 1)] ELSE s
    <3>1. m + i - 1 = i + (m - 1) /\ i + (m - 1) \in 1 .. Len(cs) + 1 /\ i \in 1 .. Len(a) - m + 1
      BY <1>1, <2>1, SMT
    <3> QED BY <1>3, <2>2, <3>1, Zenon
  <2> QED BY <2>1, <2>2, <2>3, <2>4, Zenon DEF a, Slid
<1>5. CASE ~(Len(a) > SegBufferCount)
  <2>1. Trim(a) = a
    BY <1>5, Zenon DEF Trim
  <2>2. 0 \in 0 .. Len(cs) /\ Len(cs) + 1 = Len(cs) + 1 - 0 /\ \A i \in 1 .. Len(cs) + 1 : i + 0 = i
    BY <1>1, SMT
  <2> QED BY <1>1, <1>3, <2>1, <2>2, Zenon DEF a, Slid
<1> QED BY <1>4, <1>5, Zenon

\* A new segment has a number and nothing else.
LEMMA Fresh == ASSUME NEW n \in Nat PROVE /\ NewSeg(n) \in PlaySegs /\ NewSeg(n).seq = n
                                          /\ NewSeg(n).parts = <<>>
<1>1. 0 \in Nat /\ <<>> \in Seq(Parts)
  BY SMT
<1> QED BY <1>1, Zenon DEF NewSeg, PlaySegs

\* The current segment is complete: the window still holds the end of the stream.
LEMMA SegmentClosed ==
  ASSUME NEW cs, NEW now, NEW b, NEW t, Window(cs, now, b, t), now.parts # <<>>,
         NEW ds, NEW k, Slid(cs, now, ds, k)
  PROVE  Window(ds, NewSeg(now.seq + 1), b, t)
<1> DEFINE new == NewSeg(now.seq + 1)
<1>1. cs \in Seq(PlaySegs) /\ now \in PlaySegs /\ b \in Seq(Frames) /\ t \in Seq(Frames)
      /\ Holds(now, t) /\ SegTo(now) = Len(t) - Len(b) + 1
      /\ (now.seq = 0 => Rest(now, b, t) = 1)
      /\ Rest(now, b, t) = SegFrom(now)
  BY Zenon DEF Window, Rest
<1>2. /\ k \in 0 .. Len(cs) /\ ds \in Seq(PlaySegs) /\ Len(ds) = Len(cs) + 1 - k
      /\ \A i \in 1 .. Len(cs) + 1 - k : ds[i] = IF i + k <= Len(cs) THEN cs[i + k] ELSE now
  BY Zenon DEF Slid
<1>3. Len(cs) \in Nat /\ k \in Nat /\ Len(ds) \in Nat /\ now.seq \in Nat /\ k <= Len(cs)
  <2>1. Len(cs) \in Nat /\ Len(ds) \in Nat /\ now.seq \in Nat
    BY <1>1, <1>2, NoElement, SegmentParts, Zenon
  <2> QED BY <1>2, <2>1, SMT
<1>4. new \in PlaySegs /\ new.seq = now.seq + 1 /\ new.parts = <<>>
  <2>1. now.seq + 1 \in Nat
    BY <1>3, SMT
  <2> QED BY <2>1, Fresh, Zenon
<1> HIDE DEF new
<1>5. Rest(new, b, t) = SegTo(now)
  BY <1>1, <1>4, Zenon DEF Rest
<1>6. new.seq # 0
  BY <1>3, <1>4, SMT
<1>7. ASSUME NEW i \in 1 .. Len(ds)
      PROVE  /\ Holds(ds[i], t) /\ ds[i].seq + (Len(ds) - i + 1) = new.seq
             /\ SegTo(ds[i]) = IF i < Len(ds) THEN SegFrom(ds[i + 1]) ELSE Rest(new, b, t)
  <2>1. i \in 1 .. Len(cs) + 1 - k
    BY <1>2, Zenon
  <2>2. CASE i + k <= Len(cs)
    <3>1. i + k \in 1 .. Len(cs) /\ i < Len(ds) /\ i + 1 \in 1 .. Len(cs) + 1 - k
          /\ (i + 1) + k = (i + k) + 1 /\ ((i + k) < Len(cs) <=> (i + 1) + k <= Len(cs))
      BY <1>2, <1>3, <2>1, <2>2, SMTT(40)
    <3>2. /\ Holds(cs[i + k], t) /\ cs[i + k].seq + (Len(cs) - (i + k) + 1) = now.seq
          /\ SegTo(cs[i + k]) = IF i + k < Len(cs) THEN SegFrom(cs[(i + k) + 1]) ELSE SegFrom(now)
      BY <1>1, <3>1, Zenon DEF Window
    <3>3. ds[i] = cs[i + k] /\ ds[i + 1] = IF i + k < Len(cs) THEN cs[(i + k) + 1] ELSE now
      BY <1>2, <2>1, <2>2, <3>1, Zenon
    <3>4. cs[i + k].seq \in Nat
      BY <1>1, <3>1, NoElement, SegmentParts, Zenon
    <3>5. cs[i + k].seq + (Len(ds) - i + 1) = now.seq + 1
      <4>1. cs[i + k].seq + (Len(cs) - (i + k) + 1) = now.seq /\ Len(ds) = Len(cs) + 1 - k
        BY <1>2, <3>2, Zenon
      <4>2. i \in Nat
        BY <1>3, SMT
      <4>3. ASSUME NEW x \in Nat, NEW y \in Nat, x + (Len(cs) - (i + k) + 1) = y, NEW d \in Nat,
                   d = Len(cs) + 1 - k
            PROVE  x + (d - i + 1) = y + 1
        BY <1>3, <4>2, <4>3, SMT
      <4> QED BY <1>3, <3>4, <4>1, <4>3, Zenon
    <3> QED BY <1>4, <3>1, <3>2, <3>3, <3>5, Zenon
  <2>3. CASE ~(i + k <= Len(cs))
    <3>1. ds[i] = now
      BY <1>2, <2>1, <2>3, Zenon
    <3>2. ~(i < Len(ds)) /\ now.seq + (Len(ds) - i + 1) = now.seq + 1
      BY <1>2, <1>3, <2>1, <2>3, SMTT(40)
    <3> QED BY <1>1, <1>4, <1>5, <3>1, <3>2, Zenon
  <2> QED BY <2>2, <2>3, Zenon
<1> QED BY <1>1, <1>2, <1>4, <1>5, <1>6, <1>7, Zenon DEF Window, new

\* Segments still begin with independent parts.
LEMMA StartsStay ==
  ASSUME NEW cs, NEW now, NEW ds, NEW k, Slid(cs, now, ds, k), Starts(cs, now), now.parts # <<>>,
         NEW n \in Nat, Len(cs) \in Nat
  PROVE  Starts(ds, NewSeg(n))
<1>1. ASSUME NEW i \in 1 .. Len(ds) PROVE ds[i].parts[1].indep
  <2>1. i \in 1 .. Len(cs) + 1 - k /\ ds[i] = IF i + k <= Len(cs) THEN cs[i + k] ELSE now
    BY Zenon DEF Slid
  <2>2. k \in 0 .. Len(cs)
    BY Zenon DEF Slid
  <2>3. i + k <= Len(cs) => i + k \in 1 .. Len(cs)
    BY <2>1, <2>2, SMT
  <2> QED BY <2>1, <2>3, Zenon DEF Starts
<1> QED BY <1>1, Fresh, Zenon DEF Starts

\* What is available stays so when a part is added, and when the window moves.
LEMMA AvailGrows ==
  ASSUME NEW cs, NEW now \in PlaySegs, NEW grown \in PlaySegs, NEW m \in Int, NEW p \in Int,
         Grew(now, grown), Avail(cs, now, m, p)
  PROVE  Avail(cs, grown, m, p)
<1>1. Len(now.parts) \in Nat /\ Len(grown.parts) \in Nat /\ grown.seq = now.seq
      /\ Len(now.parts) <= Len(grown.parts)
  BY SegmentParts, Zenon DEF Grew
<1>2. p < Len(now.parts) => p < Len(grown.parts)
  BY <1>1, SMT
<1> QED BY <1>1, <1>2, Zenon DEF Avail

\* What is available stays so when the current segment is completed.
LEMMA AvailSlides ==
  ASSUME NEW cs, NEW now, NEW b, NEW t, Window(cs, now, b, t), now.parts # <<>>,
         NEW ds, NEW k, Slid(cs, now, ds, k), NEW m \in Int, NEW p \in Int, Avail(cs, now, m, p),
         NEW new
  PROVE  Avail(ds, new, m, p)
<1>1. cs \in Seq(PlaySegs) /\ now \in PlaySegs /\ \A i \in 1 .. Len(cs) : cs[i].seq + (Len(cs) - i + 1) = now.seq
  BY Zenon DEF Window
<1>2. /\ k \in 0 .. Len(cs) /\ Len(ds) = Len(cs) + 1 - k
      /\ \A i \in 1 .. Len(cs) + 1 - k : ds[i] = IF i + k <= Len(cs) THEN cs[i + k] ELSE now
  BY Zenon DEF Slid
<1>3. Len(cs) \in Nat /\ k \in Nat /\ k <= Len(cs) /\ now.seq \in Nat
  <2>1. Len(cs) \in Nat /\ now.seq \in Nat
    BY <1>1, NoElement, SegmentParts, Zenon
  <2> QED BY <1>2, <2>1, SMT
<1>4. Len(ds) \in 1 .. Len(cs) + 1 - k /\ Len(ds) \in 1 .. Len(ds) /\ ~(Len(ds) + k <= Len(cs))
  BY <1>2, <1>3, SMT
<1>5. ds[Len(ds)] = now
  BY <1>2, <1>4, Zenon
<1>6. CASE now.seq = m /\ p >= 0 /\ p < Len(now.parts)
  BY <1>4, <1>5, <1>6, Zenon DEF Avail
<1>7. ASSUME NEW i \in 1 .. Len(cs), cs[i].seq > m \/ (cs[i].seq = m /\ p < Len(cs[i].parts))
      PROVE  Avail(ds, new, m, p)
  <2>1. cs[i].seq \in Nat /\ cs[i].seq + (Len(cs) - i + 1) = now.seq
    BY <1>1, NoElement, SegmentParts, Zenon
  <2>2. now.seq > m
    BY <1>3, <1>7, <2>1, SMTT(40)
  <2> QED BY <1>4, <1>5, <2>2, Zenon DEF Avail
<1> QED BY <1>6, <1>7, Zenon DEF Avail

\* So does what was listed.
LEMMA ListedGrows ==
  ASSUME NEW cs, NEW now \in PlaySegs, NEW grown \in PlaySegs, Grew(now, grown),
         NEW l \in Seq(PlaySegs), Listed(l, cs, now)
  PROVE  Listed(l, cs, grown)
<1>1. Len(now.parts) \in Nat /\ Len(grown.parts) \in Nat
      /\ \A k \in 1 .. Len(l) : Len(l[k].parts) \in Nat
  BY NoElement, SegmentParts, Zenon
<1>2. ASSUME NEW k \in 1 .. Len(l), Grew(l[k], now) PROVE Grew(l[k], grown)
  <2>1. Len(l[k].parts) \in Nat /\ Len(l[k].parts) <= Len(now.parts) /\ Len(now.parts) <= Len(grown.parts)
    BY <1>1, <1>2, Zenon DEF Grew
  <2>2. Len(l[k].parts) <= Len(grown.parts) /\ 1 .. Len(l[k].parts) \subseteq 1 .. Len(now.parts)
    BY <1>1, <2>1, SMT
  <2> QED BY <1>2, <2>2, Zenon DEF Grew
<1> QED BY <1>2, Zenon DEF Listed, Grew

\* What was listed and is still in the window is there after the window moved.
LEMMA ListedSlides ==
  ASSUME NEW cs, NEW now, NEW b, NEW t, Window(cs, now, b, t),
         NEW ds, NEW k, Slid(cs, now, ds, k), NEW l \in Seq(PlaySegs), Listed(l, cs, now)
  PROVE  Listed(l, ds, NewSeg(now.seq + 1))
<1>1. cs \in Seq(PlaySegs) /\ now \in PlaySegs
      /\ \A i \in 1 .. Len(cs) : cs[i].seq + (Len(cs) - i + 1) = now.seq
  BY Zenon DEF Window
<1>2. /\ k \in 0 .. Len(cs) /\ Len(ds) = Len(cs) + 1 - k
      /\ \A i \in 1 .. Len(cs) + 1 - k : ds[i] = IF i + k <= Len(cs) THEN cs[i + k] ELSE now
  BY Zenon DEF Slid
<1>3. Len(cs) \in Nat /\ k \in Nat /\ k <= Len(cs) /\ now.seq \in Nat
  <2>1. Len(cs) \in Nat /\ now.seq \in Nat
    BY <1>1, NoElement, SegmentParts, Zenon
  <2> QED BY <1>2, <2>1, SMT
<1>4. NewSeg(now.seq + 1).seq = now.seq + 1
  BY Zenon DEF NewSeg
<1>5. Len(ds) \in 1 .. Len(cs) + 1 - k /\ Len(ds) \in 1 .. Len(ds) /\ ~(Len(ds) + k <= Len(cs))
  <2>1. Len(ds) = Len(cs) + 1 - k
    BY <1>2, Zenon
  <2> QED BY <1>3, <2>1, SMT
<1>6. ds[Len(ds)] = now
  BY <1>2, <1>5, Zenon
<1>7. ASSUME NEW j \in 1 .. Len(l), l[j].seq + Len(ds) >= now.seq + 1
      PROVE  \E i \in 1 .. Len(ds) : Grew(l[j], ds[i])
  <2>1. l[j].seq \in Nat
    BY NoElement, SegmentParts, Zenon
  <2>2. l[j].seq + Len(cs) >= now.seq
    <3>1. Len(ds) = Len(cs) + 1 - k
      BY <1>2, Zenon
    <3> QED BY <1>3, <1>7, <2>1, <3>1, SMTT(40)
  <2>3. CASE Grew(l[j], now)
    BY <1>5, <1>6, <2>3, Zenon
  <2>4. ASSUME NEW i \in 1 .. Len(cs), Grew(l[j], cs[i]) PROVE \E n \in 1 .. Len(ds) : Grew(l[j], ds[n])
    <3>1. cs[i].seq = l[j].seq /\ cs[i].seq + (Len(cs) - i + 1) = now.seq /\ Len(ds) = Len(cs) + 1 - k
      BY <1>1, <1>2, <2>4, Zenon DEF Grew
    <3>2. i - k \in 1 .. Len(cs) + 1 - k /\ (i - k) + k = i /\ i <= Len(cs) /\ i - k \in 1 .. Len(ds)
      BY <1>3, <1>7, <2>1, <3>1, SMTT(40)
    <3>3. ds[i - k] = cs[i]
      BY <1>2, <3>2, Zenon
    <3> QED BY <2>4, <3>2, <3>3, Zenon
  <2> QED BY <2>2, <2>3, <2>4, Zenon DEF Listed
<1> QED BY <1>4, <1>7, Zenon DEF Listed

\* What is there when the playlist is built.
LEMMA JustListed ==
  ASSUME NEW cs, NEW now, NEW b, NEW t, Window(cs, now, b, t),
         NEW m \in Int, NEW p \in Int, Avail(cs, now, m, p)
  PROVE  LET l == cs \o (IF now.parts = <<>> THEN <<>> ELSE <<now>>)
         IN  l \in Seq(PlaySegs) /\ Delivered(l, m, p) /\ Listed(l, cs, now)
<1> DEFINE l == cs \o (IF now.parts = <<>> THEN <<>> ELSE <<now>>)
<1>1. cs \in Seq(PlaySegs) /\ now \in PlaySegs
      /\ \A i \in 1 .. Len(cs) : cs[i].seq + (Len(cs) - i + 1) = now.seq
  BY Zenon DEF Window
<1>2. Len(cs) \in Nat /\ now.seq \in Nat /\ now.parts \in Seq(Parts) /\ Len(now.parts) \in Nat
      /\ (now.parts = <<>> <=> Len(now.parts) = 0)
      /\ \A i \in 1 .. Len(cs) : cs[i].seq \in Nat /\ Len(cs[i].parts) \in Nat
  BY <1>1, NoElement, SegmentParts, Zenon
<1>3. \A s \in PlaySegs : Grew(s, s)
  <2> SUFFICES ASSUME NEW s \in PlaySegs PROVE Grew(s, s)
    OBVIOUS
  <2>1. Len(s.parts) \in Nat
    BY SegmentParts, Zenon
  <2>2. Len(s.parts) <= Len(s.parts)
    BY <2>1, SMT
  <2> QED BY <2>2, Zenon DEF Grew
<1>4. CASE now.parts = <<>>
  <2>1. l = cs
    <3>1. l = cs \o <<>>
      BY <1>4, Zenon
    <3> QED BY <1>1, <3>1, SMT
  <2>2. ~(p >= 0 /\ p < Len(now.parts))
    BY <1>2, <1>4, SMT
  <2>3. PICK i \in 1 .. Len(cs) : cs[i].seq > m \/ (cs[i].seq = m /\ p < Len(cs[i].parts))
    BY <2>2, Zenon DEF Avail
  <2>4. Len(cs) \in 1 .. Len(cs) /\ cs # <<>> /\ i \in Int
    BY <1>1, <1>2, SMT
  <2>5. cs[i].seq + (Len(cs) - i + 1) = now.seq /\ cs[Len(cs)].seq + (Len(cs) - Len(cs) + 1) = now.seq
        /\ cs[i].seq \in Nat /\ cs[Len(cs)].seq \in Nat
    BY <1>1, <1>2, <2>4, Zenon
  <2>6. cs[Len(cs)].seq > m \/ i = Len(cs)
    BY <1>2, <2>3, <2>5, SMTT(40)
  <2>7. Delivered(cs, m, p)
    BY <2>3, <2>4, <2>6, Zenon DEF Delivered
  <2>8. Listed(cs, cs, now)
    BY <1>1, <1>3, NoElement, Zenon DEF Listed
  <2> QED BY <1>1, <2>1, <2>7, <2>8, Zenon
<1>5. CASE now.parts # <<>>
  <2>1. /\ l \in Seq(PlaySegs) /\ Len(l) = Len(cs) + 1 /\ l[Len(cs) + 1] = now /\ l # <<>>
        /\ \A i \in 1 .. Len(cs) : l[i] = cs[i]
    <3>1. l = Append(cs, now)
      <4>1. l = cs \o <<now>>
        BY <1>5, Zenon
      <4> QED BY <1>1, <4>1, SMT
    <3> HIDE DEF l
    <3> QED BY <1>1, <3>1, OneMore
  <2> HIDE DEF l
  <2>2. Delivered(l, m, p)
    <3>1. CASE now.seq = m /\ p >= 0 /\ p < Len(now.parts)
      BY <2>1, <3>1, Zenon DEF Delivered
    <3>2. ASSUME NEW i \in 1 .. Len(cs), cs[i].seq > m \/ (cs[i].seq = m /\ p < Len(cs[i].parts))
          PROVE  Delivered(l, m, p)
      <4>1. cs[i].seq \in Nat /\ cs[i].seq + (Len(cs) - i + 1) = now.seq
        BY <1>1, <1>2, Zenon
      <4>2. now.seq > m
        BY <1>2, <3>2, <4>1, SMT
      <4> QED BY <2>1, <4>2, Zenon DEF Delivered
    <3> QED BY <3>1, <3>2, Zenon DEF Avail
  <2>3. Listed(l, cs, now)
    <3>1. ASSUME NEW j \in 1 .. Len(l)
          PROVE  Grew(l[j], now) \/ \E i \in 1 .. Len(cs) : Grew(l[j], cs[i])
      <4>1. j \in 1 .. Len(cs) \/ j = Len(cs) + 1
        BY <1>2, <2>1, SMTT(40)
      <4>2. \A i \in 1 .. Len(cs) : cs[i] \in PlaySegs
        BY <1>1, NoElement, Zenon
      <4> QED BY <1>1, <1>3, <2>1, <4>1, <4>2, Zenon
    <3> QED BY <3>1, Zenon DEF Listed
  <2> QED BY <2>1, <2>2, <2>3, Zenon DEF l
<1> QED BY <1>4, <1>5, Zenon

-----------------------------------------------------------------------------
\* Broadcast takes the waiting requests back to their check, and changes
\* nothing else about them.
LEMMA WokenKeeps ==
  ASSUME HlsTypes, Waiters, Broadcast
  PROVE  /\ conn' \in [Clients -> Requests] /\ waiters' \subseteq Clients /\ Waiters'
         /\ \A c \in Clients :
              /\ conn'[c].msn = conn[c].msn /\ conn'[c].part = conn[c].part
              /\ conn'[c].list = conn[c].list
              /\ conn'[c].pc = conn[c].pc \/ conn'[c].pc = "check"
<1>1. conn \in [Clients -> Requests] /\ conn' = Woken(waiters) /\ waiters' = {}
  BY Zenon DEF HlsTypes, Broadcast
<1>2. ASSUME NEW c \in Clients
      PROVE  /\ conn'[c] \in Requests /\ conn'[c].msn = conn[c].msn /\ conn'[c].part = conn[c].part
             /\ conn'[c].list = conn[c].list /\ (conn'[c].pc = conn[c].pc \/ conn'[c].pc = "check")
  <2>1. conn'[c] = IF c \in waiters THEN [conn[c] EXCEPT !.pc = "check"] ELSE conn[c]
    BY <1>1, Zenon DEF Woken
  <2>2. conn[c] \in Requests
    BY <1>1, Zenon
  <2> QED BY <2>1, <2>2, Zenon DEF Requests
<1>3. conn' = [c \in Clients |-> conn'[c]]
  BY <1>1, Zenon DEF Woken
<1>4. conn' \in [Clients -> Requests]
  BY <1>2, <1>3, Zenon
<1> QED BY <1>1, <1>2, <1>4, Zenon DEF Waiters

\* The requests are as before, some back at their check, and what they were
\* promised is still there.
LEMMA AnswersStay ==
  ASSUME HlsTypes, Answers(comp, curSeg), NEW cs, NEW now,
         \A c \in Clients : /\ conn'[c].msn = conn[c].msn /\ conn'[c].part = conn[c].part
                            /\ conn'[c].list = conn[c].list
                            /\ conn'[c].pc = conn[c].pc \/ conn'[c].pc = "check",
         \A m, p \in Int : Avail(comp, curSeg, m, p) => Avail(cs, now, m, p),
         \A l \in Seq(PlaySegs) : Listed(l, comp, curSeg) => Listed(l, cs, now),
         comp' = cs, curSeg' = now
  PROVE  Answers(comp, curSeg)'
<1> SUFFICES ASSUME NEW c \in Clients
             PROVE  /\ conn'[c].msn < 0 => conn'[c].part = -1
                    /\ conn'[c].pc = "build" => Avail(cs, now, Msn(c)', conn'[c].part)
                    /\ conn'[c].pc = "served" => /\ Delivered(conn'[c].list, Msn(c)', conn'[c].part)
                                                 /\ Listed(conn'[c].list, cs, now)
  BY Zenon DEF Answers
<1>1. Msn(c)' = Msn(c)
  BY Zenon DEF Msn
<1>2. conn[c] \in Requests
  BY Zenon DEF HlsTypes
<1>3. conn[c].msn \in Int /\ conn[c].part \in Int /\ conn[c].list \in Seq(PlaySegs)
  BY <1>2, Zenon DEF Requests
<1>4. Msn(c) \in Int
  <2>1. 0 \in Int
    BY SMT
  <2> QED BY <1>3, <2>1, Zenon DEF Msn
<1>5. conn'[c].msn < 0 => conn'[c].part = -1
  BY Zenon DEF Answers
<1>6. conn'[c].pc = "build" => conn[c].pc = "build"
  BY Zenon
<1>7. conn'[c].pc = "served" => conn[c].pc = "served"
  BY Zenon
<1>8. conn'[c].pc = "build" => Avail(cs, now, Msn(c)', conn'[c].part)
  BY <1>1, <1>3, <1>4, <1>6, Zenon DEF Answers
<1>9. conn'[c].pc = "served" => /\ Delivered(conn'[c].list, Msn(c)', conn'[c].part)
                               /\ Listed(conn'[c].list, cs, now)
  BY <1>1, <1>3, <1>7, Zenon DEF Answers
<1> QED BY <1>5, <1>8, <1>9, Zenon

\* The part in progress: what it is, and what the current segment is with it.
LEMMA WithPartIs ==
  ASSUME HlsInv, buf # <<>>
  PROVE  /\ WithPart \in PlaySegs /\ WithPart.seq = curSeg.seq /\ Grew(curSeg, WithPart)
         /\ WithPart.parts # <<>> /\ Window(comp, WithPart, <<>>, taken) /\ Starts(comp, WithPart)
<1> DEFINE q == [indep |-> FirstIsKeyframe, dur |-> partDur, init |-> init, data |-> buf]
<1>1. Window(comp, curSeg, buf, taken) /\ Starts(comp, curSeg) /\ curSeg \in PlaySegs /\ buf \in Seq(Frames)
      /\ partDur \in Nat /\ init \in Nat
  BY Zenon DEF HlsInv, HlsTypes, Window
<1>2. FirstIsKeyframe \in BOOLEAN
  BY SMT DEF FirstIsKeyframe
<1>3. q \in Parts /\ q.data = buf /\ q.indep = FirstIsKeyframe
  BY <1>1, <1>2, Zenon DEF Parts
<1>4. curSeg.parts \in Seq(Parts) /\ curSeg.seq \in Nat /\ curSeg.dur \in Nat /\ Len(curSeg.parts) \in Nat
  BY <1>1, SegmentParts, Zenon
<1>5. curSeg.dur + partDur \in Nat
  BY <1>1, <1>4, SMT
<1>6. WithPart = [curSeg EXCEPT !.parts = Append(curSeg.parts, q), !.dur = curSeg.dur + partDur]
  BY Zenon DEF WithPart
<1> HIDE DEF q
<1>7. /\ Append(curSeg.parts, q) \in Seq(Parts) /\ Len(Append(curSeg.parts, q)) = Len(curSeg.parts) + 1
      /\ \A i \in 1 .. Len(curSeg.parts) : Append(curSeg.parts, q)[i] = curSeg.parts[i]
      /\ Append(curSeg.parts, q)[Len(curSeg.parts) + 1] = q /\ Append(curSeg.parts, q) # <<>>
  BY <1>3, <1>4, OneMore
<1>8. WithPart \in PlaySegs /\ WithPart.seq = curSeg.seq /\ WithPart.parts = Append(curSeg.parts, q)
  BY <1>1, <1>4, <1>5, <1>6, <1>7, Zenon DEF PlaySegs
<1>9. Grew(curSeg, WithPart)
  <2>1. Len(curSeg.parts) <= Len(curSeg.parts) + 1
    BY <1>4, SMT
  <2> QED BY <1>7, <1>8, <2>1, Zenon DEF Grew
<1>10. Window(comp, WithPart, <<>>, taken)
  BY <1>1, <1>3, <1>8, PartAdded, Zenon
<1>11. Starts(comp, WithPart)
  <2>1. CASE curSeg.parts = <<>>
    <3>1. buf[1].video /\ buf[1].key
      BY <2>1, Zenon DEF HlsInv, KeyNext
    <3>2. 1 \in DOMAIN buf /\ 1 .. 1 - 1 = {}
      BY <1>1, SMT
    <3>3. FirstIsKeyframe
      BY <3>1, <3>2, Zenon DEF FirstIsKeyframe
    <3>4. Len(curSeg.parts) + 1 = 1
      BY <1>4, <2>1, NoElement, SMT
    <3> QED BY <1>1, <1>3, <1>7, <1>8, <3>3, <3>4, Zenon DEF Starts
  <2>2. CASE curSeg.parts # <<>>
    <3>1. 1 \in 1 .. Len(curSeg.parts)
      BY <1>4, <2>2, SMT
    <3> QED BY <1>1, <1>7, <1>8, <2>2, <3>1, Zenon DEF Starts
  <2> QED BY <2>1, <2>2, Zenon
<1> QED BY <1>7, <1>8, <1>9, <1>10, <1>11, Zenon

\* What was available or listed is so with the segments cs and now.
Keeps(cs, now) == /\ \A m, p \in Int : Avail(comp, curSeg, m, p) => Avail(cs, now, m, p)
                  /\ \A l \in Seq(PlaySegs) : Listed(l, comp, curSeg) => Listed(l, cs, now)
\* A part added to the current segment takes nothing away.
LEMMA GrowingKeeps ==
  ASSUME NEW seg \in PlaySegs, curSeg \in PlaySegs, Grew(curSeg, seg)
  PROVE  Keeps(comp, seg)
BY AvailGrows, ListedGrows, Zenon DEF Keeps

\* finaliseSegment, of the current segment with all its parts.
LEMMA Finalised ==
  ASSUME HlsInv, NEW seg \in PlaySegs, NEW b, Window(comp, seg, b, taken), Starts(comp, seg),
         seg.parts # <<>>, Grew(curSeg, seg), Finalise(seg)
  PROVE  /\ Window(comp', curSeg', b, taken) /\ Starts(comp', curSeg') /\ maxDur' \in Nat
         /\ Keeps(comp', curSeg') /\ curSeg'.parts = <<>>
<1>1. comp' = Trim(Append(comp, seg)) /\ curSeg' = NewSeg(seg.seq + 1)
      /\ maxDur' = IF seg.dur > maxDur THEN seg.dur ELSE maxDur
  BY Zenon DEF Finalise
<1>2. comp \in Seq(PlaySegs) /\ curSeg \in PlaySegs /\ maxDur \in Nat /\ seg.seq \in Nat /\ seg.dur \in Nat
      /\ Len(comp) \in Nat
  BY SegmentParts, NoElement, Zenon DEF HlsInv, HlsTypes, Window
<1>3. PICK k \in 0 .. Len(comp) : Slid(comp, seg, comp', k)
  BY <1>1, <1>2, Trimmed, Zenon
<1>4. seg.seq + 1 \in Nat
  BY <1>2, SMT
<1>5. Window(comp', curSeg', b, taken) /\ Starts(comp', curSeg') /\ curSeg'.parts = <<>>
  BY <1>1, <1>2, <1>3, <1>4, SegmentClosed, StartsStay, Fresh, Zenon
<1>6. Keeps(comp, seg)
  BY <1>2, GrowingKeeps, Zenon
<1>7. Keeps(comp', curSeg')
  <2>1. ASSUME NEW m \in Int, NEW p \in Int, Avail(comp, seg, m, p) PROVE Avail(comp', curSeg', m, p)
    BY <1>3, <2>1, AvailSlides, Zenon
  <2>2. ASSUME NEW l \in Seq(PlaySegs), Listed(l, comp, seg) PROVE Listed(l, comp', curSeg')
    BY <1>1, <1>3, <2>2, ListedSlides, Zenon
  <2> QED BY <1>6, <2>1, <2>2, Zenon DEF Keeps
<1> QED BY <1>1, <1>2, <1>5, <1>7, Zenon

\* emitPart publishes the samples in progress.
LEMMA Emitted ==
  ASSUME HlsInv, buf # <<>>, NEW nk, EmitPart(nk)
  PROVE  /\ Window(comp', curSeg', <<>>, taken) /\ Starts(comp', curSeg') /\ maxDur' \in Nat
         /\ Keeps(comp', curSeg') /\ (curSeg'.parts = <<>> => nk) /\ Broadcast
<1>1. /\ WithPart \in PlaySegs /\ Grew(curSeg, WithPart) /\ curSeg \in PlaySegs
      /\ WithPart.parts # <<>> /\ Window(comp, WithPart, <<>>, taken) /\ Starts(comp, WithPart)
  BY WithPartIs, Zenon DEF HlsInv, Window
<1>2. CASE Ends(nk, WithPart)
  BY <1>1, <1>2, Finalised, Zenon DEF EmitPart, Ends
<1>3. CASE ~Ends(nk, WithPart)
  <2>1. curSeg' = WithPart /\ comp' = comp /\ maxDur' = maxDur /\ Broadcast
    BY <1>3, Zenon DEF EmitPart
  <2>2. maxDur \in Nat
    BY Zenon DEF HlsInv, HlsTypes
  <2> QED BY <1>1, <2>1, <2>2, GrowingKeeps, Zenon
<1> QED BY <1>2, <1>3, Zenon

\* The requests after a step of the muxer that wakes them.
LEMMA AnsweredAfter ==
  ASSUME HlsInv, Keeps(comp', curSeg'), Broadcast \/ UNCHANGED <<conn, waiters>>
  PROVE  /\ Answers(comp, curSeg)' /\ Waiters' /\ conn' \in [Clients -> Requests] /\ waiters' \subseteq Clients
<1>1. CASE Broadcast
  BY <1>1, WokenKeeps, AnswersStay, Zenon DEF HlsInv, Keeps
<1>2. CASE UNCHANGED <<conn, waiters>>
  <2>1. conn' = conn /\ waiters' = waiters
    BY <1>2, Zenon
  <2> QED BY <2>1, AnswersStay, Zenon DEF HlsInv, HlsTypes, Keeps, Waiters
<1> QED BY <1>1, <1>2, Zenon

\* A packet is dropped, buffered, or buffered behind a part that is published.
LEMMA WritePacketKeeps ==
  ASSUME HlsInv, NEW video \in BOOLEAN, NEW key \in BOOLEAN, WritePacket(video, key)
  PROVE  HlsInv'
<1> DEFINE p == [n |-> Len(taken) + 1, video |-> video, key |-> key]
           isKey == video /\ key
           flush == buf # <<>> /\ (isKey \/ partDur >= PartTarget)
<1>1. /\ ~trailer
      /\ IF ~seenKey /\ ~isKey
           THEN UNCHANGED <<muxState, conn, waiters, taken>>
           ELSE /\ seenKey' = TRUE /\ taken' = Append(taken, p)
                /\ IF flush THEN EmitPart(isKey)
                   ELSE UNCHANGED <<curSeg, comp, maxDur, conn, waiters>>
                /\ buf' = IF flush THEN <<p>> ELSE Append(buf, p)
                /\ partDur' = (IF flush THEN 0 ELSE partDur) + 1
                /\ UNCHANGED <<init, trailer, terminating>>
  BY Zenon DEF WritePacket
<1>2. /\ partDur \in Nat /\ init \in Nat /\ maxDur \in Nat /\ trailer = FALSE /\ terminating \in BOOLEAN
      /\ Window(comp, curSeg, buf, taken) /\ Starts(comp, curSeg) /\ buf \in Seq(Frames) /\ taken \in Seq(Frames)
      /\ seenKey \in BOOLEAN
  BY <1>1, Zenon DEF HlsInv, HlsTypes, Window
<1>3. p \in Frames /\ p.n = Len(taken) + 1 /\ p.video = video /\ p.key = key
  <2>1. Len(taken) + 1 \in Nat
    BY <1>2, SMT
  <2> QED BY <2>1, Zenon DEF Frames
<1>4. Keeps(comp, curSeg)
  BY Zenon DEF Keeps
<1> HIDE DEF p
<1>5. CASE ~seenKey /\ ~isKey
  <2>1. /\ buf' = buf /\ partDur' = partDur /\ seenKey' = seenKey /\ init' = init /\ curSeg' = curSeg
        /\ comp' = comp /\ maxDur' = maxDur /\ trailer' = trailer /\ terminating' = terminating
        /\ taken' = taken /\ UNCHANGED <<conn, waiters>>
    BY <1>1, <1>5, Zenon DEF muxState
  <2>2. /\ Answers(comp, curSeg)' /\ Waiters' /\ conn' \in [Clients -> Requests] /\ waiters' \subseteq Clients
    BY <1>4, <2>1, AnsweredAfter, Zenon
  <2>3. HlsTypes' /\ KeyNext'
    BY <1>2, <2>1, <2>2, Zenon DEF HlsInv, HlsTypes, KeyNext
  <2> QED BY <1>2, <2>1, <2>2, <2>3, Zenon DEF HlsInv
<1>6. CASE ~(~seenKey /\ ~isKey) /\ flush
  <2>1. /\ seenKey' = TRUE /\ taken' = Append(taken, p) /\ buf # <<>> /\ EmitPart(isKey) /\ buf' = <<p>>
        /\ partDur' = 0 + 1 /\ init' = init /\ trailer' = trailer /\ terminating' = terminating
    BY <1>1, <1>6, Zenon
  <2>2. /\ Window(comp', curSeg', <<>>, taken) /\ Starts(comp', curSeg') /\ maxDur' \in Nat
        /\ Keeps(comp', curSeg') /\ (curSeg'.parts = <<>> => isKey) /\ Broadcast
    BY <2>1, Emitted, Zenon
  <2>3. buf' = Append(<<>>, p) /\ buf'[1] = p /\ buf' # <<>> /\ 0 + 1 \in Nat
    BY <2>1, SMT
  <2>4. Window(comp', curSeg', buf', taken')
    BY <1>3, <2>1, <2>2, <2>3, PacketTaken, Zenon
  <2>5. /\ Answers(comp, curSeg)' /\ Waiters' /\ conn' \in [Clients -> Requests] /\ waiters' \subseteq Clients
    BY <2>2, AnsweredAfter, Zenon
  <2>6. HlsTypes' /\ KeyNext'
    BY <1>2, <1>3, <2>1, <2>2, <2>3, <2>5, Zenon DEF HlsTypes, KeyNext
  <2> QED BY <2>2, <2>4, <2>5, <2>6, Zenon DEF HlsInv
<1>7. CASE ~(~seenKey /\ ~isKey) /\ ~flush
  <2>1. /\ seenKey' = TRUE /\ taken' = Append(taken, p) /\ buf' = Append(buf, p) /\ partDur' = partDur + 1
        /\ curSeg' = curSeg /\ comp' = comp /\ maxDur' = maxDur /\ UNCHANGED <<conn, waiters>>
        /\ init' = init /\ trailer' = trailer /\ terminating' = terminating
    BY <1>1, <1>7, Zenon
  <2>2. Window(comp', curSeg', buf', taken')
    BY <1>2, <1>3, <2>1, PacketTaken, Zenon
  <2>3. /\ Answers(comp, curSeg)' /\ Waiters' /\ conn' \in [Clients -> Requests] /\ waiters' \subseteq Clients
    BY <1>4, <2>1, AnsweredAfter, Zenon
  <2>4. buf' # <<>> /\ (IF buf = <<>> THEN buf'[1] = p ELSE buf'[1] = buf[1]) /\ partDur' \in Nat
    BY <1>2, <1>3, <2>1, SMT
  <2>5. HlsTypes'
    BY <1>2, <2>1, <2>3, <2>4, Zenon DEF HlsTypes
  <2>6. KeyNext'
    <3>1. ASSUME curSeg.parts = <<>> PROVE buf'[1].video /\ buf'[1].key
      <4>1. CASE buf = <<>>
        <5>1. isKey
          BY <1>1, <1>7, <3>1, <4>1, Zenon DEF HlsInv, KeyNext
        <5> QED BY <1>3, <2>4, <4>1, <5>1, Zenon
      <4>2. CASE buf # <<>>
        <5>1. seenKey
          BY <4>2, Zenon DEF HlsInv, KeyNext
        <5> QED BY <1>1, <2>4, <3>1, <4>2, <5>1, Zenon DEF HlsInv, KeyNext
      <4> QED BY <4>1, <4>2, Zenon
    <3> QED BY <1>2, <2>1, <2>4, <3>1, Zenon DEF KeyNext
  <2> QED BY <1>2, <2>1, <2>2, <2>3, <2>5, <2>6, Zenon DEF HlsInv
<1> QED BY <1>5, <1>6, <1>7, Zenon

\* A codec change publishes the part in progress and begins none.
LEMMA WriteCodecChangeKeeps == HlsInv /\ WriteCodecChange => HlsInv'
<1> SUFFICES ASSUME HlsInv, WriteCodecChange PROVE HlsInv'
  OBVIOUS
<1>1. /\ ~trailer /\ init' = init + 1 /\ buf' = <<>> /\ seenKey' = seenKey /\ trailer' = trailer
      /\ terminating' = terminating /\ taken' = taken
      /\ IF buf # <<>> THEN EmitPart(FALSE) /\ partDur' = 0
         ELSE Broadcast /\ UNCHANGED <<curSeg, comp, maxDur, partDur>>
  BY Zenon DEF WriteCodecChange
<1>2. /\ partDur \in Nat /\ init \in Nat /\ maxDur \in Nat /\ trailer \in BOOLEAN /\ terminating \in BOOLEAN
      /\ Window(comp, curSeg, buf, taken) /\ Starts(comp, curSeg) /\ seenKey \in BOOLEAN
  BY <1>1, Zenon DEF HlsInv, HlsTypes
<1>3. init + 1 \in Nat /\ 0 \in Nat
  BY <1>2, SMT
<1>4. /\ Window(comp', curSeg', <<>>, taken) /\ Starts(comp', curSeg') /\ maxDur' \in Nat
      /\ Keeps(comp', curSeg') /\ Broadcast /\ partDur' \in Nat
      /\ (curSeg'.parts = <<>> => curSeg.parts = <<>> /\ buf = <<>>)
  <2>1. CASE buf # <<>>
    BY <1>1, <1>3, <2>1, Emitted, Zenon
  <2>2. CASE buf = <<>>
    BY <1>1, <1>2, <2>2, Zenon DEF Keeps
  <2> QED BY <2>1, <2>2, Zenon
<1>5. /\ Answers(comp, curSeg)' /\ Waiters' /\ conn' \in [Clients -> Requests] /\ waiters' \subseteq Clients
  BY <1>4, AnsweredAfter, Zenon
<1>6. HlsTypes'
  BY <1>1, <1>2, <1>3, <1>4, <1>5, Zenon DEF HlsTypes
<1>7. KeyNext'
  <2>1. ~seenKey => buf = <<>> /\ curSeg.parts = <<>>
    BY Zenon DEF HlsInv, KeyNext
  <2>2. ~seenKey => curSeg'.parts = <<>>
    BY <1>1, <2>1, Zenon
  <2>3. ~(seenKey /\ curSeg'.parts = <<>>)
    BY <1>1, <1>4, Zenon DEF HlsInv, KeyNext
  <2> QED BY <1>1, <2>2, <2>3, Zenon DEF KeyNext
<1> QED BY <1>1, <1>4, <1>5, <1>6, <1>7, Zenon DEF HlsInv

\* The trailer publishes what is left and completes the segment.
LEMMA WriteTrailerKeeps == HlsInv /\ WriteTrailer => HlsInv'
<1> SUFFICES ASSUME HlsInv, WriteTrailer PROVE HlsInv'
  OBVIOUS
<1>1. /\ ~trailer /\ trailer' = TRUE /\ buf' = <<>> /\ partDur' = (IF buf = <<>> THEN partDur ELSE 0)
      /\ IF Final.parts # <<>> THEN Finalise(Final) ELSE UNCHANGED <<curSeg, comp, maxDur>>
      /\ Broadcast /\ seenKey' = seenKey /\ init' = init /\ terminating' = terminating /\ taken' = taken
  BY Zenon DEF WriteTrailer
<1>2. /\ partDur \in Nat /\ init \in Nat /\ maxDur \in Nat /\ terminating \in BOOLEAN
      /\ Window(comp, curSeg, buf, taken) /\ Starts(comp, curSeg) /\ seenKey \in BOOLEAN
      /\ curSeg \in PlaySegs
  BY <1>1, Zenon DEF HlsInv, HlsTypes, Window
<1>3. 0 \in Nat
  BY SMT
<1>4. /\ Final \in PlaySegs /\ Grew(curSeg, Final) /\ Window(comp, Final, <<>>, taken)
      /\ Starts(comp, Final) /\ (buf # <<>> => Final.parts # <<>>)
      /\ (Final.parts = <<>> => Final = curSeg)
  <2>1. CASE buf # <<>>
    <3>1. Final = WithPart
      BY <2>1, Zenon DEF Final
    <3> QED BY <2>1, <3>1, WithPartIs, Zenon
  <2>2. CASE buf = <<>>
    <3>1. Final = curSeg
      BY <2>2, Zenon DEF Final
    <3>2. Len(curSeg.parts) \in Nat
      BY <1>2, SegmentParts, Zenon
    <3>3. Len(curSeg.parts) <= Len(curSeg.parts)
      BY <3>2, SMT
    <3> QED BY <1>2, <2>2, <3>1, <3>3, Zenon DEF Grew
  <2> QED BY <2>1, <2>2, Zenon
<1>5. /\ Window(comp', curSeg', <<>>, taken) /\ Starts(comp', curSeg') /\ maxDur' \in Nat
      /\ Keeps(comp', curSeg') /\ curSeg'.parts = <<>>
  <2>1. CASE Final.parts # <<>>
    BY <1>1, <1>4, <2>1, Finalised, Zenon
  <2>2. CASE Final.parts = <<>>
    BY <1>1, <1>2, <1>4, <2>2, Zenon DEF Keeps
  <2> QED BY <2>1, <2>2, Zenon
<1>6. /\ Answers(comp, curSeg)' /\ Waiters' /\ conn' \in [Clients -> Requests] /\ waiters' \subseteq Clients
  BY <1>1, <1>5, AnsweredAfter, Zenon
<1>7. HlsTypes' /\ KeyNext'
  BY <1>1, <1>2, <1>3, <1>5, <1>6, Zenon DEF HlsTypes, KeyNext
<1> QED BY <1>1, <1>5, <1>6, <1>7, Zenon DEF HlsInv

\* Close only wakes the requests.
LEMMA CloseMuxerKeeps == HlsInv /\ CloseMuxer => HlsInv'
<1> SUFFICES ASSUME HlsInv, CloseMuxer PROVE HlsInv'
  OBVIOUS
<1>1. /\ terminating' = TRUE /\ Broadcast /\ buf' = buf /\ partDur' = partDur /\ seenKey' = seenKey
      /\ init' = init /\ curSeg' = curSeg /\ comp' = comp /\ maxDur' = maxDur /\ trailer' = trailer
      /\ taken' = taken
  BY Zenon DEF CloseMuxer
<1>2. Keeps(comp', curSeg')
  BY <1>1, Zenon DEF Keeps
<1>3. /\ Answers(comp, curSeg)' /\ Waiters' /\ conn' \in [Clients -> Requests] /\ waiters' \subseteq Clients
  BY <1>1, <1>2, AnsweredAfter, Zenon
<1>4. HlsTypes' /\ KeyNext'
  BY <1>1, <1>3, Zenon DEF HlsInv, HlsTypes, KeyNext
<1> QED BY <1>1, <1>3, <1>4, Zenon DEF HlsInv

-----------------------------------------------------------------------------
\* The muxer's state and what the requests are told stay when the muxer is not
\* touched.
LEMMA MuxerStays ==
  ASSUME HlsInv, UNCHANGED <<muxState, taken>>, conn' \in [Clients -> Requests], waiters' \subseteq Clients,
         Answers(comp, curSeg)', Waiters'
  PROVE  HlsInv'
<1>1. /\ buf' = buf /\ partDur' = partDur /\ seenKey' = seenKey /\ init' = init /\ curSeg' = curSeg
      /\ comp' = comp /\ maxDur' = maxDur /\ trailer' = trailer /\ terminating' = terminating
      /\ taken' = taken
  BY Zenon DEF muxState
<1> QED BY <1>1, Zenon DEF HlsInv, HlsTypes, KeyNext

\* One request moves on.
LEMMA OneRequest ==
  ASSUME HlsInv, UNCHANGED <<muxState, taken>>, NEW c \in Clients, NEW r \in Requests,
         conn' = [conn EXCEPT ![c] = r], waiters' \subseteq waiters \cup {c},
         c \in waiters' => r.pc = "wait",
         r.msn < 0 => r.part = -1,
         r.pc = "build" => Avail(comp, curSeg, IF r.msn < 0 THEN 0 ELSE r.msn, r.part),
         r.pc = "served" => /\ Delivered(r.list, IF r.msn < 0 THEN 0 ELSE r.msn, r.part)
                            /\ Listed(r.list, comp, curSeg)
  PROVE  HlsInv'
<1>1. conn \in [Clients -> Requests] /\ waiters \subseteq Clients
  BY Zenon DEF HlsInv, HlsTypes
<1>2. conn' \in [Clients -> Requests] /\ waiters' \subseteq Clients
  BY <1>1, Zenon
<1>3. conn'[c] = r /\ \A x \in Clients : x # c => conn'[x] = conn[x]
  BY <1>1, Zenon
<1>4. comp' = comp /\ curSeg' = curSeg
  BY Zenon DEF muxState
<1>5. ASSUME NEW x \in Clients
      PROVE  /\ conn'[x].msn < 0 => conn'[x].part = -1
             /\ conn'[x].pc = "build" => Avail(comp, curSeg, Msn(x)', conn'[x].part)
             /\ conn'[x].pc = "served" => /\ Delivered(conn'[x].list, Msn(x)', conn'[x].part)
                                          /\ Listed(conn'[x].list, comp, curSeg)
  <2>0. /\ Msn(x)' = IF conn'[x].msn < 0 THEN 0 ELSE conn'[x].msn
        /\ Msn(x) = IF conn[x].msn < 0 THEN 0 ELSE conn[x].msn
    BY DEF Msn
  <2>1. CASE x = c
    <3>1. Msn(x)' = IF r.msn < 0 THEN 0 ELSE r.msn
      BY <1>3, <2>0, <2>1, Zenon
    <3> QED BY <1>3, <2>1, <3>1, Zenon
  <2>2. CASE x # c
    <3>1. conn'[x] = conn[x]
      BY <1>3, <2>2, Zenon
    <3>2. Msn(x)' = Msn(x)
      BY <2>0, <3>1, Zenon
    <3> QED BY <3>1, <3>2, Zenon DEF HlsInv, Answers
  <2> QED BY <2>1, <2>2, Zenon
<1>6. Answers(comp, curSeg)'
  BY <1>4, <1>5, Zenon DEF Answers
<1>7. Waiters'
  BY <1>1, <1>3, Zenon DEF HlsInv, Waiters
<1> QED BY <1>2, <1>6, <1>7, MuxerStays, Zenon

\* What the invariant says of one request.
LEMMA RequestIs ==
  ASSUME HlsInv, NEW c \in Clients
  PROVE  /\ conn[c] \in Requests /\ conn[c].msn \in Int /\ conn[c].part \in Int
         /\ Msn(c) \in Int /\ Msn(c) = (IF conn[c].msn < 0 THEN 0 ELSE conn[c].msn)
         /\ conn[c].msn < 0 => conn[c].part = -1
         /\ conn[c].pc = "build" => Avail(comp, curSeg, Msn(c), conn[c].part)
         /\ c \in waiters => conn[c].pc = "wait"
         /\ conn = [conn EXCEPT ![c] = conn[c]]
<1>1. conn \in [Clients -> Requests]
  BY Zenon DEF HlsInv, HlsTypes
<1>2. conn[c] \in Requests
  BY <1>1, Zenon
<1>3. conn[c].msn \in Int /\ conn[c].part \in Int
  BY <1>2, Zenon DEF Requests
<1>4. 0 \in Int
  BY SMT
<1>5. Msn(c) = (IF conn[c].msn < 0 THEN 0 ELSE conn[c].msn) /\ Msn(c) \in Int
  BY <1>3, <1>4, Zenon DEF Msn
<1>6. conn = [conn EXCEPT ![c] = conn[c]]
  BY <1>1, Zenon
<1> QED BY <1>2, <1>3, <1>5, <1>6, Zenon DEF HlsInv, Answers, Waiters

\* A request begins: it may be answered at once when a segment is complete.
LEMMA RequestKeeps ==
  ASSUME HlsInv, NEW c \in Clients, NEW q \in Asks, Request(c, q)
  PROVE  HlsInv'
<1> DEFINE r == [NoRequest EXCEPT !.msn = q.msn, !.part = q.part,
                   !.pc = IF q.msn < 0 /\ comp # <<>> THEN "build" ELSE "check"]
<1>1. conn[c].pc = "idle" /\ conn' = [conn EXCEPT ![c] = r] /\ UNCHANGED <<muxState, waiters, nIn, taken>>
  BY Zenon DEF Request
<1>2. q.msn \in Int /\ q.part \in Nat \cup {-1} /\ (q.msn < 0 => q.part = -1)
  BY HlsAssumption, Zenon DEF Configured
<1>3. q.part \in Int /\ <<>> \in Seq(PlaySegs) /\ 0 \in Int /\ -1 \in Int
  BY <1>2, SMT
<1>4. /\ r \in Requests /\ r.msn = q.msn /\ r.part = q.part
      /\ r.pc = IF q.msn < 0 /\ comp # <<>> THEN "build" ELSE "check"
  BY <1>2, <1>3, Zenon DEF NoRequest, Requests
<1>5. q.msn < 0 /\ comp # <<>> => Avail(comp, curSeg, 0, q.part)
  <2>1. comp \in Seq(PlaySegs)
    BY Zenon DEF HlsInv, Window
  <2>2. ASSUME comp # <<>> PROVE 1 \in 1 .. Len(comp) /\ comp[1] \in PlaySegs
    BY <2>1, <2>2, SMT
  <2>3. ASSUME comp # <<>> PROVE comp[1].seq \in Nat /\ Len(comp[1].parts) \in Nat
    BY <2>2, <2>3, SegmentParts, Zenon
  <2>4. ASSUME NEW a \in Nat, NEW b \in Nat PROVE a > 0 \/ (a = 0 /\ -1 < b)
    BY SMT
  <2> QED BY <1>2, <2>2, <2>3, <2>4, Zenon DEF Avail
<1>6. waiters' \subseteq waiters \cup {c} /\ c \notin waiters' /\ UNCHANGED <<muxState, taken>>
  BY <1>1, RequestIs, Zenon
<1> HIDE DEF r
<1>7. r.pc # "served" /\ (r.pc = "build" => q.msn < 0 /\ comp # <<>>)
  BY <1>4, Zenon
<1> QED BY <1>1, <1>2, <1>4, <1>5, <1>6, <1>7, OneRequest, Zenon

\* partAvailable is what a playlist built now would deliver.
LEMMA AvailableIs ==
  ASSUME HlsInv, NEW m, NEW p
  PROVE  PartAvailable(m, p) <=> Avail(comp, curSeg, m, p)
<1>1. comp \in Seq(PlaySegs)
  BY Zenon DEF HlsInv, Window
<1>2. DOMAIN comp = 1 .. Len(comp)
  BY <1>1, NoElement, Zenon
<1> QED BY <1>2, Zenon DEF PartAvailable, Avail, Complete

\* A round of waitForPart.
LEMMA CheckKeeps ==
  ASSUME HlsInv, NEW c \in Clients, Check(c)
  PROVE  HlsInv'
<1> DEFINE pc == IF PartAvailable(Msn(c), conn[c].part) THEN "build"
                 ELSE IF terminating \/ conn[c].late \/ conn[c].gone THEN "failed" ELSE "add"
           r  == [conn[c] EXCEPT !.pc = pc]
<1>1. conn[c].pc = "check" /\ conn' = [conn EXCEPT ![c] = r] /\ UNCHANGED <<muxState, waiters, nIn, taken>>
  BY Zenon DEF Check
<1>2. conn[c] \in Requests /\ pc \in {"build", "failed", "add"}
  BY RequestIs, Zenon
<1>3. pc = "build" => Avail(comp, curSeg, Msn(c), conn[c].part)
  BY AvailableIs, Zenon
<1> HIDE DEF pc
<1>4. r \in Requests /\ r.pc = pc /\ r.msn = conn[c].msn /\ r.part = conn[c].part
  BY <1>2, Zenon DEF Requests
<1>5. waiters' \subseteq waiters \cup {c} /\ c \notin waiters' /\ UNCHANGED <<muxState, taken>>
  BY <1>1, RequestIs, Zenon
<1> HIDE DEF r
<1>6. r.pc # "served"
  BY <1>2, <1>4, Zenon
<1>7. r.pc = "build" => Avail(comp, curSeg, IF r.msn < 0 THEN 0 ELSE r.msn, r.part)
  BY <1>3, <1>4, RequestIs, Zenon
<1>8. r.msn < 0 => r.part = -1
  BY <1>4, RequestIs, Zenon
<1> QED BY <1>1, <1>4, <1>5, <1>6, <1>7, <1>8, OneRequest, Zenon

\* cond.Wait.
LEMMA AddKeeps ==
  ASSUME HlsInv, NEW c \in Clients, Add(c)
  PROVE  HlsInv'
<1> DEFINE r == [conn[c] EXCEPT !.pc = "wait"]
<1>1. conn' = [conn EXCEPT ![c] = r] /\ waiters' = waiters \cup {c} /\ UNCHANGED <<muxState, nIn, taken>>
  BY Zenon DEF Add
<1>2. r \in Requests /\ r.pc = "wait" /\ r.msn = conn[c].msn /\ r.part = conn[c].part
  BY RequestIs, Zenon DEF Requests
<1> HIDE DEF r
<1>3. waiters' \subseteq waiters \cup {c} /\ UNCHANGED <<muxState, taken>>
  BY <1>1, Zenon
<1>4. r.msn < 0 => r.part = -1
  BY <1>2, RequestIs, Zenon
<1>5. r.pc # "served" /\ r.pc # "build"
  BY <1>2, Zenon
<1> QED BY <1>1, <1>2, <1>3, <1>4, <1>5, OneRequest, Zenon

\* buildPlaylist: what was available when the wait ended still is.
LEMMA BuildPlaylistKeeps ==
  ASSUME HlsInv, NEW c \in Clients, BuildPlaylist(c)
  PROVE  HlsInv'
<1> DEFINE l == comp \o (IF curSeg.parts = <<>> THEN <<>> ELSE <<curSeg>>)
           r == [conn[c] EXCEPT !.pc = "served", !.list = l]
<1>1. /\ conn[c].pc = "build" /\ UNCHANGED <<muxState, waiters, nIn, taken>>
      /\ conn' = [conn EXCEPT ![c] = r]
  BY Zenon DEF BuildPlaylist
<1>2. /\ l \in Seq(PlaySegs) /\ Delivered(l, Msn(c), conn[c].part) /\ Listed(l, comp, curSeg)
  <2>1. Window(comp, curSeg, buf, taken)
    BY Zenon DEF HlsInv
  <2>2. Msn(c) \in Int /\ conn[c].part \in Int /\ Avail(comp, curSeg, Msn(c), conn[c].part)
    BY <1>1, RequestIs, Zenon
  <2> QED BY <2>1, <2>2, JustListed, Zenon
<1> HIDE DEF l
<1>4. r \in Requests /\ r.pc = "served" /\ r.msn = conn[c].msn /\ r.part = conn[c].part /\ r.list = l
  BY <1>2, RequestIs, Zenon DEF Requests
<1> HIDE DEF r
<1>5. waiters' \subseteq waiters \cup {c} /\ c \notin waiters' /\ UNCHANGED <<muxState, taken>>
  BY <1>1, RequestIs, Zenon
<1>6. r.pc # "build"
  BY <1>4, Zenon
<1>7. /\ Delivered(r.list, IF r.msn < 0 THEN 0 ELSE r.msn, r.part)
      /\ Listed(r.list, comp, curSeg)
  BY <1>2, <1>4, RequestIs, Zenon
<1>8. r.msn < 0 => r.part = -1
  BY <1>4, RequestIs, Zenon
<1> QED BY <1>1, <1>4, <1>5, <1>6, <1>7, <1>8, OneRequest, Zenon

\* The timer and the context watcher wake the requests and mark one.
LEMMA MarkedKeeps ==
  ASSUME HlsInv, UNCHANGED <<muxState, taken>>, NEW c \in Clients, waiters' = {}, NEW r \in Requests,
         conn' = [Woken(waiters) EXCEPT ![c] = r],
         r.msn = Woken(waiters)[c].msn, r.part = Woken(waiters)[c].part,
         r.list = Woken(waiters)[c].list, r.pc = Woken(waiters)[c].pc
  PROVE  HlsInv'
<1>1. conn \in [Clients -> Requests]
  BY Zenon DEF HlsInv, HlsTypes
<1>2. ASSUME NEW x \in Clients
      PROVE  /\ Woken(waiters)[x] \in Requests
             /\ Woken(waiters)[x].msn = conn[x].msn /\ Woken(waiters)[x].part = conn[x].part
             /\ Woken(waiters)[x].list = conn[x].list
             /\ Woken(waiters)[x].pc = conn[x].pc \/ Woken(waiters)[x].pc = "check"
  <2>1. Woken(waiters)[x] = IF x \in waiters THEN [conn[x] EXCEPT !.pc = "check"] ELSE conn[x]
    BY Zenon DEF Woken
  <2>2. conn[x] \in Requests
    BY <1>1, Zenon
  <2> QED BY <2>1, <2>2, Zenon DEF Requests
<1>3. Woken(waiters) \in [Clients -> Requests]
  <2>1. Woken(waiters) = [x \in Clients |-> Woken(waiters)[x]]
    BY Zenon DEF Woken
  <2> QED BY <1>2, <2>1, Zenon
<1>4. conn' \in [Clients -> Requests] /\ conn'[c] = r
      /\ \A x \in Clients : x # c => conn'[x] = Woken(waiters)[x]
  BY <1>3, Zenon
<1>5. \A x \in Clients : /\ conn'[x].msn = conn[x].msn /\ conn'[x].part = conn[x].part
                         /\ conn'[x].list = conn[x].list
                         /\ conn'[x].pc = conn[x].pc \/ conn'[x].pc = "check"
  BY <1>2, <1>4, Zenon
<1>6. comp' = comp /\ curSeg' = curSeg
  BY Zenon DEF muxState
<1>7. Answers(comp, curSeg)'
  BY <1>5, <1>6, AnswersStay, Zenon DEF HlsInv
<1>8. Waiters' /\ waiters' \subseteq Clients
  BY Zenon DEF Waiters
<1> QED BY <1>4, <1>7, <1>8, MuxerStays, Zenon

\* The deadline passes, or the client goes away.
LEMMA AlertKeeps ==
  ASSUME HlsInv, NEW c \in Clients, Timeout(c) \/ Leave(c)
  PROVE  HlsInv'
<1> DEFINE w == Woken(waiters)[c]
<1>1. Woken(waiters)[c] \in Requests
  <2>1. Woken(waiters)[c] = IF c \in waiters THEN [conn[c] EXCEPT !.pc = "check"] ELSE conn[c]
    BY Zenon DEF Woken
  <2> QED BY <2>1, RequestIs, Zenon DEF Requests
<1>2. CASE Timeout(c)
  <2> DEFINE r == [w EXCEPT !.late = TRUE]
  <2>1. conn' = [Woken(waiters) EXCEPT ![c] = r] /\ waiters' = {} /\ UNCHANGED <<muxState, taken>>
    <3>1. Alert(c) /\ UNCHANGED <<muxState, taken>>
      BY <1>2, Zenon DEF Timeout
    <3> QED BY <3>1, Zenon DEF Alert
  <2>2. r \in Requests /\ r.msn = w.msn /\ r.part = w.part /\ r.list = w.list /\ r.pc = w.pc
    BY <1>1, Zenon DEF Requests
  <2> HIDE DEF r
  <2> QED BY <2>1, <2>2, MarkedKeeps, Zenon
<1>3. CASE Leave(c)
  <2> DEFINE r == [w EXCEPT !.gone = TRUE]
  <2>1. conn' = [Woken(waiters) EXCEPT ![c] = r] /\ waiters' = {} /\ UNCHANGED <<muxState, taken>>
    BY <1>3, Zenon DEF Leave
  <2>2. r \in Requests /\ r.msn = w.msn /\ r.part = w.part /\ r.list = w.list /\ r.pc = w.pc
    BY <1>1, Zenon DEF Requests
  <2> HIDE DEF r
  <2> QED BY <2>1, <2>2, MarkedKeeps, Zenon
<1> QED BY <1>2, <1>3, Zenon

-----------------------------------------------------------------------------
\* NewMuxer and WriteHeader.
LEMMA HlsBegins == HlsInit => HlsInv
<1> SUFFICES ASSUME HlsInit PROVE HlsInv
  OBVIOUS
<1>1. /\ buf = <<>> /\ partDur = 0 /\ seenKey = FALSE /\ init = 0 /\ curSeg = NewSeg(0) /\ comp = <<>>
      /\ maxDur = 0 /\ trailer = FALSE /\ terminating = FALSE
      /\ conn = [c \in Clients |-> NoRequest] /\ waiters = {} /\ taken = <<>>
  BY Zenon DEF HlsInit
<1>2. 0 \in Nat /\ 0 \in Int /\ -1 \in Int /\ <<>> \in Seq(PlaySegs) /\ <<>> \in Seq(Frames)
      /\ ~(0 < 0)
  BY SMT
<1>3. NoRequest \in Requests /\ NoRequest.pc = "idle" /\ NoRequest.msn = 0
  BY <1>2, Zenon DEF NoRequest, Requests
<1>4. curSeg \in PlaySegs /\ curSeg.seq = 0 /\ curSeg.parts = <<>>
  BY <1>1, <1>2, Fresh, Zenon
<1>5. HlsTypes
  BY <1>1, <1>2, <1>3, Zenon DEF HlsTypes
<1>6. Len(<<>>) = 0 /\ 0 <= 0 /\ 0 - 0 + 1 = 1 /\ 1 .. 0 = {}
  BY SMT
<1>7. Window(comp, curSeg, buf, taken)
  <2>1. Rest(curSeg, buf, taken) = 1
    BY <1>1, <1>4, <1>6, Zenon DEF Rest
  <2>2. 1 .. Len(comp) = {} /\ 1 .. Len(buf) = {} /\ 1 .. Len(taken) = {} /\ Len(buf) <= Len(taken)
    BY <1>1, <1>6, Zenon
  <2> QED BY <1>1, <1>2, <1>4, <2>1, <2>2, Zenon DEF Window
<1>8. Starts(comp, curSeg) /\ KeyNext
  BY <1>1, <1>4, <1>6, Zenon DEF Starts, KeyNext
<1>9. \A c \in Clients : conn[c].pc = "idle" /\ conn[c].msn = 0
  BY <1>1, <1>3, Zenon
<1>10. Answers(comp, curSeg) /\ Waiters
  BY <1>1, <1>2, <1>9, Zenon DEF Answers, Waiters
<1> QED BY <1>5, <1>7, <1>8, <1>10, Zenon DEF HlsInv

\* Every step of the muxer and of the requests keeps the invariant.
LEMMA HlsStep == HlsInv /\ [HlsNext]_hlsVars => HlsInv'
<1> SUFFICES ASSUME HlsInv, [HlsNext]_hlsVars PROVE HlsInv'
  OBVIOUS
<1>1. CASE UNCHANGED hlsVars
  <2>1. UNCHANGED <<muxState, taken>> /\ conn' = conn /\ waiters' = waiters
    BY <1>1, Zenon DEF hlsVars, muxState
  <2>2. Keeps(comp', curSeg')
    BY <2>1, Zenon DEF Keeps, muxState
  <2>3. /\ Answers(comp, curSeg)' /\ Waiters' /\ conn' \in [Clients -> Requests] /\ waiters' \subseteq Clients
    BY <2>1, <2>2, AnsweredAfter, Zenon
  <2> QED BY <2>1, <2>3, MuxerStays, Zenon
<1>2. CASE HlsNext
  <2>1. ASSUME NEW video \in BOOLEAN, NEW key \in BOOLEAN, WritePacket(video, key) PROVE HlsInv'
    BY <2>1, WritePacketKeeps, Zenon
  <2>2. CASE WriteCodecChange
    BY <2>2, WriteCodecChangeKeeps, Zenon
  <2>3. CASE WriteTrailer
    BY <2>3, WriteTrailerKeeps, Zenon
  <2>4. CASE CloseMuxer
    BY <2>4, CloseMuxerKeeps, Zenon
  <2>5. ASSUME NEW c \in Clients, NEW q \in Asks, Request(c, q) PROVE HlsInv'
    BY <2>5, RequestKeeps, Zenon
  <2>6. ASSUME NEW c \in Clients, Check(c) PROVE HlsInv'
    BY <2>6, CheckKeeps, Zenon
  <2>7. ASSUME NEW c \in Clients, Add(c) PROVE HlsInv'
    BY <2>7, AddKeeps, Zenon
  <2>8. ASSUME NEW c \in Clients, BuildPlaylist(c) PROVE HlsInv'
    BY <2>8, BuildPlaylistKeeps, Zenon
  <2>9. ASSUME NEW c \in Clients, Timeout(c) \/ Leave(c) PROVE HlsInv'
    BY <2>9, AlertKeeps, Zenon
  <2> QED BY <1>2, <2>1, <2>2, <2>3, <2>4, <2>5, <2>6, <2>7, <2>8, <2>9, Zenon DEF HlsNext
<1> QED BY <1>1, <1>2, Zenon

-----------------------------------------------------------------------------
\* The segments that can be fetched have different numbers.
LEMMA NumbersDiffer ==
  ASSUME HlsInv, NEW x \in Complete \cup {curSeg}, NEW y \in Complete \cup {curSeg}, x.seq = y.seq
  PROVE  x = y /\ x \in PlaySegs
<1>1. /\ comp \in Seq(PlaySegs) /\ curSeg \in PlaySegs
      /\ \A i \in 1 .. Len(comp) : comp[i].seq + (Len(comp) - i + 1) = curSeg.seq
  BY Zenon DEF HlsInv, Window
<1>2. /\ Len(comp) \in Nat /\ DOMAIN comp = 1 .. Len(comp) /\ curSeg.seq \in Nat
      /\ \A i \in 1 .. Len(comp) : comp[i] \in PlaySegs /\ comp[i].seq \in Nat
  BY <1>1, NoElement, SegmentParts, Zenon
<1>3. ASSUME NEW i \in 1 .. Len(comp) PROVE comp[i].seq # curSeg.seq
  <2>1. ASSUME NEW a \in Nat, NEW b \in Nat, a + (Len(comp) - i + 1) = b PROVE a # b
    BY <1>2, <2>1, SMT
  <2> QED BY <1>1, <1>2, <2>1, Zenon
<1>4. ASSUME NEW i \in 1 .. Len(comp), NEW j \in 1 .. Len(comp), comp[i].seq = comp[j].seq
      PROVE  i = j
  <2>1. ASSUME NEW a \in Nat, NEW b \in Nat, a + (Len(comp) - i + 1) = b, a + (Len(comp) - j + 1) = b
        PROVE  i = j
    BY <1>2, <2>1, SMT
  <2> QED BY <1>1, <1>2, <1>4, <2>1, Zenon
<1>5. \A z \in Complete : \E i \in 1 .. Len(comp) : z = comp[i]
  BY <1>2, Zenon DEF Complete
<1>6. x \in PlaySegs
  BY <1>1, <1>2, <1>5, Zenon
<1>7. CASE x = curSeg
  <2>1. ASSUME NEW i \in 1 .. Len(comp), y = comp[i] PROVE FALSE
    BY <1>3, <1>7, <2>1, Zenon
  <2> QED BY <1>5, <1>6, <1>7, <2>1, Zenon
<1>8. ASSUME NEW i \in 1 .. Len(comp), x = comp[i] PROVE x = y
  <2>1. y # curSeg
    BY <1>3, <1>8, Zenon
  <2>2. PICK j \in 1 .. Len(comp) : y = comp[j]
    BY <1>5, <2>1, Zenon
  <2>3. comp[i].seq = comp[j].seq
    BY <1>8, <2>2, Zenon
  <2> QED BY <1>4, <1>8, <2>2, <2>3, Zenon
<1> QED BY <1>5, <1>6, <1>7, <1>8, Zenon

\* findPartData and findSegmentData find the parts of the segment with the
\* number.
LEMMA Fetched ==
  ASSUME HlsInv, NEW s \in PlaySegs, NEW x \in Complete \cup {curSeg}, Grew(s, x),
         NEW i \in 1 .. Len(s.parts)
  PROVE  /\ FindPart(s.seq, i - 1) = s.parts[i].data
         /\ x \in Complete => /\ i \in DOMAIN FindSegment(s.seq)
                              /\ FindSegment(s.seq)[i] = s.parts[i].data
<1>1. x \in PlaySegs /\ \A y \in Complete \cup {curSeg} : y.seq = x.seq => y = x
  BY NumbersDiffer, Zenon
<1>2. x.seq = s.seq /\ Len(s.parts) <= Len(x.parts) /\ x.parts[i] = s.parts[i]
  BY Zenon DEF Grew
<1>3. Len(s.parts) \in Nat /\ Len(x.parts) \in Nat /\ x.parts \in Seq(Parts)
  BY <1>1, SegmentParts, Zenon
<1>4. i - 1 \in 0 .. Len(x.parts) - 1 /\ i - 1 + 1 = i /\ i \in 1 .. Len(x.parts)
  BY <1>2, <1>3, SMT
<1>5. FindPart(s.seq, i - 1) = s.parts[i].data
  <2> DEFINE S == {y \in Complete \cup {curSeg} : y.seq = s.seq /\ i - 1 \in 0 .. Len(y.parts) - 1}
  <2>1. S = {x}
    BY <1>1, <1>2, <1>4, Zenon
  <2>2. (CHOOSE y \in S : TRUE) = x /\ S # {}
    BY <2>1, Zenon
  <2>3. FindPart(s.seq, i - 1) = IF S = {} THEN <<>> ELSE (CHOOSE y \in S : TRUE).parts[i - 1 + 1].data
    BY Zenon DEF FindPart
  <2> HIDE DEF S
  <2> QED BY <1>2, <1>4, <2>2, <2>3, Zenon
<1>6. ASSUME x \in Complete
      PROVE  i \in DOMAIN FindSegment(s.seq) /\ FindSegment(s.seq)[i] = s.parts[i].data
  <2> DEFINE S == {y \in Complete : y.seq = s.seq}
  <2>1. S = {x}
    BY <1>1, <1>2, <1>6, Zenon
  <2>2. (CHOOSE y \in S : TRUE) = x /\ S # {}
    BY <2>1, Zenon
  <2>3. FindSegment(s.seq) = IF S = {} THEN <<>> ELSE [j \in DOMAIN (CHOOSE y \in S : TRUE).parts |->
                                                         (CHOOSE y \in S : TRUE).parts[j].data]
    BY Zenon DEF FindSegment
  <2> HIDE DEF S
  <2>4. FindSegment(s.seq) = [j \in DOMAIN x.parts |-> x.parts[j].data]
    BY <2>2, <2>3, Zenon
  <2>5. i \in DOMAIN x.parts
    BY <1>3, <1>4, NoElement, Zenon
  <2> QED BY <1>2, <2>4, <2>5, Zenon
<1> QED BY <1>5, <1>6, Zenon

\* The invariant says what a player is promised.
LEMMA HlsInvServes == HlsInv => PlaylistServes
<1> SUFFICES ASSUME HlsInv PROVE PlaylistServes
  OBVIOUS
<1>1. /\ Window(comp, curSeg, buf, taken) /\ comp \in Seq(PlaySegs) /\ curSeg \in PlaySegs
      /\ buf \in Seq(Frames) /\ taken \in Seq(Frames) /\ Starts(comp, curSeg)
  BY Zenon DEF HlsInv, Window
<1>2. /\ DOMAIN comp = 1 .. Len(comp) /\ Len(comp) \in Nat /\ Len(buf) \in Nat /\ Len(taken) \in Nat
      /\ DOMAIN buf = 1 .. Len(buf) /\ \A i \in 1 .. Len(comp) : comp[i] \in PlaySegs
  BY <1>1, NoElement, Zenon
<1>3. Rest(curSeg, buf, taken) = CurFrom /\ BufFrom = Len(taken) - Len(buf) + 1
  BY Zenon DEF Rest, CurFrom, BufFrom
<1>4. \A s \in Complete \cup {curSeg} : s \in PlaySegs /\ (s.parts # <<>> => Holds(s, taken))
  BY <1>1, <1>2, Zenon DEF Window, Complete
<1>5. ASSUME NEW s \in Complete \cup {curSeg}, NEW j \in DOMAIN s.parts
      PROVE  LET d == s.parts[j].data
             IN  /\ d # <<>> /\ \A i \in DOMAIN d : d[i] = taken[d[1].n + i - 1]
                 /\ j > 1 => d[1].n = Following(s.parts[j - 1].data)
  <2>1. s \in PlaySegs /\ s.parts \in Seq(Parts)
    BY <1>4, SegmentParts, Zenon
  <2>2. j \in 1 .. Len(s.parts) /\ s.parts # <<>>
    <3>1. DOMAIN s.parts = 1 .. Len(s.parts)
      BY <2>1, NoElement, Zenon
    <3> QED BY <2>1, <3>1, SMT
  <2>3. Pieces(s.parts, taken) /\ s.parts[j].data \in Seq(Frames)
    BY <1>4, <2>1, <2>2, SegmentParts, Zenon DEF Holds
  <2>4. DOMAIN s.parts[j].data = 1 .. Len(s.parts[j].data)
    BY <2>3, NoElement, Zenon
  <2> QED BY <2>2, <2>3, <2>4, Zenon DEF Pieces, Piece
<1>6. PartsCoverStream
  <2>1. ASSUME NEW i \in DOMAIN comp
        PROVE  /\ comp[i].parts # <<>> /\ comp[i].seq + (Len(comp) - i + 1) = curSeg.seq
               /\ SegTo(comp[i]) = IF i < Len(comp) THEN SegFrom(comp[i + 1]) ELSE CurFrom
               /\ comp[i].seq = 0 => SegFrom(comp[i]) = 1
    BY <1>1, <1>2, <1>3, Zenon DEF Window, Holds
  <2>2. (curSeg.seq = 0 => CurFrom = 1) /\ (curSeg.parts # <<>> => SegTo(curSeg) = BufFrom)
    BY <1>1, <1>3, Zenon DEF Window
  <2>3. ASSUME NEW i \in DOMAIN buf PROVE buf[i] = taken[BufFrom + i - 1]
    <3>1. buf[i] = taken[Len(taken) - Len(buf) + i] /\ i \in 1 .. Len(buf)
      BY <1>1, <1>2, Zenon DEF Window
    <3>2. Len(taken) - Len(buf) + 1 + i - 1 = Len(taken) - Len(buf) + i
      BY <1>2, <3>1, SMT
    <3> QED BY <1>3, <3>1, <3>2, Zenon
  <2> QED BY <1>5, <2>1, <2>2, <2>3, Zenon DEF PartsCoverStream
<1>7. SegmentsStartAtKeyframe
  BY <1>1, <1>2, Zenon DEF SegmentsStartAtKeyframe, Starts, Complete
<1>8. ReloadDelivers
  BY Zenon DEF HlsInv, Answers, Delivered, ReloadDelivers
<1>9. ASSUME NEW c \in Clients, conn[c].pc = "served", NEW k \in DOMAIN conn[c].list,
             conn[c].list[k].seq + Len(comp) >= curSeg.seq, NEW i \in DOMAIN conn[c].list[k].parts
      PROVE  LET s == conn[c].list[k]
             IN  /\ FindPart(s.seq, i - 1) = s.parts[i].data
                 /\ s.seq < curSeg.seq =>
                      i \in DOMAIN FindSegment(s.seq) /\ FindSegment(s.seq)[i] = s.parts[i].data
  <2> DEFINE s == conn[c].list[k]
  <2>1. conn[c].list \in Seq(PlaySegs)
    BY RequestIs, Zenon DEF Requests
  <2>2. k \in 1 .. Len(conn[c].list) /\ s \in PlaySegs
    BY <1>9, <2>1, NoElement, Zenon
  <2>3. i \in 1 .. Len(s.parts)
    BY <1>9, <2>2, SegmentParts, NoElement, Zenon
  <2>4. Grew(s, curSeg) \/ \E m \in 1 .. Len(comp) : Grew(s, comp[m])
    BY <1>9, <2>2, Zenon DEF HlsInv, Answers, Listed
  <2> HIDE DEF s
  <2>5. PICK x \in Complete \cup {curSeg} : Grew(s, x) /\ (s.seq < curSeg.seq => x \in Complete)
    <3>1. CASE Grew(s, curSeg)
      <4>1. curSeg.seq = s.seq /\ curSeg.seq \in Nat
        BY <1>1, <3>1, SegmentParts, Zenon DEF Grew
      <4>2. ~(s.seq < curSeg.seq)
        <5>1. ASSUME NEW a \in Nat PROVE ~(a < a)
          BY SMT
        <5> QED BY <4>1, <5>1, Zenon
      <4> QED BY <3>1, <4>2, Zenon
    <3>2. ASSUME NEW m \in 1 .. Len(comp), Grew(s, comp[m])
          PROVE  \E x \in Complete \cup {curSeg} : Grew(s, x) /\ (s.seq < curSeg.seq => x \in Complete)
      <4>1. comp[m] \in Complete
        BY <1>2, Zenon DEF Complete
      <4> QED BY <3>2, <4>1, Zenon
    <3> QED BY <2>4, <3>1, <3>2, Zenon
  <2>6. /\ FindPart(s.seq, i - 1) = s.parts[i].data
        /\ s.seq < curSeg.seq =>
             i \in DOMAIN FindSegment(s.seq) /\ FindSegment(s.seq)[i] = s.parts[i].data
    BY <2>2, <2>3, <2>5, Fetched, Zenon
  <2> QED BY <2>6, Zenon DEF s
<1>10. ListedIsServed
  BY <1>9, Zenon DEF ListedIsServed
<1> QED BY <1>6, <1>7, <1>8, <1>10, Zenon DEF PlaylistServes

\* av/format/llhls keeps its promise to the players: however the packets, the
\* codec changes, the waits and their wake-ups interleave, every packet is in one
\* part and in order, every segment starts with a keyframe, a blocking reload is
\* answered with the part it named or later ones, and what a playlist lists can
\* be fetched until its segment leaves the window.
THEOREM HlsServes == HlsSpec => []PlaylistServes
<1>1. HlsInit => HlsInv
  BY HlsBegins
<1>2. HlsInv /\ [HlsNext]_hlsVars => HlsInv'
  BY HlsStep
<1>3. HlsInv => PlaylistServes
  BY HlsInvServes
<1> QED BY <1>1, <1>2, <1>3, PTL DEF HlsSpec
=============================================================================
