------------------------------- MODULE Chain -------------------------------
(***************************************************************************)
(* av/chain/chain.go: a ChainingDemuxer plays the recorded segments one    *)
(* after the other as a single stream.  One goroutine calls ReadPacket and *)
(* Seek; Close may come from another one at any time.  The segment source  *)
(* and the segments' demuxers are external: Next and OpenAt may fail, and  *)
(* so may GetCodecs, SeekToKeyframe and every read of a closed demuxer.    *)
(***************************************************************************)
EXTENDS Naturals, Sequences, FiniteSets

CONSTANTS Segs,        \* the recording: a sequence of [streams, pkts], each
                       \* packet a [dts, dur] of the segment's own timeline
          GapAt,       \* the segments LastGap reports a gap before
          MaxOpen,     \* bound on the demuxers opened
          MaxClose     \* bound on the calls of Close

StreamInfo == [idx : Nat, type : STRING, tag : STRING, dim : STRING]
Packets    == [dts : Nat, dur : Nat]
Segments   == [streams : Seq(StreamInfo), pkts : Seq(Packets)]

\* What a recording is: it has a segment; one with packets has
\* streams; and whether a codec has a tag or dimensions depends on its type
\* alone, as it does in Go, where both are methods of the codec's type.
Recording ==
  /\ Segs \in Seq(Segments) /\ Len(Segs) > 0
  /\ \A i \in 1 .. Len(Segs) : Segs[i].pkts # <<>> => Segs[i].streams # <<>>
  /\ \A i, j \in 1 .. Len(Segs) :
       \A k \in 1 .. Len(Segs[i].streams), l \in 1 .. Len(Segs[j].streams) :
         Segs[i].streams[k].type = Segs[j].streams[l].type =>
           /\ Segs[i].streams[k].tag = "none" <=> Segs[j].streams[l].tag = "none"
           /\ Segs[i].streams[k].dim = "none" <=> Segs[j].streams[l].dim = "none"
ASSUME RecordingAssumption == Recording

VARIABLES
  dmx,       \* the demuxers opened: [seg, pos, open]
  cur,       \* ChainingDemuxer.cur, an index into dmx or 0 for nil
  srcIdx,    \* sliceSource.idx: the segment Next opens
  dtsOff, lastEnd, disc, prevStreams, pending,  \* the fields of that name
  rd,        \* the reading goroutine: [pc, d], d the demuxer in its hands
  closing,   \* the demuxers a Close has taken and not yet closed
  closes,    \* the number of Closes called
  out,       \* history: the last packet returned since Seek, or <<>>
  view,      \* history: the codecs the caller was last told
  torn       \* history: the demuxers whose GetCodecs failed in ReadPacket

opened    == <<dmx, srcIdx>>
stamps    == <<dtsOff, lastEnd, disc, prevStreams, pending>>
hist      == <<out, view, torn>>
chainVars == <<dmx, cur, srcIdx, dtsOff, lastEnd, disc, prevStreams, pending,
               rd, closing, closes, out, view, torn>>

Idle == [pc |-> "idle", d |-> 0]
At(pc, d) == [pc |-> pc, d |-> d]
SegOf(d) == Segs[dmx[d].seg]
Shut(d) == [dmx EXCEPT ![d].open = FALSE]

\* NewChainingDemuxer and the GetCodecs its contract asks for first.
Init ==
  /\ dmx = <<[seg |-> 1, pos |-> 0, open |-> TRUE]>>
  /\ cur = 1 /\ srcIdx = 2
  /\ dtsOff = 0 /\ lastEnd = 0 /\ disc = FALSE
  /\ prevStreams = Segs[1].streams /\ pending = <<>>
  /\ rd = Idle /\ closing = {} /\ closes = 0
  /\ out = <<>> /\ view = prevStreams /\ torn = {}

-----------------------------------------------------------------------------
(* ReadPacket. *)

\* Take cur under the lock; nil is io.EOF.
ReadCall ==
  /\ rd.pc = "idle" /\ cur # 0
  /\ rd' = At("read", cur)
  /\ UNCHANGED <<opened, stamps, cur, closing, closes, hist>>

\* What a packet leaves with: its DTS is moved behind the earlier segments.
Stamped(p, d) == [seg |-> dmx[d].seg, dmx |-> d, dts |-> p.dts + dtsOff,
                  end |-> p.dts + dtsOff + p.dur, disc |-> disc, codecs |-> pending]

ReadOne ==
  LET d == rd.d
      q == Stamped(SegOf(d).pkts[dmx[d].pos + 1], d)
  IN  /\ rd.pc = "read" /\ dmx[d].open /\ dmx[d].pos < Len(SegOf(d).pkts)
      /\ dmx' = [dmx EXCEPT ![d].pos = @ + 1]
      /\ lastEnd' = IF q.end > lastEnd THEN q.end ELSE lastEnd
      /\ disc' = FALSE /\ pending' = <<>>
      /\ out' = q
      /\ view' = IF pending = <<>> THEN view ELSE pending
      /\ rd' = Idle
      /\ UNCHANGED <<cur, srcIdx, dtsOff, prevStreams, closing, closes, torn>>

\* Any error but io.EOF goes to the caller, that of a closed file too.
ReadError ==
  /\ rd.pc = "read"
  /\ rd' = Idle
  /\ UNCHANGED <<opened, stamps, cur, closing, closes, hist>>

\* io.EOF: the segment is closed and the source asked for the next one.
ReadEnd ==
  /\ rd.pc = "read" /\ dmx[rd.d].open /\ dmx[rd.d].pos = Len(SegOf(rd.d).pkts)
  /\ dmx' = Shut(rd.d)
  /\ rd' = At("next", 0)
  /\ UNCHANGED <<stamps, cur, srcIdx, closing, closes, hist>>

\* sliceSource.Next moves on even when it cannot open the file.
NextFails ==
  /\ rd.pc = "next"
  /\ srcIdx' = IF srcIdx > Len(Segs) THEN srcIdx ELSE srcIdx + 1
  /\ cur' = 0
  /\ rd' = Idle
  /\ UNCHANGED <<dmx, stamps, closing, closes, hist>>

NextOpens ==
  /\ rd.pc = "next" /\ srcIdx <= Len(Segs) /\ Len(dmx) < MaxOpen
  /\ dmx' = Append(dmx, [seg |-> srcIdx, pos |-> 0, open |-> TRUE])
  /\ srcIdx' = srcIdx + 1
  /\ rd' = At("install", Len(dmx'))
  /\ UNCHANGED <<stamps, cur, closing, closes, hist>>

\* The new demuxer is installed whatever became of the old one, and a gap is
\* kept for the next packet.
Install ==
  /\ rd.pc = "install"
  /\ cur' = rd.d
  /\ disc' = (disc \/ dmx[rd.d].seg \in GapAt)
  /\ rd' = At("codecs", rd.d)
  /\ UNCHANGED <<opened, dtsOff, lastEnd, prevStreams, pending, closing, closes, hist>>

\* Streams differ in number, index, codec type, or in a tag or in dimensions
\* that both codecs have.
StreamsChanged(p, n) ==
  \/ Len(p) # Len(n)
  \/ \E i \in 1 .. Len(p) :
       \/ p[i].idx # n[i].idx
       \/ p[i].type # n[i].type
       \/ p[i].tag # n[i].tag /\ "none" \notin {p[i].tag, n[i].tag}
       \/ p[i].dim # n[i].dim /\ "none" \notin {p[i].dim, n[i].dim}

\* What the next packet has to announce, given the new segment's streams.
Announce_OnlyIfNothingPending(c) ==
  IF ~StreamsChanged(prevStreams, c) \/ pending # <<>> THEN pending ELSE c
Announce(c) == IF StreamsChanged(prevStreams, c) THEN c ELSE pending

Rebase_KeepsOffset == dtsOff
Rebase == lastEnd

Codecs ==
  /\ rd.pc = "codecs" /\ dmx[rd.d].open
  /\ pending' = Announce(SegOf(rd.d).streams)
  /\ prevStreams' = SegOf(rd.d).streams
  /\ dtsOff' = Rebase
  /\ rd' = At("read", rd.d)
  /\ UNCHANGED <<opened, lastEnd, disc, cur, closing, closes, hist>>

\* GetCodecs fails, always on a closed demuxer: neither the offset nor the
\* codecs are updated, and the demuxer stays installed.
CodecsFail ==
  /\ rd.pc = "codecs"
  /\ torn' = torn \cup {rd.d}
  /\ rd' = Idle
  /\ UNCHANGED <<opened, stamps, cur, closing, closes, out, view>>

-----------------------------------------------------------------------------
(* Seek, on the goroutine that reads. *)

SeekCall ==
  /\ rd.pc = "idle" /\ Len(dmx) < MaxOpen
  /\ cur' = 0
  /\ dmx' = IF cur = 0 THEN dmx ELSE Shut(cur)
  /\ rd' = At("openAt", 0)
  /\ UNCHANGED <<stamps, srcIdx, closing, closes, hist>>

OpenAt(s) ==
  /\ rd.pc = "openAt"
  /\ dmx' = Append(dmx, [seg |-> s, pos |-> 0, open |-> TRUE])
  /\ srcIdx' = s + 1
  /\ rd' = At("seekCodecs", Len(dmx'))
  /\ UNCHANGED <<stamps, cur, closing, closes, hist>>

OpenAtFails ==
  /\ rd.pc = "openAt"
  /\ rd' = Idle
  /\ UNCHANGED <<opened, stamps, cur, closing, closes, hist>>

SeekCodecs ==
  /\ rd.pc = "seekCodecs"
  /\ pending' = Announce(SegOf(rd.d).streams)
  /\ prevStreams' = SegOf(rd.d).streams
  /\ rd' = At("seekKey", rd.d)
  /\ UNCHANGED <<opened, dtsOff, lastEnd, disc, cur, closing, closes, hist>>

SeekFails_LeavesOpen ==
  /\ rd.pc \in {"seekCodecs", "seekKey"}
  /\ rd' = Idle
  /\ UNCHANGED <<opened, stamps, cur, closing, closes, hist>>

\* GetCodecs or SeekToKeyframe fails: the demuxer is closed again, cur is nil.
SeekFails ==
  /\ rd.pc \in {"seekCodecs", "seekKey"}
  /\ dmx' = Shut(rd.d)
  /\ rd' = Idle
  /\ UNCHANGED <<stamps, srcIdx, cur, closing, closes, hist>>

\* Positioned on a packet k of the segment; the timeline starts afresh.
SeekDone(k) ==
  /\ rd.pc = "seekKey"
  /\ dmx' = [dmx EXCEPT ![rd.d].pos = k]
  /\ cur' = rd.d
  /\ dtsOff' = 0 /\ lastEnd' = 0
  /\ out' = <<>>
  /\ rd' = Idle
  /\ UNCHANGED <<srcIdx, disc, prevStreams, pending, closing, closes, view, torn>>

-----------------------------------------------------------------------------
(* Close: take cur under the lock, close it after releasing the lock. *)

CloseTake ==
  /\ closes < MaxClose
  /\ closes' = closes + 1
  /\ closing' = closing \cup ({cur} \ {0})
  /\ cur' = 0
  /\ UNCHANGED <<opened, stamps, rd, hist>>

CloseCur(d) ==
  /\ d \in closing
  /\ dmx' = Shut(d)
  /\ closing' = closing \ {d}
  /\ UNCHANGED <<srcIdx, stamps, cur, rd, closes, hist>>

Read == ReadCall \/ ReadOne \/ ReadError \/ ReadEnd \/ NextFails \/ NextOpens
          \/ Install \/ Codecs \/ CodecsFail

Seek == \/ SeekCall \/ OpenAtFails \/ SeekCodecs \/ SeekFails
        \/ \E s \in 1 .. Len(Segs) : OpenAt(s)
        \/ rd.pc = "seekKey" /\ \E k \in 0 .. Len(SegOf(rd.d).pkts) : SeekDone(k)

Close == CloseTake \/ \E d \in closing : CloseCur(d)

Next == Read \/ Seek \/ Close

Spec == Init /\ [][Next]_chainVars

-----------------------------------------------------------------------------
\* Every demuxer that is open is installed, or in the hands of a call that
\* has yet to install or close it: no segment file is lost sight of, however
\* Close interleaves with ReadPacket and Seek and whichever call fails.
NothingOpenIsLost ==
  \A d \in 1 .. Len(dmx) :
    dmx[d].open => d \in {cur, rd.d} \cup closing

\* A packet of a new segment starts where the packets returned before ended,
\* so DTS never goes back over a segment boundary, empty segments, gaps and
\* segments that cannot be opened included.  A segment whose GetCodecs failed
\* is played with the old offset and is the exception.
NoOverlap ==
  [][ (out # <<>> /\ out' \notin {<<>>, out} /\ out'.dmx \notin torn \cup {out.dmx})
        => out'.dts >= out.end ]_chainVars

\* The caller knows the codecs of every packet it gets: a change at a segment
\* boundary or at a Seek comes with the first packet behind it, also when a
\* Seek failed half-way or the segment that brought the change was empty.
ViewerKnowsCodecs ==
  (out # <<>> /\ out.dmx \notin torn) => view = Segs[out.seg].streams

\* A chain of segments is one stream.
ChainIsOneStream == NoOverlap /\ []ViewerKnowsCodecs
=============================================================================
