------------------------------ MODULE Fmp4Mux ------------------------------
(***************************************************************************)
(* The operations of fmp4.Muxer, each from a muxer record to the muxer it  *)
(* leaves, the boxes it wrote and its error.  "room" is the number of      *)
(* calls to the underlying io.Writer that still succeed.                   *)
(***************************************************************************)
EXTENDS Fmp4Box

CONSTANTS NoTime,      \* an unset time
          MaxGap,      \* the 500 ms above which a gap is recorded
          MaxGaps      \* maxFragmentGaps

NewMuxer == [tracks |-> <<>>, seqNum |-> 0, emsgID |-> 0, written |-> FALSE,
             closed |-> FALSE, origin |-> NoTime, waiting |-> FALSE, index |-> <<>>,
             bytes |-> 0, start |-> 0, flushed |-> FALSE, lastVideo |-> NoTime, gaps |-> <<>>]

Result(m, out, err) == [m |-> m, out |-> out, err |-> err]
Fine(m) == Result(m, <<>>, "nil")

HasVideo(m) == \E i \in DOMAIN m.tracks : m.tracks[i].video
TrackOf(m, idx) == {i \in DOMAIN m.tracks : m.tracks[i].idx = idx}

\* WriteHeader: codecs fMP4 cannot hold are left out.
MuxHeader(m, streams, room) ==
  LET known  == SelectSeq(streams, LAMBDA s : Supported(s.codec))
      tracks == m.tracks \o [i \in DOMAIN known |-> NewTrack(known[i], i)]
      init   == InitSegment(tracks)
      named  == [m EXCEPT !.tracks = tracks]
      n      == m.bytes + SizeOfAll(init)
  IN  IF m.written THEN Result(m, <<>>, "already")
      ELSE IF tracks = <<>> THEN Result(m, <<>>, "unsupported")
      ELSE IF room = 0 THEN Result(named, <<>>, "write")
      ELSE Result([named EXCEPT !.bytes = n, !.start = n, !.written = TRUE,
                                !.waiting = HasVideo(named)], init, "nil")

FragPts(t) == Time(t.base, t.scale)
FragDur(t) == Time(SumOver(LAMBDA s : s.dur, t.samples), t.scale)

\* What a fragment of the buffered samples consists of, and its SidxEntry.
Fragment(m) == [emsgs |-> Emsgs(Active(m.tracks), m.emsgID),
                moof  |-> Moof(Active(m.tracks), m.seqNum + 1),
                mdat  |-> Mdat(Active(m.tracks))]
Writes(f) == (IF f.emsgs = <<>> THEN <<>> ELSE <<f.emsgs>>) \o << <<f.moof>>, <<f.mdat>> >>

FragOffset(m, emsgs) == m.bytes + SizeOfAll(emsgs)
Entry(m, f, t) == [pts |-> FragPts(t), dur |-> FragDur(t), offset |-> FragOffset(m, f.emsgs),
                   size |-> f.moof.size + f.mdat.size,
                   sap |-> t.video /\ t.samples[1].flags = "sync"]

\* flushFragment: up to three writes, of which the first k succeed; the index,
\* and the samples, only change once all of them have.
Emit(m, f, writes, k) ==
  LET out   == FlattenSeq(SubSeq(writes, 1, k))
      after == [m EXCEPT !.seqNum = @ + 1, !.emsgID = @ + Len(f.emsgs),
                         !.bytes = @ + SizeOfAll(out)]
  IN  IF k < Len(writes) THEN Result(after, out, "write")
      ELSE Result([after EXCEPT !.tracks = Cleared(@),
                                !.index = Append(@, Entry(m, f, Active(m.tracks)[1]))], out, "nil")

FlushFragment(m, room) ==
  LET Finish(patched, f, writes) == Emit(patched, f, writes, Min({room, Len(writes)}))
      Build(patched, f) == Finish(patched, f, Writes(f))
      Patch(patched) == Build(patched, Fragment(patched))
  IN  Patch([m EXCEPT !.tracks = Patched(@)])

FlushPending(m, room) == IF HasSamples(m.tracks) THEN FlushFragment(m, room) ELSE Fine(m)

\* The gap at a fragment boundary, measured from the normalised DTS of the
\* packet to the original DTS of the last one.
NoteGap(m, dts) ==
  LET gap == dts - m.lastVideo
  IN  IF m.lastVideo # NoTime /\ (gap < 0 \/ gap > MaxGap) /\ Len(m.gaps) < MaxGaps
        THEN [m EXCEPT !.gaps = Append(@, gap)] ELSE m

\* The packet is dropped: its stream is unknown, or the first video keyframe
\* has yet to come.
Drops(m, p) ==
  \/ TrackOf(m, p.idx) = {}
  \/ m.waiting /\ ~\E i \in TrackOf(m, p.idx) : m.tracks[i].video /\ p.key

\* What WritePacket does with a packet that is not dropped: a keyframe of the
\* video ends the fragment before it; without video every packet is a fragment,
\* and the first fragment with video ends with its second frame.
Accept(m, p, room) ==
  LET i     == CHOOSE j \in TrackOf(m, p.idx) : TRUE
      video == m.tracks[i].video
      begun == [m EXCEPT !.waiting = FALSE, !.origin = IF @ = NoTime THEN p.dts ELSE @]
      Ended(m1) == IF video /\ p.key THEN FlushPending(m1, room) ELSE Fine(m1)
      Noted(r, dts) == IF r.out = <<>> THEN r.m ELSE NoteGap([r.m EXCEPT !.flushed = TRUE], dts)
      Added(m2, q) == [m2 EXCEPT !.tracks[i] = AddSample(@, q),
                                 !.lastVideo = IF video THEN p.dts ELSE @]
      Eager(m3) == ~m3.flushed /\ video /\ ~p.key
      Early(m3) == IF ~HasVideo(m3) \/ Eager(m3)
                     THEN FlushFragment([m3 EXCEPT !.flushed = @ \/ Eager(m3)], room)
                     ELSE Fine(m3)
      Joined(r, s) == Result(s.m, r.out \o s.out, s.err)
      Stored(r, q) == IF r.err # "nil" THEN r ELSE Joined(r, Early(Added(Noted(r, q.dts), q)))
  IN  Stored(Ended(begun), [p EXCEPT !.dts = @ - begun.origin])

MuxPacket(m, p, room) ==
  IF ~m.written THEN Result(m, <<>>, "header")
  ELSE IF m.closed THEN Result(m, <<>>, "trailer")
  ELSE IF Drops(m, p) THEN Fine(m)
  ELSE Accept(m, p, room)

MuxFlush(m, room) == IF m.closed \/ ~m.written THEN Fine(m) ELSE FlushPending(m, room)

MuxTrailer(m, room) ==
  IF m.closed THEN Result(m, <<>>, "trailer")
  ELSE FlushPending([m EXCEPT !.closed = TRUE], room)

MuxCodecChange_NoFlush(m, changed, room) ==
  LET new(t) == LET c == SelectSeq(changed, LAMBDA s : s.idx = t.idx)
                IN  IF c = <<>> THEN t ELSE [NewTrack(Last(c), t.id) EXCEPT !.samples = t.samples]
      after  == [m EXCEPT !.tracks = [i \in DOMAIN @ |-> new(@[i])]]
  IN  Result(after, InitSegment(after.tracks), "nil")

\* WriteCodecChange: flush, replace the listed tracks up to one fMP4 cannot
\* hold, write a new init segment, whose size is not added to bytesWritten.
MuxCodecChange(m, changed, room) ==
  LET bad    == {j \in DOMAIN changed : /\ ~Supported(changed[j].codec)
                                        /\ TrackOf(m, changed[j].idx) # {}}
      used   == IF bad = {} THEN changed ELSE SubSeq(changed, 1, Min(bad) - 1)
      new(t) == LET c == SelectSeq(used, LAMBDA s : s.idx = t.idx)
                IN  IF c = <<>> THEN t ELSE NewTrack(Last(c), t.id)
      Replaced(n) == [n EXCEPT !.tracks = [i \in DOMAIN @ |-> new(@[i])]]
      writes(r)   == Cardinality({r.out[i].type : i \in DOMAIN r.out})
      Finish(r, after) == IF r.err # "nil" THEN r
                          ELSE IF bad # {} THEN Result(after, r.out, "unsupported")
                          ELSE IF room <= writes(r) THEN Result(after, r.out, "write")
                          ELSE Result(after, r.out \o InitSegment(after.tracks), "nil")
      Flushed(r)  == Finish(r, Replaced(r.m))
  IN  IF ~m.written \/ m.closed THEN Fine(m) ELSE Flushed(FlushPending(m, room))
=============================================================================
