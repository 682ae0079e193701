------------------------------ MODULE Segment ------------------------------
(***************************************************************************)
(* av/segment: SegmentMuxer records packets through an fmp4.Muxer and an   *)
(* AdaptiveWriter to a file and copies the fragments to a RingBuffer.  It  *)
(* is driven as the relay consumer drives it: a packet refused with        *)
(* ErrMuxerRotate makes the consumer finish the segment, open the next one *)
(* and write the packet again.  From any write on the disk may fail; the   *)
(* error of the bufio.Writer is sticky, so that all later writes fail too, *)
(* the retries of the NAS profile included.                                *)
(***************************************************************************)
EXTENDS Fmp4Mux

CONSTANTS Streams, MaxSegmentBytes, Prealloc, FixedSize,
          VideoStep, AudioStep, AudioKey,  \* AudioKey: the flag audio comes with
          MaxPackets, MaxFaults

VARIABLES mux,         \* SegmentMuxer.inner
          disk,        \* the boxes accepted by the AdaptiveWriter
          written,     \* AdaptiveWriter.written
          failed,      \* bufio.Writer.err
          hasKey, frag, closed,            \* fields of SegmentMuxer
          ring,        \* RingBuffer.fragments: [dts, key, data]
          held,        \* the packet the consumer has to write again, or <<>>
          pc,          \* the consumer: "write", "trailer", "close", "open", "dead"
          npkts, clock, faults,
          done,        \* history: what the closed segments were given, [boxes, ok, valid]
          log,         \* history: the packets offered from the first keyframe on
          eager        \* history: the fragments flushed by a packet that was no keyframe

segState == <<mux, disk, written, failed, hasKey, frag, closed, ring>>
segVars  == <<mux, disk, written, failed, hasKey, frag, closed, ring, held, pc,
              npkts, clock, faults, done, log, eager>>

NoFrag == [valid |-> FALSE, dts |-> 0, key |-> FALSE]
D == INSTANCE Fmp4Demux

\* The numbers of writes that may succeed from now on in one call.
Rooms == IF failed THEN {0} ELSE IF faults < MaxFaults THEN {0, 1, 9} ELSE {9}

\* NewSegmentMuxer and WriteHeader.
Fresh == MuxHeader(NewMuxer, Streams, 9)
Init == /\ mux = Fresh.m /\ disk = Fresh.out /\ written = SizeOfAll(disk)
        /\ failed = FALSE /\ hasKey = FALSE /\ frag = NoFrag /\ closed = FALSE
        /\ ring = <<>> /\ held = <<>> /\ pc = "write"
        /\ npkts = 0 /\ clock = [video |-> 0, audio |-> 0] /\ faults = 0
        /\ done = <<>> /\ log = <<>> /\ eager = {}

\* AdaptiveWriter.Write of what a call of the muxer wrote: a refused write
\* counts the bytes the buffer took of it (here one).
Writer(r) == /\ mux' = r.m
             /\ disk' = disk \o r.out
             /\ failed' = (failed \/ r.err = "write")
             /\ written' = written + SizeOfAll(r.out) + (IF r.err = "write" THEN 1 ELSE 0)
             /\ faults' = IF failed' # failed THEN faults + 1 ELSE faults

\* pushFragment: the bytes captured during the call, under the pending label.
Push_NoReset(data, f) ==
  IF data = <<>> \/ ~f.valid THEN ring
  ELSE Append(ring, [dts |-> f.dts, key |-> f.key,
                     data |-> (IF ring = <<>> THEN <<>> ELSE Last(ring).data) \o data])
Push(data, f) == IF data = <<>> \/ ~f.valid THEN ring
                 ELSE Append(ring, [dts |-> f.dts, key |-> f.key, data |-> data])

Observe(f, p) == IF f.valid THEN f ELSE [valid |-> TRUE, dts |-> p.dts, key |-> p.key]

MustRotate_AnyPacket(p) == MaxSegmentBytes > 0 /\ hasKey /\ written >= MaxSegmentBytes
MustRotate(p) == /\ MaxSegmentBytes > 0 /\ p.key /\ hasKey
                 /\ written >= MaxSegmentBytes

\* WritePacket: with video the label is that of the group of pictures that a
\* keyframe ends; without, every packet is a fragment.
Wrote(p, r) ==
  LET ends  == HasVideo(mux) /\ p.key /\ frag.valid
      label == IF HasVideo(mux) THEN frag ELSE Observe(frag, p)
  IN  /\ Writer(r)
      /\ hasKey' = (hasKey \/ p.key)
      /\ ring' = IF r.err = "nil" /\ (ends \/ ~HasVideo(mux)) THEN Push(r.out, label) ELSE ring
      /\ frag' = IF r.err # "nil" THEN frag
                 ELSE IF ~HasVideo(mux) THEN NoFrag
                 ELSE Observe(IF ends THEN NoFrag ELSE frag, p)
      /\ eager' = IF r.out # <<>> /\ ~ends /\ HasVideo(mux) THEN eager \cup {r.out} ELSE eager
      /\ pc' = IF r.err = "nil" THEN "write" ELSE "dead"
WritePacket(p, room) == Wrote(p, MuxPacket(mux, p, room))

\* The consumer offers the next packet: written, or kept for the next segment.
Offer(p, room) ==
  /\ pc = "write" /\ held = <<>> /\ npkts < MaxPackets
  /\ npkts' = npkts + 1
  /\ log' = IF log = <<>> /\ ~(p.idx = 0 /\ p.key) THEN log ELSE Append(log, p)
  /\ IF MustRotate(p)
       THEN /\ held' = <<p>> /\ pc' = "trailer"
            /\ UNCHANGED <<segState, faults, eager>>
       ELSE /\ WritePacket(p, room)
            /\ UNCHANGED <<closed, held>>
  /\ UNCHANGED done

OfferVideo(key, room) ==
  /\ Offer([idx |-> 0, key |-> key, dts |-> clock.video, dur |-> 0, cts |-> 0,
            data |-> <<npkts, npkts>>, meta |-> FALSE], room)
  /\ clock' = [clock EXCEPT !.video = @ + VideoStep]

OfferAudio(room) ==
  /\ clock.audio <= clock.video
  /\ Offer([idx |-> 1, key |-> AudioKey, dts |-> clock.audio, dur |-> AudioStep, cts |-> 0,
            data |-> <<npkts>>, meta |-> FALSE], room)
  /\ clock' = [clock EXCEPT !.audio = @ + AudioStep]

\* The relay ends: the consumer's goroutine writes the trailer, also after a
\* packet failed.
Stop == /\ pc = "dead" \/ (pc = "write" /\ held = <<>>)
        /\ pc' = "trailer"
        /\ UNCHANGED <<segState, held, npkts, clock, faults, done, log, eager>>

\* SegmentMuxer.WriteTrailer flushes the last fragment into the file and ring.
Ended(r) == /\ Writer(r)
            /\ ring' = IF r.err = "nil" THEN Push(r.out, frag) ELSE ring
            /\ frag' = IF r.err = "nil" THEN NoFrag ELSE frag
WriteTrailer(room) ==
  /\ pc = "trailer"
  /\ Ended(MuxTrailer(mux, room))
  /\ pc' = "close"
  /\ UNCHANGED <<hasKey, closed, held, npkts, clock, done, log, eager>>

\* What AdaptiveWriter.Close leaves behind the boxes: a free box to fill a
\* file of fixed size, or zeros when no box header fits.
Padding_Zeros(n) == IF n >= Prealloc \/ ~FixedSize THEN <<>>
                    ELSE <<[type |-> "torn", size |-> Prealloc - n]>>
Padding(n) == IF n >= Prealloc \/ ~FixedSize THEN <<>>
           ELSE <<[type |-> IF Prealloc - n < 8 THEN "torn" ELSE "free", size |-> Prealloc - n]>>

\* findMoofBox: a moof among the boxes that can be walked.
ValidateSegment(file) == \E i \in DOMAIN file : file[i].type = "moof"

\* SegmentMuxer.Close after WriteTrailer: the sidx goes to the disk only, the
\* writer is flushed, padded and closed, onClose is told.  When the flush
\* fails the file keeps some of the boxes.
IndexBox == IF mux.index = <<>> THEN <<>>
            ELSE LET v == SelectSeq(mux.tracks, LAMBDA t : t.video)
                 IN  <<Sidx(mux.index, IF v = <<>> THEN 90000 ELSE v[1].scale, mux.start)>>

Close(ok) ==
  /\ pc = "close"
  /\ closed' = TRUE /\ failed' = ~ok
  /\ faults' = IF failed' # failed THEN faults + 1 ELSE faults
  /\ disk' = IF failed THEN disk ELSE disk \o IndexBox
  /\ written' = IF failed THEN written ELSE written + SizeOfAll(IndexBox)
  /\ \E kept \in IF ok THEN {Len(disk')} ELSE 0 .. Len(disk') :
       done' = Append(done, [boxes |-> IF ok THEN disk' \o Padding(written') ELSE disk',
                             ok |-> ok, valid |-> ValidateSegment(SubSeq(disk', 1, kept))])
  /\ pc' = IF held = <<>> THEN "end" ELSE "open"
  /\ UNCHANGED <<mux, hasKey, frag, ring, held, npkts, clock, log, eager>>

\* The consumer's MuxerFactory makes the next segment, and the packet that
\* was refused is written to it.
Begin(r) == mux' = r.m /\ disk' = Fresh.out \o r.out
Reopen ==
  LET p == held[1]
  IN  /\ pc = "open"
      /\ Begin(MuxPacket(Fresh.m, p, 9))
      /\ written' = SizeOfAll(disk')
      /\ failed' = FALSE /\ closed' = FALSE /\ held' = <<>>
      /\ hasKey' = p.key /\ frag' = Observe(NoFrag, p)
      /\ pc' = "write"
      /\ UNCHANGED <<ring, npkts, clock, faults, done, log, eager>>

Next == \/ \E room \in Rooms : \/ \E key \in BOOLEAN : OfferVideo(key, room)
                               \/ OfferAudio(room)
                               \/ WriteTrailer(room)
        \/ \E room \in Rooms : Close(room = 9)
        \/ Stop \/ Reopen

Spec == Init /\ [][Next]_segVars

-----------------------------------------------------------------------------
Data(ps, idx) == LET s == SelectSeq(ps, LAMBDA p : p.idx = idx)
                 IN  [j \in DOMAIN s |-> s[j].data]
Buffered(idx) == LET t == SelectSeq(mux.tracks, LAMBDA x : x.idx = idx)[1]
                 IN  [j \in DOMAIN t.samples |-> t.samples[j].data]
Closed == FlattenSeq([i \in DOMAIN done |-> D!ReadAll(done[i].boxes).pkts])
Open   == IF closed THEN <<>> ELSE D!ReadAll(disk).pkts

\* As long as the disk works, the segments hold every packet of the stream
\* from the first keyframe on, in order, over any number of rotations; what
\* is still in memory follows them.
RotationKeepsEverything ==
  (faults = 0 /\ ~AudioKey) =>
    \A idx \in {0, 1} :
      Data(log, idx) = Data(Closed \o Open, idx) \o (IF closed THEN <<>> ELSE Buffered(idx))
                         \o Data(held, idx)

\* Every segment closed without an error is reported valid exactly when it has
\* a fragment, and plays to io.EOF, so that a chain of segments goes on with
\* the next one, unless 1 to 7 bytes were left to pad.
ClosedSegmentPlays ==
  \A i \in DOMAIN done : done[i].ok =>
    LET f == done[i].boxes
    IN  /\ done[i].valid <=> (D!ReadAll(f).pkts # <<>>)
        /\ \/ D!ReadAll(f).end = "EOF"
           \/ f[Len(f)].type = "torn" /\ f[Len(f)].size \in 1 .. 7

\* The ring holds whole fragments that were recorded, each once and in the
\* order of the recording, whatever fails.  Of those the muxer flushed before
\* the keyframe that ends the group of pictures it misses exactly the first.
Recorded == FlattenSeq([i \in DOMAIN done |-> done[i].boxes]) \o (IF closed THEN <<>> ELSE disk)
Fragments(boxes) == SelectSeq(boxes, LAMBDA b : b.type \in {"moof", "mdat"})
InRing == FlattenSeq([i \in DOMAIN ring |-> ring[i].data])
Missed(b) == \E e \in eager : b \in ToSet(e)
RingIsRecorded ==
  /\ \A i \in DOMAIN ring : Len(ring[i].data) % 2 = 0
  /\ faults = 0 => InRing = SelectSeq(Fragments(Recorded), LAMBDA b : ~Missed(b))
  /\ LET from == Fragments(Recorded)
     IN  \A i, j \in DOMAIN InRing : i < j =>
           \E k, l \in DOMAIN from : k < l /\ from[k] = InRing[i] /\ from[l] = InRing[j]
=============================================================================
