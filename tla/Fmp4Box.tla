------------------------------ MODULE Fmp4Box ------------------------------
(***************************************************************************)
(* av/format/fmp4: how samples are buffered and laid out in the boxes of a *)
(* fragment, shared by Muxer (Fmp4Mux) and FragmentWriter (LLHLS).  A box  *)
(* is a record of its type, its size in bytes and the fields a reader      *)
(* looks at; a media payload is a sequence of bytes.                       *)
(***************************************************************************)
EXTENDS Integers, SequencesExt, FiniteSetsExt

CONSTANTS Second,      \* the units of time.Duration in a second ...
          Millisecond  \* ... and in a millisecond

SumOver(f(_), s) == MapThenSumSet(LAMBDA i : f(s[i]), DOMAIN s)

\* Go's division rounds towards zero.
Quot(a, b) == IF a >= 0 THEN a \div b ELSE -((-a) \div b)

\* dtsToTimescale, durationToTimescale and ticksToDuration.
Ticks(d, scale) == Quot(d * scale, Second)
Time(t, scale)  == Quot(t * Second, scale)

Box(n)     == 8 + n       \* makeBox: the size and the type come first
FullBox(n) == Box(4 + n)  \* makeFullBox: then the version and the flags
SizeOf(b)  == b.size
SizeOfAll(boxes) == SumOver(SizeOf, boxes)

-----------------------------------------------------------------------------
(* Tracks and samples. *)

\* The codecs fMP4 holds, and the sample entry each is stored in.
EntryType == [h264 |-> "avc1", h265 |-> "hev1", aac |-> "mp4a", flac |-> "fLaC"]
Supported(codec) == codec.kind \in DOMAIN EntryType

NewTrack(s, id) == [idx |-> s.idx, id |-> id, codec |-> s.codec,
                    video |-> s.codec.kind \in {"h264", "h265"},
                    scale |-> s.scale, samples |-> <<>>, base |-> 0]

MakeSample(p, t) ==
  [dur  |-> Ticks(p.dur, t.scale), dts |-> Ticks(p.dts, t.scale),
   cts  |-> Ticks(p.cts, t.scale), size |-> Len(p.data), data |-> p.data,
   flags |-> IF ~t.video THEN "zero" ELSE IF p.key THEN "sync" ELSE "nonsync",
   meta |-> p.meta, ms |-> Quot(p.dts + p.cts, Millisecond)]

\* A sample without a duration lasts until the next one.
BackFill(samples, dts) ==
  LET n == Len(samples)
  IN  IF n > 0 /\ samples[n].dur = 0 /\ dts > samples[n].dts
        THEN [samples EXCEPT ![n].dur = dts - samples[n].dts] ELSE samples

AddSample(t, p) ==
  LET dts == Ticks(p.dts, t.scale)
  IN  [t EXCEPT !.base = IF t.samples = <<>> THEN dts ELSE @,
                !.samples = Append(BackFill(@, dts), MakeSample(p, t))]

HasSamples(tracks) == \E i \in DOMAIN tracks : tracks[i].samples # <<>>

\* The last sample of a fragment has no successor: it lasts as long as the
\* one before it.
PatchLast(t) ==
  LET n == Len(t.samples)
  IN  IF n >= 2 /\ t.samples[n].dur = 0
        THEN [t EXCEPT !.samples[n].dur = t.samples[n - 1].dur] ELSE t
Patched(tracks) == [i \in DOMAIN tracks |-> PatchLast(tracks[i])]
Cleared(tracks) == [i \in DOMAIN tracks |-> [tracks[i] EXCEPT !.samples = <<>>]]
Active(tracks)  == SelectSeq(tracks, LAMBDA t : t.samples # <<>>)

-----------------------------------------------------------------------------
(* A fragment: emsg boxes, moof, mdat. *)

PerSampleSize(t) == IF t.video THEN 16 ELSE 8

EstimateMoofSize_NoOffsetField(ts) ==
  8 + 16 + SumOver(LAMBDA t : 8 + 16 + 20 + 12 + 4 + Len(t.samples) * PerSampleSize(t), ts)
\* The size of the moof is needed before it is built.
EstimateMoofSize(ts) ==
  8 + 16 + SumOver(LAMBDA t : 8 + 16 + 20 + 12 + 8 + Len(t.samples) * PerSampleSize(t), ts)

\* The size buildMoof really produces: mfhd, then tfhd, tfdt, trun per track.
TrunSize(t)  == FullBox(4 + 4 + Len(t.samples) * (IF t.video THEN 4 * 4 ELSE 2 * 4))
MoofSize(ts) == Box(FullBox(4) + SumOver(LAMBDA t : Box(FullBox(4) + FullBox(8) + TrunSize(t)), ts))

\* Where the samples of the i-th track start, counted from the moof.
DataOffset(ts, i) ==
  EstimateMoofSize(ts) + 8
    + SumOver(LAMBDA t : SumOver(SizeOf, t.samples), SubSeq(ts, 1, i - 1))

\* Only the runs of video tracks have flags and composition offsets.
Trun(t) == [j \in DOMAIN t.samples |->
             LET s == t.samples[j]
             IN  [dur |-> s.dur, size |-> s.size,
                  flags |-> IF t.video THEN s.flags ELSE "default",
                  cts |-> IF t.video THEN s.cts ELSE 0]]

Moof(ts, seqNum) ==
  [type |-> "moof", size |-> MoofSize(ts), seqNum |-> seqNum,
   trafs |-> [i \in DOMAIN ts |-> [id |-> ts[i].id, base |-> ts[i].base,
                                   offset |-> DataOffset(ts, i), run |-> Trun(ts[i])]]]

AllSamples(ts) == FlattenSeq([i \in DOMAIN ts |-> ts[i].samples])

Mdat(ts) ==
  LET all     == AllSamples(ts)
      payload == FlattenSeq([j \in DOMAIN all |-> all[j].data])
  IN  [type |-> "mdat", size |-> Box(Len(payload)), payload |-> payload]

\* collectEmsg: an event for every sample with analytics, numbered on.
Emsgs(ts, id) ==
  LET marked == SelectSeq(AllSamples(ts), LAMBDA s : s.meta)
  IN  [j \in DOMAIN marked |-> [type |-> "emsg", size |-> FullBox(21 + 1 + 20 + 1),
                                ms |-> marked[j].ms, id |-> id + j - 1]]

\* buildStsd: the sample entry of the codec, with its configuration in it.
SampleEntry(codec) == [type |-> EntryType[codec.kind], conf |-> codec.conf]

\* buildTrak: the boxes of it that a reader looks at.
TrakBox(t) == [tkhd |-> t.id, mdhd |-> t.scale, stsd |-> SampleEntry(t.codec),
               hdlr |-> IF t.video THEN "vide" ELSE "soun"]

\* buildInitSegment; the moov's own size does not matter.
InitSegment(tracks) ==
  << [type |-> "ftyp", size |-> Box(24)],
     [type |-> "moov", size |-> Box(100 * Len(tracks)),
      traks |-> [i \in DOMAIN tracks |-> TrakBox(tracks[i])]] >>

\* BuildSidx: every reference spans the bytes up to the next fragment.
RefSize(index, i) == IF i < Len(index) THEN index[i + 1].offset - index[i].offset
                                       ELSE index[i].size

Sidx(index, scale, anchor) ==
  [type |-> "sidx", size |-> FullBox(28 + 12 * Len(index)), scale |-> scale,
   earliest |-> Ticks(index[1].pts, scale), first |-> index[1].offset - anchor,
   refs |-> [i \in DOMAIN index |-> [size |-> RefSize(index, i), dur |-> Ticks(index[i].dur, scale),
                                     sap |-> index[i].sap]]]
=============================================================================
