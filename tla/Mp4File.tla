------------------------------ MODULE Mp4File ------------------------------
(***************************************************************************)
(* av/format/mp4: the Muxer that buffers every sample and writes ftyp,     *)
(* moov and mdat at the end, and the Demuxer that finds each sample        *)
(* through the tables of the moov.  The offsets in the moov come after a   *)
(* moov whose size depends on the tables, so it is built twice.            *)
(***************************************************************************)
EXTENDS Integers, SequencesExt, FiniteSetsExt

CONSTANTS Second,                 \* the units of time.Duration in a second
          Tracks,                 \* the streams declared: [idx, scale, video, known], in order
          Packets,                \* what a packet may be: [dur, cts, key, size]
          MaxPackets, MaxFaults

VARIABLES samples,                \* samples[t]: mp4Track.samples
          written, closed,        \* WriteHeader and WriteTrailer have been called
          file,                   \* the bytes written
          input, faults           \* history: the packets taken; failed writes

mp4Vars == <<samples, written, closed, file, input, faults>>

SumOf(s, f(_)) == FoldLeft(LAMBDA n, x : n + f(x), 0, s)
Quot(a, b) == IF a >= 0 THEN a \div b ELSE -((-a) \div b)
\* durationToTicks, ticksToDuration.
ToTicks(d, scale) == Quot(d * scale, Second)
ToDuration(n, scale) == Quot(n * Second, scale)
Box(n) == 8 + n
FullBox(n) == 12 + n

\* WriteHeader passes over codecs it does not know; the others are numbered anew.
Known == SelectSeq(Tracks, LAMBDA t : t.known)
Init == /\ samples = <<>> /\ written = FALSE /\ closed = FALSE /\ file = <<>>
        /\ input = <<>> /\ faults = 0

-----------------------------------------------------------------------------
\* buildStts, buildCtts: runs of equal values.
RunLength(s) ==
  FoldLeft(LAMBDA runs, v : IF runs # <<>> /\ Last(runs).value = v
                              THEN [runs EXCEPT ![Len(runs)].count = @ + 1]
                              ELSE Append(runs, [count |-> 1, value |-> v]), <<>>, s)
Size(s) == Len(s.data)
Durations(ss) == [i \in 1 .. Len(ss) |-> ss[i].dur]
Offsets(ss) == [i \in 1 .. Len(ss) |-> ss[i].cts]
BuildStts(ss) == RunLength(Durations(ss))
BuildCtts(ss) == IF \A i \in DOMAIN ss : ss[i].cts = 0 THEN <<>> ELSE RunLength(Offsets(ss))
BuildStss(ss) == SelectSeq([i \in 1 .. Len(ss) |-> i], LAMBDA i : ss[i].key)
BuildStco(ss, base) == [i \in 1 .. Len(ss) |-> base + SumOf(SubSeq(ss, 1, i - 1), Size)]

\* buildTrak and the boxes within it, down to the tables of the stbl.
BuildTrak(t, ss, base) ==
  [video |-> Known[t].video, scale |-> Known[t].scale,
   stts |-> BuildStts(ss), ctts |-> BuildCtts(ss),
   stss |-> IF Known[t].video THEN BuildStss(ss) ELSE <<>>,
   stsc |-> IF ss = <<>> THEN <<>> ELSE <<[first |-> 1, spc |-> 1]>>,
   stsz |-> [i \in 1 .. Len(ss) |-> Size(ss[i])], stco |-> BuildStco(ss, base)]
\* The bytes of the boxes; those of tkhd, mdhd, hdlr, vmhd or smhd, dinf and
\* stsd do not depend on the samples.
FixedBytes == 400
TrakSize(k) ==
  Box(FixedBytes + FullBox(4 + 8 * Len(k.stts))
      + (IF k.ctts = <<>> THEN 0 ELSE FullBox(4 + 8 * Len(k.ctts)))
      + (IF k.video THEN FullBox(4 + 4 * Len(k.stss)) ELSE 0)
      + FullBox(4 + 12 * Len(k.stsc)) + FullBox(8 + 4 * Len(k.stsz)) + FullBox(4 + 4 * Len(k.stco)))
BuildMoov(bases) == [t \in DOMAIN samples |->
                       BuildTrak(t, samples[t], IF bases = <<>> THEN 0 ELSE bases[t])]
MoovSize(moov) == Box(108 + SumOf(moov, TrakSize))
FtypSize == Box(24)

\* flush: pass 1 measures, pass 2 has the offsets.
MdatBase_NoHeader == FtypSize + MoovSize(BuildMoov(<<>>))
MdatBase == FtypSize + MoovSize(BuildMoov(<<>>)) + 8
TrackBase(t) == MdatBase + SumOf(FlattenSeq(SubSeq(samples, 1, t - 1)), Size)
Flush == LET moov == BuildMoov([t \in DOMAIN samples |-> TrackBase(t)])
             all  == FlattenSeq(samples)
         IN  [moov |-> moov, mdatAt |-> FtypSize + MoovSize(moov) + 8,
              mdat |-> FlattenSeq([i \in 1 .. Len(all) |-> all[i].data])]

-----------------------------------------------------------------------------
WriteHeader == /\ ~written /\ ~closed
               /\ written' = TRUE /\ samples' = [t \in 1 .. Len(Known) |-> <<>>]
               /\ UNCHANGED <<closed, file, input, faults>>

\* A packet of a stream without a track is passed over.
WritePacket(i, p) ==
  /\ written /\ ~closed /\ Len(input) < MaxPackets
  /\ LET n == Len(input) + 1
         ts == {t \in 1 .. Len(Known) : Known[t].idx = Tracks[i].idx}
         data == [b \in 1 .. p.size |-> <<n, b>>]
         sample(t) == [key |-> p.key, dur |-> ToTicks(p.dur, Known[t].scale),
                       cts |-> ToTicks(p.cts, Known[t].scale), data |-> data]
     IN  /\ samples' = [t \in DOMAIN samples |->
                          IF t \in ts THEN Append(samples[t], sample(t)) ELSE samples[t]]
         /\ input' = Append(input, [t |-> IF ts = {} THEN 0 ELSE CHOOSE t \in ts : TRUE,
                                    p |-> p, data |-> data])
  /\ UNCHANGED <<written, closed, file, faults>>

\* WriteTrailer, or Close without it.  The writer may fail in any of flush's
\* writes: what it leaves is not a file a Demuxer opens, and no call writes again.
WriteTrailer(ok) == /\ ~closed
                    /\ closed' = TRUE
                    /\ ok \/ faults < MaxFaults
                    /\ faults' = IF ok THEN faults ELSE faults + 1
                    /\ file' = IF ok THEN <<Flush>> ELSE <<>>
                    /\ UNCHANGED <<samples, written, input>>

Next == \/ WriteHeader
        \/ \E i \in DOMAIN Tracks, p \in Packets : WritePacket(i, p)
        \/ \E ok \in BOOLEAN : WriteTrailer(ok)

Spec == Init /\ [][Next]_mp4Vars

-----------------------------------------------------------------------------
\* parseSampleTable: each table spread over the samples.
Spread(runs) == FlattenSeq([i \in 1 .. Len(runs) |-> [k \in 1 .. runs[i].count |-> runs[i].value]])
\* parseStts: DTS are sums of durations, in ticks.
DtsTicks(durs) == [i \in 1 .. Len(durs) |-> FoldLeft(LAMBDA a, b : a + b, 0, SubSeq(durs, 1, i - 1))]
\* buildChunkSamplesMap: how many samples chunk c has.
ChunkSamples(k, c) == LET es == {i \in DOMAIN k.stsc : k.stsc[i].first <= c}
                      IN  IF es = {} THEN 0 ELSE k.stsc[CHOOSE i \in es : \A j \in es : j <= i].spc
\* Where sample i is: the chunks in order, the samples of a chunk one after another.
SampleOffset(k, i) ==
  LET before(c) == FoldLeft(LAMBDA a, b : a + b, 0, [j \in 1 .. c - 1 |-> ChunkSamples(k, j)])
      c == CHOOSE c \in DOMAIN k.stco : before(c) < i /\ i <= before(c + 1)
  IN  k.stco[c] + FoldLeft(LAMBDA a, b : a + b, 0, SubSeq(k.stsz, before(c) + 1, i - 1))
ParseSampleTable(t, k) ==
  LET durs == Spread(k.stts)
      cts  == Spread(k.ctts)
  IN  [i \in 1 .. Len(k.stsz) |->
         [t |-> t, offset |-> SampleOffset(k, i), size |-> k.stsz[i],
          dts |-> ToDuration(DtsTicks(durs)[i], k.scale), dur |-> ToDuration(durs[i], k.scale),
          cts |-> IF cts = <<>> THEN 0 ELSE ToDuration(cts[i], k.scale),
          key |-> k.video /\ \E j \in DOMAIN k.stss : k.stss[j] = i]]

\* parseMoovPayload: a stable sort by DTS.
After(s, x) == Len(SelectSeq(s, LAMBDA y : y.dts <= x.dts)) + 1
SortStable_None(s) == s
SortStable(s) == FoldLeft(LAMBDA acc, x : InsertAt(acc, After(acc, x), x), <<>>, s)
ReadAll(f) ==
  LET all == SortStable(FlattenSeq([t \in DOMAIN f.moov |-> ParseSampleTable(t, f.moov[t])]))
      byte(n) == IF n \in DOMAIN f.mdat THEN f.mdat[n] ELSE <<>>    \* of another box
      read(s) == [b \in 1 .. s.size |-> byte(s.offset - f.mdatAt + b)]
  IN  [i \in 1 .. Len(all) |-> [t |-> all[i].t, dts |-> all[i].dts, dur |-> all[i].dur,
                                cts |-> all[i].cts, key |-> all[i].key, data |-> read(all[i])]]

-----------------------------------------------------------------------------
Played == IF file = <<>> THEN <<>> ELSE ReadAll(file[1])
Of(s, t) == SelectSeq(s, LAMBDA x : x.t = t)
\* What truncation to ticks leaves of a duration.
Tick(d, t) == ToDuration(ToTicks(d, Known[t].scale), Known[t].scale)

\* A finished file plays back every packet of every track it has: the bytes,
\* durations and offsets up to a tick, and the key frames of the video.
Mp4PlaysBack == file # <<>> =>
  /\ \A t \in 1 .. Len(Known) :
       LET got == Of(Played, t)
           want == Of(input, t)
       IN  /\ Len(got) = Len(want)
           /\ \A i \in DOMAIN got :
                /\ got[i].data = want[i].data
                /\ got[i].dur = Tick(want[i].p.dur, t) /\ got[i].cts = Tick(want[i].p.cts, t)
                /\ got[i].key = (Known[t].video /\ want[i].p.key)

\* "ReadPacket returns the next av.Packet in DTS order", over all tracks.
Mp4InOrder == \A i \in 1 .. Len(Played) - 1 : Played[i].dts <= Played[i + 1].dts
=============================================================================
