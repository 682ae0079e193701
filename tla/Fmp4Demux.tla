----------------------------- MODULE Fmp4Demux -----------------------------
(***************************************************************************)
(* fmp4.Demuxer: GetCodecs and ReadPacket as a fold over the boxes of a    *)
(* file, and SeekToKeyframe as the byte position it leaves the reader at.  *)
(***************************************************************************)
EXTENDS Fmp4Box

NewDemuxer == [traks |-> <<>>, moovRead |-> FALSE, change |-> FALSE, emsg |-> <<>>,
               moof |-> <<>>, pkts |-> <<>>, end |-> "EOF"]

\* parseStsdEntry: the type of the sample entry tells the codec.
KindOf == [avc1 |-> "h264", avc3 |-> "h264", hev1 |-> "h265", hvc1 |-> "h265",
           mp4a |-> "aac", fLaC |-> "flac"]
ParseStsdEntry(e) == [kind |-> KindOf[e.type], conf |-> e.conf]
ParseTrak(b) == [id |-> b.tkhd, scale |-> b.mdhd, codec |-> ParseStsdEntry(b.stsd),
                 video |-> b.stsd.type \in {"avc1", "avc3", "hev1", "hvc1"}]
\* parseMoov passes over what it cannot read; the streams are numbered in the
\* order of the traks.
ParseMoov(b) ==
  LET known == SelectSeq(b.traks, LAMBDA t : t.stsd.type \in DOMAIN KindOf)
  IN  [i \in DOMAIN known |-> ParseTrak(known[i])]
Trak(d, id) == {i \in DOMAIN d.traks : d.traks[i].id = id}

\* parseTfhd, parseTfdt and parseTrun: default-base-is-moof, so the offsets
\* are relative to the moof; the mdat's payload is 8 bytes behind it.
MdatOffset(traf, moof) == traf.offset - (moof.size + 8)

RawSamples(d, moof, k) ==
  LET traf == moof.trafs[k]
      before(j, f(_)) == SumOver(f, SubSeq(traf.run, 1, j - 1))
  IN  [j \in DOMAIN traf.run |->
        [id |-> traf.id, dur |-> traf.run[j].dur, cts |-> traf.run[j].cts,
         flags |-> traf.run[j].flags, size |-> traf.run[j].size,
         dts |-> traf.base + before(j, LAMBDA s : s.dur),
         off |-> MdatOffset(traf, moof) + before(j, SizeOf)]]

ParseMoof(d, moof) ==
  FlattenSeq([k \in DOMAIN moof.trafs |->
    IF Trak(d, moof.trafs[k].id) = {} THEN <<>> ELSE RawSamples(d, moof, k)])

\* One packet of parseMoofMdat.  A run without flags takes the default of the
\* trex box, zero, which reads as a sync sample.
Packet(d, s, payload) ==
  LET i == CHOOSE j \in Trak(d, s.id) : TRUE
      t == d.traks[i]
  IN  [idx |-> i - 1, key |-> s.flags # "nonsync", dts |-> Time(s.dts, t.scale),
       dur |-> Time(s.dur, t.scale), cts |-> Time(s.cts, t.scale),
       data |-> SubSeq(payload, s.off + 1, s.off + s.size), codec |-> t.codec,
       meta |-> FALSE, change |-> FALSE]

\* Samples outside the mdat are skipped, the rest sorted by DTS.  The code's
\* sort is not stable; the order of equal DTS is one it may choose.
FragmentPackets(d, moof, payload) ==
  LET raw == SelectSeq(ParseMoof(d, moof),
                       LAMBDA s : s.off >= 0 /\ s.off + s.size <= Len(payload))
      pkt(j) == Packet(d, raw[j], payload)
  IN  SortSeq([j \in DOMAIN raw |-> pkt(j)], LAMBDA a, b : a.dts < b.dts)

\* The analytics of an emsg go to the packets shown at its millisecond.
AttachEmsg(p, emsgs) ==
  [p EXCEPT !.meta = \E j \in DOMAIN emsgs : emsgs[j].ms = Quot(p.dts + p.cts, Millisecond)]

\* The box after a moof must be its mdat; the first packet of the fragment
\* carries a codec change, each one the analytics stashed before the moof.
Announced_EveryPacket(d, j) == d.change
Announced(d, j) == d.change /\ j = 1
ReadMdat(d, b) ==
  LET ps == FragmentPackets(d, d.moof[1], b.payload)
      qs == [j \in DOMAIN ps |->
              [AttachEmsg(ps[j], d.emsg) EXCEPT !.change = Announced(d, j)]]
  IN  IF b.type # "mdat" THEN [d EXCEPT !.end = "malformed"]
      ELSE [d EXCEPT !.moof = <<>>, !.emsg = <<>>, !.pkts = @ \o qs,
                     !.change = @ /\ ps = <<>>]

\* One turn of the loops in GetCodecs and ReadPacket.
ReadBox(d, b) ==
  IF d.end # "EOF" THEN d
  ELSE IF b.type = "torn" THEN [d EXCEPT !.end = "unexpected EOF"]
  ELSE IF ~d.moovRead
    THEN IF b.type = "moov" THEN [d EXCEPT !.traks = ParseMoov(b), !.moovRead = TRUE] ELSE d
  ELSE IF d.moof # <<>> THEN ReadMdat(d, b)
  ELSE CASE b.type = "moof" -> [d EXCEPT !.moof = <<b>>]
         [] b.type = "moov" -> [d EXCEPT !.traks = ParseMoov(b), !.change = TRUE]
         [] b.type = "emsg" -> [d EXCEPT !.emsg = Append(@, b)]
         [] OTHER -> d

ReadAll(file) == FoldLeft(ReadBox, NewDemuxer, file)

-----------------------------------------------------------------------------
(* Seeking.  Positions are byte offsets into the file. *)

Offset(file, i) == SizeOfAll(SubSeq(file, 1, i - 1))
MediaStart(file) == Offset(file, 1 + Min({i \in DOMAIN file : file[i].type = "moov"}))
Moofs(file) == {i \in DOMAIN file : file[i].type = "moof"}

\* moofBaseTime: of the first video track in the moof, else of the first one.
MoofTime(moof, traks) ==
  LET known == SelectSeq(moof.trafs, LAMBDA f : \E i \in DOMAIN traks : traks[i].id = f.id)
      trak(f) == CHOOSE t \in ToSet(traks) : t.id = f.id
      video == SelectSeq(known, LAMBDA f : trak(f).video)
      first == IF video # <<>> THEN video[1] ELSE known[1]
  IN  IF known = <<>> THEN 0 ELSE Time(first.base, trak(first).scale)

\* seekViaMoofScan: the last moof before the first one behind the target.
SeekViaMoofScan(file, traks, target) ==
  LET start == MediaStart(file)
      late  == {i \in Moofs(file) : MoofTime(file[i], traks) > target}
      good  == {i \in Moofs(file) : \A j \in late : i < j}
  IN  IF good = {} THEN start ELSE Offset(file, Max(good))

\* ParseSidx: times and offsets are summed up from the references.
SidxEntries(s, anchor) ==
  [i \in DOMAIN s.refs |->
    LET sum(f(_)) == SumOver(f, SubSeq(s.refs, 1, i - 1))
    IN  [pts |-> Time(s.earliest + sum(LAMBDA r : r.dur), s.scale),
         offset |-> anchor + s.first + sum(SizeOf)]]

\* seekViaSidx: the last entry before the first one behind the target.
SeekViaSidx_LastEntry(entries, target) == entries[Len(entries)].offset
SeekViaSidx(entries, target) ==
  LET late == {i \in DOMAIN entries : entries[i].pts > target}
      good == {i \in DOMAIN entries : \A j \in late : i < j}
  IN  entries[IF good = {} THEN 1 ELSE Max(good)].offset

\* SeekToKeyframe: through the sidx that loadSidx finds, if there is one.
SeekToKeyframe(file, traks, target) ==
  LET s == SelectSeq(file, LAMBDA b : b.type = "sidx")
  IN  IF s # <<>> THEN SeekViaSidx(SidxEntries(s[1], MediaStart(file)), target)
      ELSE SeekViaMoofScan(file, traks, target)
=============================================================================
