------------------------------ MODULE Fmp4File ------------------------------
(***************************************************************************)
(* An fmp4.Muxer as its users drive it, and what an fmp4.Demuxer finds in  *)
(* the file: a video stream whose packets have no duration (it is back-    *)
(* filled from the DTS) and an audio stream on a coarser timescale,        *)
(* interleaved in any way, with forced flushes and codec changes.          *)
(***************************************************************************)
EXTENDS Fmp4Mux

CONSTANTS Streams,     \* the streams of the header
          Changed,     \* the streams of a codec change
          VideoSteps,  \* DTS steps of the video, in Durations
          AudioStep,   \* DTS step and duration of the audio
          Start,       \* DTS of the first packet
          MaxPackets, MaxChanges

VARIABLES mux,         \* the fmp4.Muxer
          file,        \* the boxes written
          sent,        \* history: the packets the muxer kept, DTS from zero
          clock,       \* the DTS of the next video and audio packet
          changes,     \* history: how many packets were sent at each codec change
          npkts        \* packets written

fileVars == <<mux, file, sent, clock, changes, npkts>>

D == INSTANCE Fmp4Demux

Init == /\ mux = MuxHeader(NewMuxer, Streams, 1).m
        /\ file = MuxHeader(NewMuxer, Streams, 1).out
        /\ sent = <<>> /\ changes = <<>> /\ npkts = 0
        /\ clock = [video |-> Start, audio |-> Start]

Take(r) == /\ mux' = r.m
           /\ file' = file \o r.out

WritePacket(p) ==
  /\ npkts < MaxPackets /\ ~mux.closed
  /\ Take(MuxPacket(mux, p, 3))
  /\ npkts' = npkts + 1
  /\ sent' = IF mux'.waiting THEN sent
             ELSE Append(sent, [p EXCEPT !.dts = @ - mux'.origin])
  /\ UNCHANGED changes

\* Packet data are two bytes naming the packet, so that a wrong slice shows.
Data == <<npkts, npkts>>

WriteVideo(key, step, meta) ==
  /\ WritePacket([idx |-> 0, key |-> key, dts |-> clock.video, dur |-> 0,
                  cts |-> IF key THEN 0 ELSE Millisecond, data |-> Data, meta |-> meta])
  /\ clock' = [clock EXCEPT !.video = @ + step]

WriteAudio ==
  /\ WritePacket([idx |-> 1, key |-> FALSE, dts |-> clock.audio, dur |-> AudioStep,
                  cts |-> 0, data |-> <<npkts>>, meta |-> FALSE])
  /\ clock' = [clock EXCEPT !.audio = @ + AudioStep]

Flush == /\ ~mux.closed /\ Take(MuxFlush(mux, 3))
         /\ UNCHANGED <<sent, clock, changes, npkts>>

WriteCodecChange ==
  /\ ~mux.closed /\ Len(changes) < MaxChanges
  /\ Take(MuxCodecChange(mux, Changed, 4))
  /\ changes' = Append(changes, Len(sent))
  /\ UNCHANGED <<sent, clock, npkts>>

\* The trailer, and the sidx box a recorder writes behind it.
Indexed(r, t) == r.out \o (IF r.m.index = <<>> THEN <<>>
                           ELSE <<Sidx(r.m.index, t.scale, r.m.start)>>)
TakeLast(r) == /\ mux' = r.m
               /\ file' = file \o Indexed(r, CHOOSE x \in ToSet(r.m.tracks) : x.video)

WriteTrailer == /\ ~mux.closed /\ TakeLast(MuxTrailer(mux, 3))
                /\ UNCHANGED <<sent, clock, changes, npkts>>

Next == \/ \E key, meta \in BOOLEAN, step \in VideoSteps : WriteVideo(key, step, meta)
        \/ WriteAudio
        \/ Flush
        \/ WriteCodecChange
        \/ WriteTrailer

Spec == Init /\ [][Next]_fileVars

-----------------------------------------------------------------------------
ReadBack == D!ReadAll(file)
OfStream(ps, idx) == SelectSeq(ps, LAMBDA p : p.idx = idx)
Buffered(idx) == CHOOSE n \in 0 .. Len(sent) :
                   \E t \in ToSet(mux.tracks) : t.idx = idx /\ n = Len(t.samples)
Tick(t) == IF t.scale = Second THEN 0 ELSE Second \div t.scale + 1

\* What a reader gets of a stream is what was written to it, packet by packet:
\* the same bytes, key flag, composition offset and analytics, and the DTS up
\* to a tick of the timescale (exact if the timescale is).  Only what is still buffered is missing,
\* and nothing is once the trailer is written.  Audio comes back as keyframes.
DecodedIsWritten ==
  /\ ReadBack.end = "EOF"
  /\ mux.closed => ~HasSamples(mux.tracks)
  /\ \A t \in ToSet(mux.tracks) :
       LET got == OfStream(ReadBack.pkts, t.idx)
           put == OfStream(sent, t.idx)
       IN  /\ Len(got) = Len(put) - Buffered(t.idx)
           /\ \A j \in DOMAIN got :
                /\ got[j].data = put[j].data
                /\ got[j].key = (put[j].key \/ ~t.video)
                /\ got[j].dts - put[j].dts \in -Tick(t) .. Tick(t)
                /\ t.video => got[j].cts = put[j].cts /\ got[j].meta = put[j].meta

\* A reader learns of every codec change with the first packet behind it and
\* with no other, and every packet is read with the codecs it was written under.
CodecOf(n) == IF \E j \in DOMAIN changes : changes[j] < n THEN Changed[1].codec
                                                           ELSE Streams[1].codec
ChangeIsAnnounced ==
  LET got == ReadBack.pkts
      num(j) == CHOOSE n \in DOMAIN sent : sent[n].data = got[j].data
      after(n) == {j \in DOMAIN got : num(j) > n}
      first == {Min(after(n)) : n \in {m \in ToSet(changes) : after(m) # {}}}
  IN  \A j \in DOMAIN got : /\ got[j].change = (j \in first)
                            /\ got[j].idx = 0 => got[j].codec = CodecOf(num(j))

\* In a file whose fragments start in ascending order a seek leaves the reader
\* on the first byte of a moof; on one that starts at or before the target,
\* with the next one behind it, when the reader scans and when the durations
\* in the sidx reach from each fragment to the next.  They need not: the
\* duration of a fragment's last sample is an estimate.  In a file with a codec
\* change the sidx is off by the second init segment.
ExactIndex == \A i \in 1 .. Len(mux.index) - 1 :
                mux.index[i].pts + mux.index[i].dur = mux.index[i + 1].pts
SeekLands ==
  (changes = <<>> /\ D!Moofs(file) # {}) =>
    LET traks == ReadBack.traks
        moofs == D!Moofs(file)
        time(i) == D!MoofTime(file[i], traks)
        ascending == \A i, j \in moofs : i < j => time(i) < time(j)
    IN  ascending => \A target \in {time(i) : i \in moofs} : \E i \in moofs :
          /\ D!Offset(file, i) = D!SeekToKeyframe(file, traks, target)
          /\ (~mux.closed \/ ExactIndex)
               => time(i) <= target /\ \A j \in moofs : j > i => time(j) > target
=============================================================================
