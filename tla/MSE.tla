-------------------------------- MODULE MSE --------------------------------
(***************************************************************************)
(* av/format/mse: an MSEWriter turns every call into WebSocket frames: what *)
(* its fmp4.Muxer wrote during the call (binary) and a description (text). *)
(* G.711 audio is transcoded to FLAC.  Late joiners get the codec string   *)
(* and the init segment that the writer keeps.                             *)
(***************************************************************************)
EXTENDS Fmp4Mux

CONSTANTS Header,        \* the streams of WriteHeader
          VideoCodecs, AudioCodecs,
          Tag,           \* Tag[k]: what codecs of kind k contribute to the MIME string
          MaxPackets, MaxChanges, MaxFaults

VARIABLES mux, streams, encoders, codecStr, initSeg,   \* fields of MSEWriter
          wire,          \* the frames the client got
          now,           \* the codecs of the source
          npkts, nchanges, nfaults, shut,
          kept,          \* history: the packets accepted, with the codec they are in
          silent, leftG711   \* history: a change without a new string; G.711 given up

mseVars == <<mux, streams, encoders, codecStr, initSeg, wire, now, npkts, nchanges,
             nfaults, shut, kept, silent, leftG711>>

D == INSTANCE Fmp4Demux

\* transcodePCM.
G711(codec) == codec.kind \in {"pcm_mulaw", "pcm_alaw"}
Flac(codec) == [codec EXCEPT !.kind = "flac"]
Transcode(s) == IF G711(s.codec) THEN [s EXCEPT !.codec = Flac(@)] ELSE s
TranscodePCM(ss) == [i \in DOMAIN ss |-> Transcode(ss[i])]
Encoders(ss) == {ss[i].idx : i \in {j \in DOMAIN ss : G711(ss[j].codec)}}

\* buildCodecString.
BuildCodecString(ss) ==
  LET tagged == SelectSeq(ss, LAMBDA s : s.codec.kind \in DOMAIN Tag)
  IN  [i \in DOMAIN tagged |-> Tag[tagged[i].codec.kind]]

Text(v)   == [kind |-> "text", value |-> v, boxes |-> <<>>]
Binary(b) == [kind |-> "binary", value |-> <<>>, boxes |-> b]

\* broadcast, frame by frame up to the one whose writer fails.
Deliver(frames, ok) ==
  \E n \in 0 .. Len(frames) :
    /\ ok <=> n = Len(frames)
    /\ wire' = wire \o SubSeq(frames, 1, n)
    /\ nfaults' = IF ok THEN nfaults ELSE nfaults + 1
MayFail == IF nfaults < MaxFaults THEN BOOLEAN ELSE {TRUE}

\* NewFromWriters, WriteHeader.
Opened == MuxHeader(NewMuxer, TranscodePCM(Header), 9)
Init == /\ mux = Opened.m /\ streams = TranscodePCM(Header)
        /\ encoders = Encoders(Header)
        /\ codecStr = BuildCodecString(TranscodePCM(Header)) /\ initSeg = Opened.out
        /\ wire = <<Text(codecStr), Binary(initSeg)>>
        /\ now = [i \in DOMAIN Header |-> Header[i].codec]
        /\ npkts = 0 /\ nchanges = 0 /\ nfaults = 0 /\ shut = FALSE
        /\ kept = <<>> /\ silent = FALSE /\ leftG711 = FALSE

Frames_OnePerCall(out, meta) == IF meta THEN <<Text("analytics")>>
                                ELSE IF out = <<>> THEN <<>> ELSE <<Binary(out), Text("timing")>>
Frames(out, meta) == (IF out = <<>> THEN <<>> ELSE <<Binary(out), Text("timing")>>)
                     \o (IF meta THEN <<Text("analytics")>> ELSE <<>>)

\* WritePacket: the payload goes through the encoder of its stream; then the
\* fragment, the timing message and the analytics are sent.
Send(p, r, ok) == /\ ok \/ Frames(r.out, p.meta) # <<>>
                  /\ mux' = r.m
                  /\ Deliver(Frames(r.out, p.meta), ok)
WritePacket(i, key, meta, ok) ==
  LET data == <<npkts, IF Header[i].idx \in encoders THEN Flac(now[i]) ELSE now[i]>>
      p == [idx |-> Header[i].idx, key |-> key, dts |-> npkts, dur |-> 1, cts |-> 0,
            data |-> data, meta |-> meta]
  IN  /\ npkts < MaxPackets /\ ~shut /\ nfaults = 0
      /\ Send(p, MuxPacket(mux, p, 9), ok)
      /\ npkts' = npkts + 1
      /\ kept' = IF Drops(mux, p) THEN kept
                 ELSE Append(kept, [n |-> npkts, idx |-> p.idx,
                                    codec |-> Transcode([codec |-> now[i]]).codec])
      /\ UNCHANGED <<streams, encoders, codecStr, initSeg, now, nchanges, shut,
                     silent, leftG711>>

\* WriteCodecChange for stream i: the encoders and the stream list are
\* updated in any case; when the string stays the same nothing else happens.
Merged(i, c) == [streams EXCEPT ![i] = Transcode([Header[i] EXCEPT !.codec = c])]
Unchanged(new) == new = codecStr

\* The init segment for late joiners, from a muxer of its own.
LateInit_Stale(ss) == initSeg
LateInit(ss) == MuxHeader(NewMuxer, ss, 9).out

Announce(new, r, ok) == mux' = r.m /\ Deliver(<<Text(new), Binary(r.out)>>, ok)

WriteCodecChange(i, c, ok) ==
  LET changed == <<[Header[i] EXCEPT !.codec = c]>>
      new     == BuildCodecString(Merged(i, c))
  IN  /\ nchanges < MaxChanges /\ ~shut /\ nfaults = 0 /\ c # now[i]
      /\ ok \/ ~Unchanged(new)
      /\ nchanges' = nchanges + 1 /\ now' = [now EXCEPT ![i] = c]
      /\ encoders' = encoders \cup Encoders(changed)
      /\ streams' = Merged(i, c)
      /\ leftG711' = (leftG711 \/ (G711(now[i]) /\ ~G711(c)))
      /\ IF Unchanged(new)
           THEN /\ silent' = TRUE
                /\ UNCHANGED <<mux, codecStr, initSeg, wire, nfaults>>
           ELSE /\ Announce(new, MuxCodecChange(mux, TranscodePCM(changed), 9), ok)
                /\ codecStr' = new
                /\ initSeg' = LateInit(streams')
                /\ UNCHANGED silent
      /\ UNCHANGED <<npkts, shut, kept>>

\* WriteTrailer and Close; a second WriteTrailer has nothing to flush.
Finish(r, ok) == /\ ok \/ r.out # <<>>
                 /\ mux' = r.m
                 /\ Deliver(IF r.out = <<>> THEN <<>> ELSE <<Binary(r.out)>>, ok)
Close(ok) ==
  /\ ~shut /\ shut' = TRUE
  /\ Finish(MuxTrailer(mux, 9), ok)
  /\ UNCHANGED <<streams, encoders, codecStr, initSeg, now, npkts, nchanges, kept, silent, leftG711>>

Next == \E ok \in MayFail :
          \/ \E i \in DOMAIN Header, key, meta \in BOOLEAN :
               (key \/ meta => i = 1) /\ (meta => ~key) /\ WritePacket(i, key, meta, ok)
          \/ \E c \in VideoCodecs : WriteCodecChange(1, c, ok)
          \/ \E c \in AudioCodecs : WriteCodecChange(2, c, ok)
          \/ Close(ok)

Spec == Init /\ [][Next]_mseVars

-----------------------------------------------------------------------------
Boxes == FlattenSeq([j \in DOMAIN wire |-> wire[j].boxes])
Traks(boxes) == Last(SelectSeq(boxes, LAMBDA b : b.type = "moov")).traks
Received == D!ReadAll(Boxes).pkts
Of(ps, idx) == SelectSeq(ps, LAMBDA p : p.idx = idx)

\* The client's SourceBuffer gets every packet of the stream, in order, however
\* calls and codec changes follow each other, up to the one that failed.
ClientGetsStream ==
  \A i \in DOMAIN Header :
    LET idx == Header[i].idx
        got == [j \in DOMAIN Of(Received, idx) |-> Of(Received, idx)[j].data[1]]
        all == [j \in DOMAIN Of(kept, idx) |-> Of(kept, idx)[j].n]
    IN  nfaults = 0 => IsPrefix(got, all) /\ (shut => got = all)

\* Every payload is decoded with the codec it was encoded in: the last init
\* segment before its fragment names it.  Not so after a change of parameter
\* sets that leaves the MIME string alone, which is not passed on, or after
\* audio gave up G.711, because the FLAC encoder of a stream is never removed.
InitMatchesMedia ==
  ~silent /\ ~leftG711 =>
    \A k \in DOMAIN Boxes : Boxes[k].type = "mdat" =>
      LET d     == D!ReadAll(SubSeq(Boxes, 1, k))
          known == Len(D!ReadAll(SubSeq(Boxes, 1, k - 1)).pkts)
      IN  \A j \in known + 1 .. Len(d.pkts) :
            d.pkts[j].data[2] = d.traks[d.pkts[j].idx + 1].codec

\* A client that joins late is given the init segment that the connected ones
\* are using, and the MIME string that belongs to it.
LateJoinerAgrees ==
  /\ codecStr = [i \in DOMAIN streams |-> Tag[D!ParseTrak(Traks(initSeg)[i]).codec.kind]]
  /\ nfaults = 0 /\ ~silent => Traks(initSeg) = Traks(Boxes)
=============================================================================
