----------------------------- MODULE MCNetwork -----------------------------
(***************************************************************************)
(* What comes in over a network and goes out to browsers: RtspSession,     *)
(* GrpcPush and Pva, and instances of RtpDepacketizer and MSE, which share *)
(* no state.  Each initial state names the one that runs, in "sel", and    *)
(* the others stay as they are; the run visits the states of each once.    *)
(***************************************************************************)
EXTENDS RtspSession, GrpcPush, Pva

CONSTANT NoTime

VARIABLES sel,
  \* RtpDepacketizer
  pics, sent, half, seq, lost, unmarked, h264, h265, out264, out265, rcut, aac,
  \* MSE
  mux, streams, encoders, codecStr, initSeg, wire, now, npkts, nchanges, nfaults, shut, kept,
  silent, leftG711

\* A camera that sends a video track, out of order or with a gap, and an audio
\* track.
MCJumps == [v |-> {-1, 2}, a |-> {2}]

\* Pictures of two slices, with a parameter set, with a delimiter.
Rtp == INSTANCE RtpDepacketizer WITH
  Shapes <- {<<"first", "slice">>, <<"param", "first">>, <<"aud", "first">>},
  MaxPictures <- 3, MaxLost <- 2, SeqNums <- 16, Byte <- 8, AuSizes <- {1, 2}, MaxAus <- 2,
  cut <- rcut

\* One client that sends packets, and one that only connects.
MCMaxPackets == [c1 |-> 2, c2 |-> 0]

\* Two H.264 configurations share a MIME string; mu-law is sent as FLAC.
MCTag == [h264 |-> "avc1", h265 |-> "hev1", flac |-> "flac", aac |-> "mp4a"]
Cd(k, c) == [kind |-> k, conf |-> c]
Ms == INSTANCE MSE WITH
  Second <- 12, Millisecond <- 2, MaxGap <- 3, MaxGaps <- 2,
  Header <- << [idx |-> 0, codec |-> Cd("h264", "c1"), scale |-> 12],
               [idx |-> 1, codec |-> Cd("pcm_mulaw", "8k"), scale |-> 12] >>,
  VideoCodecs <- {Cd("h264", "c2"), Cd("h265", "c1")},
  AudioCodecs <- {Cd("pcm_mulaw", "8k"), Cd("aac", "8k")},
  Tag <- MCTag, MaxPackets <- 4, MaxChanges <- 2, MaxFaults <- 1

rtp == <<pics, sent, half, seq, lost, unmarked, h264, h265, out264, out265, rcut, aac>>
mse == <<mux, streams, encoders, codecStr, initSeg, wire, now, npkts, nchanges, nfaults, shut,
         kept, silent, leftG711>>
vars == <<sel, rtspVars, rtp, pushVars, mse, pvaVars>>

MCInit ==
  /\ sel \in {"rtsp", "rtp", "push", "mse", "pva"}
  /\ Init /\ Rtp!Init /\ PushInit /\ Ms!Init /\ PvaInit

MCNext ==
  \/ sel = "rtsp" /\ Next /\ UNCHANGED <<sel, rtp, pushVars, mse, pvaVars>>
  \/ sel = "rtp"  /\ Rtp!Next  /\ UNCHANGED <<sel, rtspVars, pushVars, mse, pvaVars>>
  \/ sel = "push" /\ PushNext /\ UNCHANGED <<sel, rtspVars, rtp, mse, pvaVars>>
  \/ sel = "mse"  /\ Ms!Next   /\ UNCHANGED <<sel, rtspVars, rtp, pushVars, pvaVars>>
  \/ sel = "pva"  /\ PvaNext /\ UNCHANGED <<sel, rtspVars, rtp, pushVars, mse>>

MCSpec == MCInit /\ [][MCNext]_vars

-----------------------------------------------------------------------------
\* Access units are the pictures that were sent, however they were packetized; a
\* lost packet never splices two units (RtpDepacketizer).
UnitsArePictures ==
  sel = "rtp" => /\ Rtp!H264Pictures /\ Rtp!H264NeverSpliced
                 /\ Rtp!H265Pictures /\ Rtp!AacRoundTrip
\* An MSE client gets every packet, decodes it with the codec it was encoded in,
\* and one that joins late gets the init segment in use (MSE).
ClientDecodes ==
  sel = "mse" => Ms!ClientGetsStream /\ Ms!InitMatchesMedia /\ Ms!LateJoinerAgrees
=============================================================================
