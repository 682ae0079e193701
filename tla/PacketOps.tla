------------------------------ MODULE PacketOps ------------------------------
(***************************************************************************)
(* The pure parts of av/packetbuf: what eviction drops and what a late     *)
(* consumer is primed with.  A packet is a record whose fields are the     *)
(* ones these functions look at: wall (WallClockTime), key (KeyFrame) and  *)
(* video (CodecType.IsVideo()).                                            *)
(***************************************************************************)
EXTENDS Integers, Sequences

\* Length of the longest prefix of pkts that is older than cutoff: the loop
\* of evictLocked, and the startup scan of bufDemuxer.ReadPacket.
OlderPrefix(pkts, cutoff) ==
  CHOOSE n \in 0 .. Len(pkts) :
    /\ \A i \in 1 .. n : pkts[i].wall < cutoff
    /\ n < Len(pkts) => pkts[n + 1].wall >= cutoff

\* Buffer.LastGOP: the packets from the last video keyframe onward, none
\* when no video keyframe is buffered.
LastGOP(pkts) ==
  LET keys == { i \in DOMAIN pkts : pkts[i].key /\ pkts[i].video }
  IN  IF keys = {} THEN <<>>
      ELSE SubSeq(pkts, CHOOSE i \in keys : \A j \in keys : j <= i, Len(pkts))
=============================================================================
