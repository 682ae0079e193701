----------------------------- MODULE MCPacketBuf -----------------------------
EXTENDS PacketBuf, TLC

CONSTANTS r1, r2

\* r1 replays from the first instant, r2 asks for a start in the future.
MCSince == (r1 :> 1) @@ (r2 :> 2)
=============================================================================
