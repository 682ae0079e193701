--------------------------- MODULE MCRelayDelivery ---------------------------
(* Small instances of RelayDelivery. *)
EXTENDS RelayDelivery, TLC

CONSTANTS c1, c2

Forward == {1}         \* DTS of a single stream
Mixed   == {-1, 1}     \* DTS of interleaved streams

Symm == Permutations(Consumers)
=============================================================================
