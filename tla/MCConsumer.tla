------------------------------ MODULE MCConsumer ------------------------------
(* Small instances of Consumer: two goroutines that call Close. *)
EXTENDS Consumer, TLC

CONSTANTS k1, k2

Symm == Permutations(Closers)
=============================================================================
