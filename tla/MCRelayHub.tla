------------------------------ MODULE MCRelayHub ------------------------------
(* Small instances of RelayHub: one source, one or two callers. *)
EXTENDS RelayHub, TLC

CONSTANTS c1, c2, i1, i2, s1, p1, p2

OneSource == [c \in Callers |-> s1]

Symm == Permutations(Relays) \cup Permutations(Callers) \cup Permutations(Ids)
=============================================================================
