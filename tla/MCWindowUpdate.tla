--------------------------- MODULE MCWindowUpdate ----------------------------
(* Instances of WindowUpdate for TLC. *)
EXTENDS WindowUpdate, TLC

CONSTANTS t1, t2, d1

Rule(m, b) == [m100 |-> m, b100 |-> b]
\* Halve, grow by one and a half, keep.
SomeRules == {Rule(1, 0), Rule(-1, 3), Rule(-1, 0)}

Symmetry == Permutations(Threads) \cup Permutations(Devs)
=============================================================================
