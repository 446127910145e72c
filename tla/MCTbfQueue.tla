----------------------------- MODULE MCTbfQueue ------------------------------
(* Instances of TbfQueue for TLC. *)
EXTENDS TbfQueue, TLC

CONSTANTS c1, c2, t1, t2, t3

Symmetry == Permutations(Threads) \cup Permutations(Clients)
=============================================================================
