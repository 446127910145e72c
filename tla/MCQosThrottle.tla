---------------------------- MODULE MCQosThrottle ----------------------------
(* Instances of QosThrottle for TLC. *)
EXTENDS QosThrottle, TLC

CONSTANTS t1, t2

Symmetry == Permutations(Threads)
=============================================================================
