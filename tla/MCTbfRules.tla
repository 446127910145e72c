----------------------------- MODULE MCTbfRules ------------------------------
(* Instances of TbfRules for TLC. *)
EXTENDS TbfRules, TLC

CONSTANTS c1, c2, h1, h2, r0, r1, r2, n1, n2
=============================================================================
