---------------------------- MODULE MCOscWindow ----------------------------
(* Instances of OscWindow for TLC. *)
EXTENDS OscWindow, TLC

CONSTANTS a1, a2, p1, p2, o1, o2, e1, e2, e3, e4, e5, e6

\* One object, written through the page cache.
OneObj == [e \in Exts |-> o1]
AllCached == [e \in Exts |-> "cached"]

\* Direct I/O both ways, and one read of another object.
HalfReads == [e \in Exts |-> IF e \in {e1, e2, e3} THEN "direct" ELSE "read"]
LastElsewhere == [e \in Exts |-> IF e = e6 THEN o2 ELSE o1]

SymAll == Permutations(Apps) \cup Permutations(Ptlrpcds) \cup Permutations(Exts)
SymHalves == Permutations({e1, e2, e3}) \cup Permutations({e4, e5})
=============================================================================
