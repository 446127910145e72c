--------------------------- MODULE WindowRegister ----------------------------
(***************************************************************************)
(* What the window controller promises the RPC engine of OscWindow: the    *)
(* window of a client moves in one step, to a value between 1 and          *)
(* OSC_MAX_RIF_MAX, and the dirty limit follows in the same step when the  *)
(* window asks for more, up to an eighth of the memory.                    *)
(***************************************************************************)
EXTENDS Integers

CONSTANTS Devs, MaxRif, MaxPages, DirtyCap

VARIABLES window, dirtyMax

Needed(w) == IF w * MaxPages < DirtyCap THEN w * MaxPages ELSE DirtyCap

Init ==
    /\ window \in [Devs -> 1 .. MaxRif]
    /\ dirtyMax \in [Devs -> 0 .. DirtyCap]

Write(d) == \E w \in 1 .. MaxRif :
    /\ window' = [window EXCEPT ![d] = w]
    /\ \/ dirtyMax[d] < Needed(w) /\ dirtyMax' = [dirtyMax EXCEPT ![d] = Needed(w)]
       \/ dirtyMax[d] >= Needed(w) /\ UNCHANGED dirtyMax

Next == \E d \in Devs : Write(d)

Spec == Init /\ [][Next]_<<window, dirtyMax>>
=============================================================================
