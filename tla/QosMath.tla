------------------------------ MODULE QosMath --------------------------------
(***************************************************************************)
(* The arithmetic of the window controller (qos_adjust and                 *)
(* client_adjust_max_dirty), on C integers that do not overflow: the       *)
(* program that writes the rules keeps m100 within 200 and the value that  *)
(* is scaled is at most 100 * OSC_MAX_RIF_MAX.                             *)
(***************************************************************************)
EXTENDS Integers

CONSTANTS
    One,     \* the fixed-point one: 100
    Limit    \* mrif_upper_limit: 30

ASSUME MathAssumption == One \in Nat \ {0} /\ Limit \in Nat \ {0}

Least(a, b) == IF a < b THEN a ELSE b
Greatest(a, b) == IF a > b THEN a ELSE b

\* C division truncates toward zero.
TruncDiv(a, b) ==
    LET magnitude(x) == IF x < 0 THEN -x ELSE x
        q == magnitude(a) \div magnitude(b) IN
    IF (a < 0) = (b < 0) THEN q ELSE -q

\* The factor is not applied when m100 is negative; the offset always is.
Scaled(tracked, r) ==
    (IF r.m100 >= 0 THEN (tracked * r.m100) \div One ELSE tracked) + r.b100

\* Mutant: a large negative offset leaves a negative value.
NewTrackedNegative(tracked, r) == Least(Scaled(tracked, r), Limit * One)

\* The new max_rpc_in_flight100 and the window that follows from it.
NewTracked(tracked, r) == Least(Greatest(Scaled(tracked, r), 0), Limit * One)
\* Mutant: without the floor a window of zero stops the client for good.
NewMrifRaw(tracked) == tracked \div One
NewMrif(tracked) == Greatest(tracked \div One, 1)

\* Mutant: the sample is divided, not its distance from the average.
AverageOfSums(avg, x, n) == avg + TruncDiv(x, n)

\* How an average of n samples takes the n-th.
Average(avg, x, n) == avg + TruncDiv(x - avg, n)

\* client_adjust_max_dirty of a client that was set up: the dirty limit
\* follows a growing window, up to an eighth of the memory.
AdjustedMaxDirty(window, dirtyMax, pages, cap) ==
    Least(Greatest(window * pages, dirtyMax), cap)
=============================================================================
