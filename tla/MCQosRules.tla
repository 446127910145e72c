----------------------------- MODULE MCQosRules ------------------------------
(* Instances of QosRules for TLC. *)
EXTENDS QosRules, TLC

Text(lower, upper, m, b, t) ==
    [lower |-> [ack |-> lower, send |-> 0, rtt |-> 0],
     upper |-> [ack |-> upper, send |-> 4, rtt |-> 6],
     m100 |-> m, b100 |-> b, tau |-> t]

\* A table of one rule and one of two.
SmallTables == {<<Text(1, 4, -1, -1, 1)>>, <<Text(0, 2, 3, 0, 1), Text(1, 5, 1, 1, 2)>>}

\* Gaps of 1 and 0 and, for a negative rate, of -1.
SomeRates == {4, 5, -3}
=============================================================================
