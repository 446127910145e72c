---------------------------- MODULE TokenBucket ------------------------------
(***************************************************************************)
(* What the token bucket filter promises: the bucket of a client fills at  *)
(* its rate up to a depth, a thread that takes up a request takes a token  *)
(* out of it, and only a new rule fills it at once.  Levels are counted in *)
(* fractions of a token, Second of them to one.                            *)
(***************************************************************************)
EXTENDS Integers

CONSTANTS
    Clients,
    Threads,
    Rates,   \* tokens per second, so fractions per unit of time
    Second,  \* units of time in a second
    Depth    \* tokens that a bucket holds

BucketAssumption ==
    /\ Rates \subseteq Nat
    /\ Second \in Nat \ {0} /\ Depth \in Nat

VARIABLES
    level,   \* what is in the bucket of each client
    rate,    \* the rate of each client
    busy     \* the threads that handle a request

bucketVars == <<level, rate, busy>>

Full == Depth * Second
Capped(n) == IF n < Full THEN n ELSE Full

Init ==
    /\ level = [c \in Clients |-> Full]
    /\ rate \in [Clients -> Rates]
    /\ busy = {}

Fill ==
    /\ level' = [c \in Clients |-> Capped(level[c] + rate[c])]
    /\ UNCHANGED <<rate, busy>>

\* A token goes, and what there is of another may be lost with it.
Draw(c) ==
    /\ level[c] >= Second
    /\ \E left \in 0 .. level[c] - Second :
          /\ left > level[c] - 2 * Second
          /\ level' = [level EXCEPT ![c] = left]
    /\ UNCHANGED rate

Serve(c, t) ==
    /\ Draw(c)
    /\ t \notin busy /\ busy' = busy \cup {t}

Done(t) ==
    /\ t \in busy /\ busy' = busy \ {t}
    /\ UNCHANGED <<level, rate>>

NewRule(c) ==
    /\ \E r \in Rates : rate' = [rate EXCEPT ![c] = r]
    /\ level' = [level EXCEPT ![c] = Full]
    /\ UNCHANGED busy

Next ==
    \/ Fill
    \/ \E c \in Clients : NewRule(c)
    \/ \E t \in Threads : Done(t) \/ \E c \in Clients : Serve(c, t)

Spec == Init /\ [][Next]_bucketVars
=============================================================================
