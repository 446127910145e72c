------------------------------ MODULE TbfQueue -------------------------------
(***************************************************************************)
(* One partition of a service under the TBF policy: requests arrive, a     *)
(* service thread moves them to the queue of their client, and threads get *)
(* them from the client with the earliest deadline while it has tokens.    *)
(* When it has none the whole partition is throttled, and one hrtimer      *)
(* ends that.  What happens under scp_req_lock is one step; the callback   *)
(* of the timer takes no lock and is two.                                  *)
(*                                                                         *)
(* Abstractions.  Time is counted relative to now: tc_check_time by how    *)
(* long it is past, up to Horizon, when every bucket is full; clients      *)
(* beyond it are served in any order.  Rules are in TbfRules: here a client*)
(* may get new values whenever it asks for a resource.  The heap is the    *)
(* set of clients with requests, and ties are open, as in the code.  The   *)
(* service has no high-priority queue, so nothing is forced and nothing    *)
(* moves from one queue to the other, and it is not shut down.  Memory does*)
(* not run out: a client that cannot be allocated or put on the heap sends *)
(* its request to the policy the service falls back to, which is not here. *)
(***************************************************************************)
EXTENDS Integers, FiniteSets, FiniteSetsExt

CONSTANTS
    Clients,   \* nrs_tbf_client: NIDs or jobs
    Threads,   \* service threads of the partition
    Rates,     \* tr_rpc_rate of the rules
    Second,    \* NSEC_PER_SEC
    Depth,     \* tbf_depth
    Horizon,   \* longest time that is told apart
    MaxQueued, \* bound on the requests in the partition
    MaxRules,  \* bound on the changes of rule
    None       \* no client

ASSUME QueueAssumption ==
    /\ Rates \subseteq Nat \ {0} /\ Rates # {}
    /\ Second \in Nat \ {0} /\ Depth \in Nat \ {0} /\ Horizon \in Nat
    /\ MaxQueued \in Nat /\ MaxRules \in Nat
    /\ IsFiniteSet(Threads) /\ Threads # {} /\ None \notin Clients
    /\ \A r \in Rates : Depth * Second <= Horizon * r

VARIABLES
    rate,       \* tc_rpc_rate
    ntoken,     \* tc_ntoken
    elapsed,    \* now - tc_check_time
    incoming,   \* requests of each client on scp_req_incoming
    queued,     \* length of tc_list
    throttling, \* nrs_throttling
    armed,      \* th_timer is enqueued
    left,       \* th_deadline - now while the timer is enqueued, or 0
    callback,   \* where nrs_tbf_timer_cb is: "none", "clear" or "wake"
    thread,     \* thread[t]: asleep, awake, adding a request or busy
    client,     \* client[t]: whose request the thread is adding, or None
    rules       \* changes of rule so far

clientVars == <<rate, ntoken, elapsed, rules>>
timerVars == <<throttling, armed, left, callback>>
threadVars == <<thread, client>>
vars == <<clientVars, incoming, queued, timerVars, threadVars>>

Nsecs(r) == Second \div r
\* check_time + nsecs, from now.
Deadline(c) == Nsecs(rate[c]) - elapsed[c]

Remaining(c) == IF Deadline(c) > 0 THEN Deadline(c) ELSE 0

\* The tokens that nrs_tbf_req_get finds.
Tokens(c) ==
    LET n == ntoken[c] + (elapsed[c] * rate[c]) \div Second
    IN  IF n > Depth THEN Depth ELSE n

\* tbf_cli_compare; a client at the horizon may come before anybody.
Before(c, d) ==
    /\ elapsed[d] < Horizon
    /\ \/ Deadline(c) < Deadline(d)
       \/ Deadline(c) = Deadline(d) /\ elapsed[c] > elapsed[d]

InHeap == {c \in Clients : queued[c] > 0}
IsRoot(c) == c \in InHeap /\ \A d \in InHeap : ~Before(d, c)

Init ==
    /\ rate \in [Clients -> Rates]
    /\ ntoken = [c \in Clients |-> Depth]
    /\ elapsed = [c \in Clients |-> 0]
    /\ incoming = [c \in Clients |-> 0] /\ queued = [c \in Clients |-> 0]
    /\ throttling = FALSE /\ armed = FALSE /\ left = 0 /\ callback = "none"
    /\ thread = [t \in Threads |-> "asleep"]
    /\ client = [t \in Threads |-> None]
    /\ rules = 0

Active == {t \in Threads : thread[t] = "busy"}

\* Mutant: nobody is woken.
WakeNobody(th) == thread' = th

\* wake_up of an exclusive waiter, if there is one, after threads became th.
WakeOne(th) ==
    LET sleepers == {t \in Threads : th[t] = "asleep"} IN
    \/ sleepers = {} /\ thread' = th
    \/ \E t \in sleepers : thread' = [th EXCEPT ![t] = "awake"]

\* ptlrpc_server_allow_normal without force; the head of the queue throttles.
Allowed == ~throttling /\ Cardinality(Active) < Cardinality(Threads) - 1
Pending == Allowed /\ InHeap # {}
Incoming == \E c \in Clients : incoming[c] > 0

\* request_in_callback
Receive(c) ==
    /\ MapThenSumSet(LAMBDA d : incoming[d] + queued[d], Clients) < MaxQueued
    /\ incoming' = [incoming EXCEPT ![c] = @ + 1]
    /\ WakeOne(thread)
    /\ UNCHANGED <<clientVars, queued, timerVars, client>>

\* nrs_tbf_res_get: the values stay, or a rule has changed.
ResGet(c) ==
    \/ UNCHANGED clientVars
    \/ /\ rules < MaxRules /\ rules' = rules + 1
       /\ \E r \in Rates : rate' = [rate EXCEPT ![c] = r]
       /\ ntoken' = [ntoken EXCEPT ![c] = Depth]
       /\ elapsed' = [elapsed EXCEPT ![c] = 0]

\* ptlrpc_server_handle_req_in, until the queue is locked.
TakeIn(t, c) ==
    /\ thread[t] = "awake"
    /\ incoming[c] > 0
    /\ incoming' = [incoming EXCEPT ![c] = @ - 1]
    /\ ResGet(c)
    /\ thread' = [thread EXCEPT ![t] = "adding"]
    /\ client' = [client EXCEPT ![t] = c]
    /\ UNCHANGED <<queued, timerVars>>

\* ... or until it finds the request bad, perhaps after nrs_tbf_res_get.
Reject(t, c) ==
    /\ thread[t] = "awake"
    /\ incoming[c] > 0
    /\ incoming' = [incoming EXCEPT ![c] = @ - 1]
    /\ ResGet(c)
    /\ UNCHANGED <<queued, timerVars, threadVars>>

\* Mutant: the timer is cancelled for the earlier deadline and not started.
RearmForgets(c) ==
    IF throttling /\ left > Remaining(c) /\ callback = "none"
    THEN left' = 0 /\ armed' = FALSE
    ELSE UNCHANGED <<left, armed>>

\* The timer is moved forward, unless its callback is running.
Rearm(c) ==
    IF throttling /\ left > Remaining(c) /\ callback = "none"
    THEN left' = Remaining(c) /\ armed' = TRUE
    ELSE UNCHANGED <<left, armed>>

\* nrs_tbf_req_add and the wake_up after it.
Add(t) ==
    LET c == client[t] IN
    /\ thread[t] = "adding"
    /\ queued' = [queued EXCEPT ![c] = @ + 1]
    /\ IF queued[c] = 0 THEN Rearm(c) ELSE UNCHANGED <<left, armed>>
    /\ WakeOne([thread EXCEPT ![t] = "awake"])
    /\ client' = [client EXCEPT ![t] = None]
    /\ UNCHANGED <<clientVars, incoming, throttling, callback>>

\* The condition that ptlrpc_wait_event waits for does not hold.
Sleep(t) ==
    /\ thread[t] = "awake"
    /\ ~Incoming /\ ~Pending
    /\ thread' = [thread EXCEPT ![t] = "asleep"]
    /\ UNCHANGED <<clientVars, incoming, queued, timerVars, client>>

\* Mutant: a client without tokens is served.
TakeEarly(c) ==
    /\ Tokens(c) >= 0
    /\ ntoken' = [ntoken EXCEPT ![c] = Tokens(c) - 1]
    /\ elapsed' = [elapsed EXCEPT ![c] = 0]
    /\ queued' = [queued EXCEPT ![c] = @ - 1]
    /\ UNCHANGED <<rate, rules, timerVars>>

\* Mutant: the tokens left are those that came since, whatever was saved.
TakeFree(c) ==
    /\ Tokens(c) > 0
    /\ ntoken' = [ntoken EXCEPT ![c] = Tokens(c)]
    /\ elapsed' = [elapsed EXCEPT ![c] = 0]
    /\ queued' = [queued EXCEPT ![c] = @ - 1]
    /\ UNCHANGED <<rate, rules, timerVars>>

\* nrs_tbf_req_get takes the first request of a client that has tokens.
Take(c) ==
    /\ Tokens(c) > 0
    /\ ntoken' = [ntoken EXCEPT ![c] = Tokens(c) - 1]
    /\ elapsed' = [elapsed EXCEPT ![c] = 0]
    /\ queued' = [queued EXCEPT ![c] = @ - 1]
    /\ UNCHANGED <<rate, rules, timerVars>>

\* The earliest client has none: everybody waits until its deadline.
Throttle(c) ==
    /\ Tokens(c) <= 0
    /\ throttling' = TRUE /\ left' = Remaining(c) /\ armed' = TRUE
    /\ UNCHANGED <<clientVars, queued, callback>>

\* ptlrpc_server_request_get: a thread that finds nothing looks again.
Get(t, c) ==
    /\ thread[t] = "awake"
    /\ Pending /\ IsRoot(c)
    /\ \/ Take(c) /\ thread' = [thread EXCEPT ![t] = "busy"]
       \/ Throttle(c) /\ UNCHANGED thread
    /\ UNCHANGED <<incoming, client>>

\* The handler has replied.
Finish(t) ==
    /\ thread[t] = "busy"
    /\ thread' = [thread EXCEPT ![t] = "awake"]
    /\ UNCHANGED <<clientVars, incoming, queued, timerVars, client>>

Expire ==
    /\ armed /\ left = 0 /\ callback = "none"
    /\ armed' = FALSE /\ callback' = "clear"
    /\ UNCHANGED <<clientVars, incoming, queued, throttling, left, threadVars>>

\* Mutant: the callback ends without the wake_up.
ClearOnly ==
    /\ callback = "clear"
    /\ throttling' = FALSE /\ callback' = "none"
    /\ UNCHANGED <<clientVars, incoming, queued, armed, left, threadVars>>

\* nrs_tbf_timer_cb: the flag, then the wake_up.
Clear ==
    /\ callback = "clear"
    /\ throttling' = FALSE /\ callback' = "wake"
    /\ UNCHANGED <<clientVars, incoming, queued, armed, left, threadVars>>

Wake ==
    /\ callback = "wake"
    /\ WakeOne(thread) /\ callback' = "none"
    /\ UNCHANGED <<clientVars, incoming, queued, throttling, armed, left, client>>

Tick ==
    /\ elapsed' = [c \in Clients |->
                      IF elapsed[c] < Horizon THEN elapsed[c] + 1 ELSE elapsed[c]]
    /\ left' = IF left > 0 THEN left - 1 ELSE 0
    /\ UNCHANGED <<rate, ntoken, rules, incoming, queued, throttling, armed,
                   callback, threadVars>>

Next ==
    \/ \E c \in Clients : Receive(c)
    \/ \E t \in Threads : Add(t) \/ Sleep(t) \/ Finish(t)
    \/ \E t \in Threads, c \in Clients : TakeIn(t, c) \/ Reject(t, c) \/ Get(t, c)
    \/ Expire \/ Clear \/ Wake \/ Tick

Spec == Init /\ [][Next]_vars

(* Threads that can run do, timers expire and their callbacks end.  A      *)
(* thread handles a request at least after every hundred it moved          *)
(* (counter in ptlrpc_main), and the heap hands out the client that is     *)
(* oldest; both are strong fairness here.                                  *)
Fairness ==
    /\ \A t \in Threads : WF_vars(Add(t)) /\ WF_vars(Finish(t)) /\ WF_vars(Sleep(t))
    /\ \A t \in Threads : WF_vars(\E c \in Clients : TakeIn(t, c) \/ Reject(t, c))
    /\ \A c \in Clients : SF_vars(\E t \in Threads : Get(t, c))
    /\ WF_vars(Expire) /\ WF_vars(Clear) /\ WF_vars(Wake) /\ WF_vars(Tick)
FairSpec == Spec /\ Fairness

----------------------------------------------------------------------------
(* Properties.                                                             *)

\* Every variable has its type.
TypeOK ==
    /\ rate \in [Clients -> Rates]
    /\ ntoken \in [Clients -> 0 .. Depth]
    /\ elapsed \in [Clients -> 0 .. Horizon]
    /\ incoming \in [Clients -> Nat] /\ queued \in [Clients -> Nat]
    /\ throttling \in BOOLEAN /\ armed \in BOOLEAN /\ left \in Nat
    /\ callback \in {"none", "clear", "wake"}
    /\ thread \in [Threads -> {"asleep", "awake", "adding", "busy"}]
    /\ client \in [Threads -> Clients \cup {None}]
    /\ rules \in 0 .. MaxRules

(* A throttled partition has somebody who will end it: the timer is        *)
(* enqueued, or its callback has not cleared the flag yet.  req_get,       *)
(* req_add and the callback, which takes no lock, all move it.             *)
ThrottleEnds == throttling => armed \/ callback = "clear"

(* The threads are never all asleep while there is work that one of them   *)
(* may do, except between the two halves of the timer's callback: wake_up  *)
(* wakes one thread, and a thread that finds itself throttled sleeps.      *)
NobodySleepsOnWork ==
    /\ (Pending \/ Incoming) /\ callback # "wake"
    => \E t \in Threads : thread[t] # "asleep"

(* In each bucket there is what a token bucket of this rate and depth may  *)
(* hold: no way through tc_ntoken, tc_check_time and their rounding gives  *)
(* a client more requests than TokenBucket allows.                         *)
Level(c) ==
    LET n == ntoken[c] * Second + elapsed[c] * rate[c]
    IN  IF n < Depth * Second THEN n ELSE Depth * Second
Bucket == INSTANCE TokenBucket WITH
    Clients <- Clients, Threads <- Threads, Rates <- Rates,
    Second <- Second, Depth <- Depth,
    level <- [c \in Clients |-> Level(c)], rate <- rate, busy <- Active
BucketsHold == Bucket!Spec

(* As long as a client has requests in a service that runs, one of them is *)
(* taken again and again, however low its rate and whoever else sends.     *)
Served(c) == queued'[c] < queued[c]
RequestsServed ==
    \A c \in Clients :
        []<>(queued[c] > 0) => []<><<Served(c)>>_vars
=============================================================================
