----------------------------- MODULE QosThrottle -----------------------------
(***************************************************************************)
(* The throttle between the RPCs of one client (qos_throttle): a thread    *)
(* that has built an RPC, or that queues the writeback work, reads how     *)
(* long ago the last caller came, under qos->lock, and sleeps outside of   *)
(* it for what is missing of min_usec_between_rpcs.                        *)
(*                                                                         *)
(* Abstractions.  The wall clock is not set back.  A sleep lasts at least  *)
(* what the kernel promises and as much longer as the scheduler likes.     *)
(***************************************************************************)
EXTENDS Integers, FiniteSets

CONSTANTS
    Threads,     \* threads that send RPCs of the client
    Gaps,        \* values of min_usec_between_rpcs: the tau of rules, or what procfs sets
    UdelayLimit, \* 1000: sleeps below it are exact
    UsleepLimit, \* 20000: sleeps below it may be one microsecond short
    Msec,        \* 1000: longer ones are cut to milliseconds
    Boot,        \* the time at which the client is set up, counted from the epoch
    MaxTime      \* bound on the time

ASSUME ThrottleAssumption ==
    /\ Gaps \subseteq Nat
    /\ Msec \in Nat \ {0, 1} /\ UdelayLimit \in Nat \ {0} /\ UsleepLimit \in Nat
    /\ Boot \in Nat /\ MaxTime \in Nat /\ Boot <= MaxTime

VARIABLES
    now,     \* do_gettimeofday
    gap,     \* min_usec_between_rpcs
    lastRpc, \* last_rpc_time
    job,     \* job[t]: what a thread is doing here
    sends    \* history: the times of the last two RPCs of each thread

vars == <<now, gap, lastRpc, job, sends>>

\* A sleeping thread: what for, the gap it has read, and when it wakes up.
Jobs == [at : {"awake", "send", "queue"}, gap : Nat, until : Nat]
Awake == [at |-> "awake", gap |-> 0, until |-> Boot]
\* paced: the last RPC was throttled with a gap.
Sends == [last : Nat, before : Nat, paced : BOOLEAN]

Init ==
    /\ now = Boot /\ lastRpc = 0
    /\ gap = 0
    /\ job = [t \in Threads |-> Awake]
    /\ sends = [t \in Threads |-> [last |-> 0, before |-> 0, paced |-> FALSE]]

\* Mutant: a sleep may be short by one microsecond however short it is.
SleepShort(need) == IF need < UsleepLimit THEN need - 1 ELSE (need \div Msec) * Msec

\* udelay, usleep_range(need - 1, need) or msleep(need / 1000).
Sleep(need) ==
    IF need < UdelayLimit THEN need
    ELSE IF need < UsleepLimit THEN need - 1
    ELSE (need \div Msec) * Msec

Missing == gap - (now - lastRpc)

\* Mutant: the time that has passed is slept, not the time that is missing.
NeedPassed == IF gap # 0 /\ Missing > 0 THEN gap - Missing ELSE 0

Need == IF gap # 0 /\ Missing > 0 THEN Missing ELSE 0

\* qos_throttle: last_rpc_time is the time of the call, not of the RPC.
Throttle(t, what) ==
    /\ job[t].at = "awake"
    /\ job' = [job EXCEPT ![t] = [at |-> what, gap |-> gap, until |-> now + Sleep(Need)]]
    /\ lastRpc' = IF gap = 0 THEN lastRpc ELSE now
    /\ UNCHANGED <<now, gap, sends>>

\* osc_build_rpc goes on with ptlrpcd_add_req.
Send(t) ==
    /\ job[t].at = "send" /\ job[t].until <= now
    /\ job' = [job EXCEPT ![t] = Awake]
    /\ sends' = [sends EXCEPT ![t] =
                    [last |-> now, before |-> @.last, paced |-> job[t].gap # 0]]
    /\ UNCHANGED <<now, gap, lastRpc>>

\* osc_io_unplug0 goes on with ptlrpcd_queue_work.
Queue(t) ==
    /\ job[t].at = "queue" /\ job[t].until <= now
    /\ job' = [job EXCEPT ![t] = Awake]
    /\ UNCHANGED <<now, gap, lastRpc, sends>>

\* A rule that matches, or osc_min_brw_rpc_gap_seq_write.
SetGap == gap' \in Gaps /\ UNCHANGED <<now, lastRpc, job, sends>>

Tick == now < MaxTime /\ now' = now + 1 /\ UNCHANGED <<gap, lastRpc, job, sends>>

Next ==
    \/ \E t \in Threads : Throttle(t, "send") \/ Throttle(t, "queue") \/ Send(t) \/ Queue(t)
    \/ SetGap \/ Tick

Spec == Init /\ [][Next]_vars

----------------------------------------------------------------------------
(* Properties.                                                             *)

\* Every variable has its type.
TypeOK ==
    /\ now \in Boot .. MaxTime
    /\ gap \in Nat /\ lastRpc \in 0 .. now
    /\ job \in [Threads -> Jobs]
    /\ \A t \in Threads : job[t].until >= Boot
    /\ sends \in [Threads -> Sends]

Sent(t) == job[t].at = "send" /\ job'[t].at = "awake"

(* A thread sends at most two RPCs per gap: the last but one is a gap ago, *)
(* less what the kernel may cut of a sleep.  N threads together therefore  *)
(* send bursts of at most 2 * N per gap.                                   *)
Loss == Msec - 1
TwoPerGap ==
    [][\A t \in Threads :
          Sent(t) /\ job[t].gap # 0 /\ sends[t].paced
              => now >= sends[t].before + job[t].gap - Loss]_vars

=============================================================================
