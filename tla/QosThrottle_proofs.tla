------------------------- MODULE QosThrottle_proofs --------------------------
(***************************************************************************)
(* However many threads send and however the gap is changed meanwhile, a   *)
(* thread sends at most two RPCs per gap.                                  *)
(***************************************************************************)
EXTENDS QosThrottle, TLAPS

(* What the time of the last call is worth to a thread.  The call for its  *)
(* last RPC came after the RPC before; a sleep is measured from there.     *)
PaceOK(t) ==
    /\ sends[t].before <= sends[t].last /\ sends[t].last <= now
    /\ sends[t].paced => sends[t].before <= lastRpc
    /\ job[t].at # "awake" /\ job[t].gap # 0 => sends[t].last <= lastRpc
    /\ job[t].at # "awake" /\ job[t].gap # 0 /\ sends[t].paced
           => job[t].until >= sends[t].before + job[t].gap - Loss

IInv == TypeOK /\ \A t \in Threads : PaceOK(t)

----------------------------------------------------------------------------

(* A sleep is short by less than a millisecond, and not negative (udelay,  *)
(* usleep_range and msleep in qos_throttle).                               *)
LEMMA SleepBound ==
    ASSUME NEW need \in Nat
    PROVE  Sleep(need) \in Nat /\ need - Loss <= Sleep(need)
  <1> USE ThrottleAssumption
  <1> DEFINE q == need \div Msec
  <1>1. q \in Nat /\ q * Msec \in Nat /\ need < q * Msec + Msec
    BY Z3
  <1>2. CASE need < UdelayLimit
    BY <1>2 DEF Sleep, Loss
  <1>3. CASE ~(need < UdelayLimit) /\ need < UsleepLimit
    BY <1>3 DEF Sleep, Loss
  <1>4. CASE ~(need < UdelayLimit) /\ ~(need < UsleepLimit)
    <2>1. Sleep(need) = q * Msec
      BY <1>4 DEF Sleep
    <2> QED BY <1>1, <2>1 DEF Loss
  <1> QED BY <1>2, <1>3, <1>4

(* The types hold initially and every step keeps them.                     *)
LEMMA TypeStep ==
    /\ Init => TypeOK
    /\ TypeOK /\ [Next]_vars => TypeOK'
  <1> USE ThrottleAssumption
  <1>1. Init => TypeOK
    BY DEF Init, TypeOK, Jobs, Awake, Sends
  <1>2. ASSUME TypeOK, NEW t \in Threads, NEW what \in {"send", "queue"}, Throttle(t, what)
        PROVE  TypeOK'
    <2> DEFINE u == now + Sleep(Need)  j == [at |-> what, gap |-> gap, until |-> u]
    <2>1. Need \in Nat
      BY <1>2 DEF Need, Missing, TypeOK
    <2>2. u \in Nat /\ u >= Boot
      BY <1>2, <2>1, SleepBound DEF TypeOK
    <2> HIDE DEF u
    <2>3. j \in Jobs /\ j.until >= Boot
      BY <1>2, <2>2 DEF TypeOK, Jobs
    <2>4. job' = [job EXCEPT ![t] = j]
      BY <1>2 DEF Throttle, u
    <2> HIDE DEF j
    <2>5. job' \in [Threads -> Jobs] /\ \A k \in Threads : job'[k].until >= Boot
      BY <1>2, <2>3, <2>4 DEF TypeOK
    <2>6. lastRpc' \in 0 .. now'
      BY <1>2 DEF Throttle, TypeOK
    <2> QED BY <1>2, <2>5, <2>6 DEF Throttle, TypeOK
  <1>3. ASSUME TypeOK, NEW t \in Threads, Send(t) \/ Queue(t)
        PROVE  TypeOK'
    <2>1. Awake \in Jobs /\ Awake.until >= Boot
      BY DEF Awake, Jobs
    <2>2. job' = [job EXCEPT ![t] = Awake] /\ job \in [Threads -> Jobs]
      BY <1>3 DEF Send, Queue, TypeOK
    <2>3. job' \in [Threads -> Jobs] /\ \A k \in Threads : job'[k].until >= Boot
      <3> HIDE DEF Awake
      <3> QED BY <1>3, <2>1, <2>2 DEF TypeOK
    <2>4. sends' \in [Threads -> Sends]
      <3>1. CASE Queue(t)
        BY <1>3, <3>1 DEF Queue, TypeOK
      <3>2. CASE Send(t)
        <4> DEFINE b == job[t].gap # 0
                   r == [last |-> now, before |-> sends[t].last, paced |-> b]
        <4>1. b \in BOOLEAN
          OBVIOUS
        <4>2. now \in Nat /\ sends[t].last \in Nat
          BY <1>3 DEF TypeOK, Sends
        <4>3. sends' = [sends EXCEPT ![t] = r]
          BY <3>2 DEF Send
        <4> HIDE DEF b
        <4>4. r \in Sends
          BY <4>1, <4>2 DEF Sends
        <4> HIDE DEF r
        <4> QED BY <1>3, <4>3, <4>4 DEF TypeOK
      <3> QED BY <1>3, <3>1, <3>2
    <2> QED BY <1>3, <2>3, <2>4 DEF Send, Queue, TypeOK
  <1>4. ASSUME TypeOK, SetGap \/ Tick \/ UNCHANGED vars
        PROVE  TypeOK'
    <2>1. CASE SetGap
      BY <1>4, <2>1 DEF SetGap, TypeOK
    <2>2. CASE Tick
      <3>1. now' \in Boot .. MaxTime /\ lastRpc' \in 0 .. now'
        BY <1>4, <2>2 DEF Tick, TypeOK
      <3> QED BY <1>4, <2>2, <3>1 DEF Tick, TypeOK
    <2>3. CASE UNCHANGED vars
      BY <1>4, <2>3 DEF vars, TypeOK
    <2> QED BY <1>4, <2>1, <2>2, <2>3
  <1> QED BY <1>1, <1>2, <1>3, <1>4 DEF Next

(* A call measures from the last one, which came after the thread's last   *)
(* but one RPC.                                                            *)
LEMMA PaceStep ==
    ASSUME IInv, [Next]_vars, NEW k \in Threads
    PROVE  PaceOK(k)'
  <1> USE ThrottleAssumption
  <1>0. /\ now \in Nat /\ lastRpc \in Nat /\ lastRpc <= now /\ gap \in Nat
        /\ job \in [Threads -> Jobs] /\ sends \in [Threads -> Sends]
        /\ sends[k] \in Sends /\ sends[k].last \in Nat /\ sends[k].before \in Nat
        /\ PaceOK(k) /\ Loss \in Nat /\ job[k].gap \in Nat /\ job[k].until \in Nat
    BY DEF IInv, TypeOK, Loss, Jobs, Sends
  <1>1. ASSUME NEW t \in Threads, NEW what \in {"send", "queue"}, Throttle(t, what)
        PROVE  PaceOK(k)'
    <2>1. now' = now /\ sends' = sends /\ lastRpc' >= lastRpc /\ lastRpc' \in Nat
      BY <1>0, <1>1 DEF Throttle
    <2>2. CASE t # k
      <3>1. job'[k] = job[k]
        BY <1>0, <1>1, <2>2 DEF Throttle
      <3> QED BY <1>0, <2>1, <3>1 DEF PaceOK
    <2>3. CASE t = k
      <3>1. job'[k].gap = gap /\ job'[k].until = now + Sleep(Need)
        BY <1>0, <1>1, <2>3 DEF Throttle
      <3>2. Need \in Nat
        BY <1>0 DEF Need, Missing
      <3>3. Sleep(Need) \in Nat /\ Need - Loss <= Sleep(Need)
        BY <3>2, SleepBound
      <3>4. gap # 0 => lastRpc' = now /\ Need >= gap - (now - lastRpc)
        BY <1>0, <1>1, <3>2 DEF Throttle, Need, Missing
      <3>5. gap # 0 /\ sends[k].paced => now + Sleep(Need) >= sends[k].before + gap - Loss
        BY <1>0, <3>2, <3>3, <3>4 DEF PaceOK
      <3>6. gap # 0 => sends[k].last <= lastRpc'
        BY <1>0, <3>4 DEF PaceOK
      <3>7. Loss' = Loss
        BY DEF Loss
      <3> QED BY <1>0, <2>1, <3>1, <3>5, <3>6, <3>7 DEF PaceOK
    <2> QED BY <2>2, <2>3
  <1>2. ASSUME NEW t \in Threads, Send(t) \/ Queue(t)
        PROVE  PaceOK(k)'
    <2>1. now' = now /\ lastRpc' = lastRpc
      BY <1>2 DEF Send, Queue
    <2>2. CASE t # k
      <3>1. job'[k] = job[k] /\ sends'[k] = sends[k]
        BY <1>0, <1>2, <2>2 DEF Send, Queue
      <3> QED BY <1>0, <2>1, <3>1 DEF PaceOK
    <2>3. CASE t = k /\ Send(t)
      <3>1. job'[k].at = "awake" /\ job[k].at = "send"
        BY <1>0, <2>3 DEF Send, Awake
      <3>2. /\ sends'[k].last = now /\ sends'[k].before = sends[k].last
            /\ sends'[k].paced = (job[k].gap # 0)
        BY <1>0, <2>3 DEF Send, Sends
      <3>3. job[k].gap # 0 => sends[k].last <= lastRpc
        BY <1>0, <3>1 DEF PaceOK
      <3>4. sends'[k].paced => job[k].gap # 0
        BY <3>2
      <3>5. sends[k].last <= now
        BY <1>0 DEF PaceOK
      <3> QED BY <1>0, <2>1, <3>1, <3>2, <3>3, <3>4, <3>5 DEF PaceOK
    <2>4. CASE t = k /\ Queue(t)
      <3>1. job'[k].at = "awake" /\ sends' = sends
        BY <1>0, <2>4 DEF Queue, Awake
      <3> QED BY <1>0, <2>1, <3>1 DEF PaceOK
    <2> QED BY <1>2, <2>2, <2>3, <2>4
  <1>3. ASSUME SetGap \/ Tick \/ UNCHANGED vars
        PROVE  PaceOK(k)'
    BY <1>0, <1>3 DEF SetGap, Tick, vars, PaceOK
  <1> QED BY <1>1, <1>2, <1>3 DEF Next

(* The inductive invariant.                                                *)
LEMMA Invariance == Spec => []IInv
  <1>1. ASSUME Init PROVE IInv
    <2>1. \A t \in Threads : PaceOK(t)
      BY <1>1, ThrottleAssumption DEF Init, PaceOK, Awake
    <2> QED BY <1>1, <2>1, TypeStep DEF IInv
  <1>2. ASSUME IInv, [Next]_vars PROVE IInv'
    BY <1>2, TypeStep, PaceStep DEF IInv
  <1> QED BY <1>1, <1>2, PTL DEF Spec

(* The variables keep their types: no sleep is negative.                   *)
THEOREM ThrottleTypes == Spec => []TypeOK
  <1>1. IInv => TypeOK
    BY DEF IInv
  <1> QED BY <1>1, Invariance, PTL

(* A thread sends at most two RPCs per gap.                                *)
THEOREM AtMostTwoPerGap == Spec => TwoPerGap
  <1> DEFINE Paced == \A t \in Threads :
                 Sent(t) /\ job[t].gap # 0 /\ sends[t].paced
                     => now >= sends[t].before + job[t].gap - Loss
  <1>1. ASSUME IInv, [Next]_vars PROVE [Paced]_vars
    <2>1. SUFFICES ASSUME Next, NEW t \in Threads, Sent(t), job[t].gap # 0, sends[t].paced
                   PROVE  now >= sends[t].before + job[t].gap - Loss
      BY <1>1 DEF vars
    <2>2. job \in [Threads -> Jobs] /\ job[t].at = "send" /\ job'[t].at = "awake"
      BY <1>1, <2>1 DEF Sent, IInv, TypeOK
    <2>3. job[t].until >= sends[t].before + job[t].gap - Loss
      BY <1>1, <2>1, <2>2 DEF IInv, PaceOK
    <2>4. Send(t)
      BY <2>1, <2>2 DEF Next, Throttle, Send, Queue, SetGap, Tick
    <2>5. /\ job[t].until \in Nat /\ now \in Nat /\ sends[t].before \in Nat
          /\ job[t].gap \in Nat /\ Loss \in Int
      BY <1>1, ThrottleAssumption DEF IInv, TypeOK, Jobs, Sends, Loss
    <2> QED BY <2>3, <2>4, <2>5 DEF Send
  <1> QED BY <1>1, Invariance, PTL DEF Spec, TwoPerGap
=============================================================================
