--------------------------- MODULE TbfQueue_proofs ---------------------------
(***************************************************************************)
(* The partition under the TBF policy, for any number of clients and       *)
(* threads, any rates and any depth: throttling always has its end in      *)
(* sight, no work is left with everybody asleep, and every client is       *)
(* served as from a token bucket.                                          *)
(***************************************************************************)
EXTENDS TbfQueue, TLAPS

(* A thread that adds a request has a client.                              *)
AddersHaveClients == \A t \in Threads : thread[t] = "adding" => client[t] \in Clients

IInv == TypeOK /\ AddersHaveClients /\ ThrottleEnds

----------------------------------------------------------------------------

(* The constants are numbers of the expected ranges.                       *)
LEMMA Numbers ==
    /\ Second \in Nat \ {0} /\ Depth \in Nat \ {0} /\ Horizon \in Nat
    /\ \A r \in Rates : r \in Nat \ {0}
  BY QueueAssumption

(* A quotient, multiplied again, is at most what was divided.              *)
LEMMA DivUnder ==
    ASSUME NEW a \in Nat, NEW b \in Nat \ {0}
    PROVE  a \div b \in Nat /\ (a \div b) * b <= a
  BY Z3

(* What is lost by a division is less than the divisor.                    *)
LEMMA DivOver ==
    ASSUME NEW a \in Nat, NEW b \in Nat \ {0}
    PROVE  a < (a \div b) * b + b
  BY Z3

(* What a client earned since its check time is a natural number of        *)
(* tokens, at most the fraction it stands for, and less than one below.    *)
LEMMA Earned ==
    ASSUME TypeOK, NEW c \in Clients
    PROVE  /\ rate[c] \in Nat \ {0} /\ elapsed[c] \in Nat /\ ntoken[c] \in Nat
           /\ elapsed[c] * rate[c] \in Nat
           /\ (elapsed[c] * rate[c]) \div Second \in Nat
           /\ ((elapsed[c] * rate[c]) \div Second) * Second <= elapsed[c] * rate[c]
           /\ elapsed[c] * rate[c] < ((elapsed[c] * rate[c]) \div Second) * Second + Second
  <1>1. rate[c] \in Nat \ {0} /\ elapsed[c] \in Nat /\ ntoken[c] \in Nat
    BY Numbers DEF TypeOK
  <1>2. elapsed[c] * rate[c] \in Nat
    BY <1>1, Z3
  <1> QED BY <1>1, <1>2, DivUnder, DivOver, Numbers

(* The tokens req_get finds fit the bucket and are worth its level.        *)
LEMMA TokensFit ==
    ASSUME TypeOK, NEW c \in Clients
    PROVE  /\ Tokens(c) \in 0 .. Depth
           /\ Level(c) \in Nat /\ Level(c) <= Depth * Second
           /\ Tokens(c) * Second \in Nat /\ Tokens(c) * Second <= Level(c)
           /\ Level(c) < Tokens(c) * Second + Second
  <1> DEFINE n == ntoken[c]  x == elapsed[c] * rate[c]  q == x \div Second
  <1>1. n \in Nat /\ x \in Nat /\ q \in Nat /\ q * Second <= x /\ x < q * Second + Second
    BY Earned
  <1> HIDE DEF x, q, n
  <1>2. Tokens(c) = IF n + q > Depth THEN Depth ELSE n + q
    BY DEF Tokens, n, q, x
  <1>3. Level(c) = IF n * Second + x < Depth * Second THEN n * Second + x ELSE Depth * Second
    BY DEF Level, n, x
  <1>4. /\ n * Second \in Nat /\ Depth * Second \in Nat /\ q * Second \in Nat
        /\ (n + q) * Second = n * Second + q * Second
    BY <1>1, Numbers, Z3
  <1>5. Tokens(c) \in 0 .. Depth /\ Tokens(c) <= n + q
    BY <1>1, <1>2, Numbers
  <1>6. /\ Tokens(c) * Second \in Nat /\ Tokens(c) * Second <= Depth * Second
        /\ Tokens(c) * Second <= (n + q) * Second
    BY <1>1, <1>5, Numbers, Z3
  <1>7. Level(c) < Tokens(c) * Second + Second
    <2>1. CASE n + q > Depth
      BY <1>1, <1>2, <1>3, <1>4, <2>1, Numbers
    <2>2. CASE ~(n + q > Depth)
      <3>1. Tokens(c) * Second = n * Second + q * Second
        BY <1>2, <1>4, <2>2
      <3>2. Level(c) <= n * Second + x
        BY <1>1, <1>3, <1>4
      <3>3. Level(c) \in Nat
        BY <1>1, <1>3, <1>4
      <3> QED BY <1>1, <1>4, <3>1, <3>2, <3>3, Numbers
    <2> QED BY <2>1, <2>2
  <1> QED BY <1>1, <1>3, <1>4, <1>5, <1>6, <1>7

----------------------------------------------------------------------------

(* The actions of Next, one by one.                                        *)
LEMMA Cases ==
    ASSUME Next
    PROVE  \/ \E c \in Clients : Receive(c)
           \/ \E t \in Threads : Add(t)
           \/ \E t \in Threads : Sleep(t)
           \/ \E t \in Threads : Finish(t)
           \/ \E t \in Threads, c \in Clients : TakeIn(t, c)
           \/ \E t \in Threads, c \in Clients : Reject(t, c)
           \/ \E t \in Threads, c \in Clients : Get(t, c)
           \/ Expire \/ Clear \/ Wake \/ Tick
  BY DEF Next

States == {"asleep", "awake", "adding", "busy"}

(* A wake_up turns at most a sleeper into a thread that is awake.          *)
LEMMA WakeType ==
    ASSUME NEW th \in [Threads -> States], WakeOne(th)
    PROVE  /\ thread' \in [Threads -> States]
           /\ \A t \in Threads : thread'[t] = th[t]
                                 \/ (th[t] = "asleep" /\ thread'[t] = "awake")
  <1>1. CASE thread' = th
    BY <1>1
  <1>2. ASSUME NEW s \in Threads, th[s] = "asleep", thread' = [th EXCEPT ![s] = "awake"]
        PROVE  /\ thread' \in [Threads -> States]
               /\ \A t \in Threads : thread'[t] = th[t]
                                     \/ (th[t] = "asleep" /\ thread'[t] = "awake")
    <2>1. "awake" \in States
      BY DEF States
    <2> QED BY <1>2, <2>1
  <1> QED BY <1>1, <1>2 DEF WakeOne

(* Every step keeps the types, and clients where they are needed.          *)
LEMMA TypeStep ==
    ASSUME TypeOK, AddersHaveClients, [Next]_vars
    PROVE  TypeOK' /\ AddersHaveClients'
  <1> DEFINE Goal == TypeOK' /\ AddersHaveClients'
  <1>0. thread \in [Threads -> States]
    BY DEF TypeOK, States
  <1>1. CASE UNCHANGED vars
    BY <1>1 DEF vars, clientVars, timerVars, threadVars, TypeOK, AddersHaveClients
  <1>2. ASSUME NEW c \in Clients, Receive(c)
        PROVE  Goal
    <2>1. /\ incoming' = [incoming EXCEPT ![c] = @ + 1] /\ WakeOne(thread)
          /\ UNCHANGED <<clientVars, queued, timerVars, client>>
      BY <1>2, Zenon DEF Receive
    <2>2. incoming' \in [Clients -> Nat]
      BY <2>1 DEF TypeOK
    <2>3. /\ thread' \in [Threads -> States]
          /\ \A t \in Threads : thread'[t] = "adding" => thread[t] = "adding"
      BY <1>0, <2>1, WakeType
    <2> QED BY <2>1, <2>2, <2>3
            DEF TypeOK, AddersHaveClients, clientVars, timerVars, States
  <1>3. ASSUME NEW t \in Threads, Add(t)
        PROVE  Goal
    <2> DEFINE c == client[t]  th == [thread EXCEPT ![t] = "awake"]
    <2>1. c \in Clients
      BY <1>3 DEF Add, AddersHaveClients
    <2>2. th \in [Threads -> States] /\ WakeOne(th)
      BY <1>0, <1>3 DEF Add, States
    <2>3. /\ thread' \in [Threads -> States]
          /\ \A u \in Threads : thread'[u] = "adding" => u # t /\ thread[u] = "adding"
      <3> HIDE DEF th
      <3>1. /\ thread' \in [Threads -> States]
            /\ \A u \in Threads : thread'[u] = th[u]
                                  \/ (th[u] = "asleep" /\ thread'[u] = "awake")
        BY <2>2, WakeType
      <3> QED BY <1>0, <3>1 DEF th
    <2>4. left' \in Nat /\ armed' \in BOOLEAN
      <3>1. rate[c] \in Nat \ {0} /\ elapsed[c] \in Nat
        BY <2>1, Earned
      <3>2. Remaining(c) \in Nat
        BY <3>1, Numbers DEF Remaining, Deadline, Nsecs
      <3> QED BY <1>3, <3>2 DEF Add, Rearm, TypeOK
    <2>5. queued' \in [Clients -> Nat] /\ client' \in [Threads -> Clients \cup {None}]
          /\ \A u \in Threads : u # t => client'[u] = client[u]
      BY <1>3, <2>1 DEF Add, TypeOK
    <2> QED BY <1>3, <2>3, <2>4, <2>5 DEF Add, TypeOK, AddersHaveClients, clientVars, States
  <1>4. ASSUME NEW t \in Threads, Sleep(t)
        PROVE  Goal
    BY <1>4 DEF Sleep, TypeOK, AddersHaveClients, clientVars, timerVars
  <1>5. ASSUME NEW t \in Threads, Finish(t)
        PROVE  Goal
    BY <1>5 DEF Finish, TypeOK, AddersHaveClients, clientVars, timerVars
  <1> DEFINE Values == /\ rate' \in [Clients -> Rates] /\ ntoken' \in [Clients -> 0 .. Depth]
                       /\ elapsed' \in [Clients -> 0 .. Horizon] /\ rules' \in 0 .. MaxRules
  <1>r. ASSUME NEW c \in Clients, ResGet(c)
        PROVE  Values
    <2>1. CASE UNCHANGED clientVars
      BY <2>1 DEF clientVars, TypeOK
    <2>2. CASE ~UNCHANGED clientVars
      BY <1>r, <2>2, Numbers, QueueAssumption DEF ResGet, TypeOK
    <2> QED BY <2>1, <2>2
  <1>6. ASSUME NEW t \in Threads, NEW c \in Clients, TakeIn(t, c)
        PROVE  Goal
    <2>1. Values
      BY <1>6, <1>r DEF TakeIn
    <2>2. incoming' \in [Clients -> Nat]
      BY <1>6 DEF TakeIn, TypeOK
    <2> QED BY <1>6, <2>1, <2>2 DEF TakeIn, TypeOK, AddersHaveClients, timerVars
  <1>7. ASSUME NEW t \in Threads, NEW c \in Clients, Reject(t, c)
        PROVE  Goal
    <2>1. Values
      BY <1>7, <1>r DEF Reject
    <2>2. incoming' \in [Clients -> Nat]
      BY <1>7 DEF Reject, TypeOK
    <2> QED BY <1>7, <2>1, <2>2
            DEF Reject, TypeOK, AddersHaveClients, timerVars, threadVars
  <1>8. ASSUME NEW t \in Threads, NEW c \in Clients, Get(t, c)
        PROVE  Goal
    <2>1. CASE Take(c) /\ thread' = [thread EXCEPT ![t] = "busy"]
      <3>1. Tokens(c) \in 1 .. Depth
        BY <2>1, TokensFit, Numbers DEF Take
      <3>2. ntoken' \in [Clients -> 0 .. Depth] /\ elapsed' \in [Clients -> 0 .. Horizon]
        BY <2>1, <3>1, Numbers DEF Take, TypeOK
      <3>3. queued' \in [Clients -> Nat]
        BY <1>8, <2>1 DEF Get, Take, IsRoot, InHeap, TypeOK
      <3> QED BY <1>8, <2>1, <3>2, <3>3
              DEF Get, Take, TypeOK, AddersHaveClients, timerVars
    <2>2. CASE Throttle(c) /\ UNCHANGED thread
      <3>1. rate[c] \in Nat \ {0} /\ elapsed[c] \in Nat
        BY Earned
      <3>2. Remaining(c) \in Nat
        BY <3>1, Numbers DEF Remaining, Deadline, Nsecs
      <3> QED BY <1>8, <2>2, <3>2
              DEF Get, Throttle, TypeOK, AddersHaveClients, clientVars
    <2> QED BY <1>8, <2>1, <2>2 DEF Get
  <1>9. ASSUME Expire \/ Clear
        PROVE  Goal
    BY <1>9 DEF Expire, Clear, TypeOK, AddersHaveClients, clientVars, threadVars
  <1>10. ASSUME Wake
         PROVE  Goal
    BY <1>0, <1>10, WakeType DEF Wake, TypeOK, AddersHaveClients, clientVars, States
  <1>11. ASSUME Tick
         PROVE  Goal
    <2>1. elapsed' \in [Clients -> 0 .. Horizon] /\ left' \in Nat
      BY <1>11, Numbers DEF Tick, TypeOK
    <2> QED BY <1>11, <2>1 DEF Tick, TypeOK, AddersHaveClients, threadVars
  <1> QED BY <1>1, <1>2, <1>3, <1>4, <1>5, <1>6, <1>7, <1>8, <1>9, <1>10, <1>11, Cases

(* The inductive invariant: the timer or its callback is there whenever    *)
(* the partition is throttled.                                             *)
LEMMA Inductive ==
    /\ Init => IInv
    /\ IInv /\ [Next]_vars => IInv'
  <1>1. ASSUME Init PROVE IInv
    <2>1. /\ ntoken \in [Clients -> 0 .. Depth] /\ elapsed \in [Clients -> 0 .. Horizon]
          /\ incoming \in [Clients -> Nat] /\ queued \in [Clients -> Nat]
      BY <1>1, Numbers DEF Init
    <2>2. /\ thread \in [Threads -> {"asleep", "awake", "adding", "busy"}]
          /\ client \in [Threads -> Clients \cup {None}]
      BY <1>1 DEF Init
    <2>3. TypeOK
      <3>1. rate \in [Clients -> Rates] /\ rules = 0 /\ left = 0 /\ throttling = FALSE
            /\ armed = FALSE /\ callback = "none"
        BY <1>1 DEF Init
      <3>2. rules \in 0 .. MaxRules /\ left \in Nat
        BY <3>1, QueueAssumption
      <3> QED BY <2>1, <2>2, <3>1, <3>2 DEF TypeOK
    <2> QED BY <1>1, <2>3 DEF Init, IInv, AddersHaveClients, ThrottleEnds
  <1>2. ASSUME IInv, [Next]_vars PROVE IInv'
    <2>1. TypeOK' /\ AddersHaveClients'
      BY <1>2, TypeStep DEF IInv
    <2>2. ThrottleEnds'
      <3>1. CASE UNCHANGED timerVars
        BY <1>2, <3>1 DEF timerVars, IInv, ThrottleEnds
      <3>2. ASSUME NEW t \in Threads, Add(t)
            PROVE  ThrottleEnds'
        BY <1>2, <3>2 DEF Add, Rearm, IInv, ThrottleEnds
      <3>3. ASSUME NEW t \in Threads, NEW c \in Clients, Get(t, c)
            PROVE  ThrottleEnds'
        <4>1. CASE Throttle(c)
          BY <4>1 DEF Throttle, ThrottleEnds
        <4>2. CASE Take(c)
          BY <3>1, <4>2 DEF Take
        <4> QED BY <3>3, <4>1, <4>2 DEF Get
      <3>4. CASE Expire \/ Clear \/ Wake \/ Tick
        BY <1>2, <3>4 DEF Expire, Clear, Wake, Tick, IInv, ThrottleEnds
      <3>5. ASSUME \/ \E c \in Clients : Receive(c)
                   \/ \E t \in Threads : Sleep(t) \/ Finish(t)
                   \/ \E t \in Threads, c \in Clients : TakeIn(t, c) \/ Reject(t, c)
            PROVE  UNCHANGED timerVars
        BY <3>5, Zenon DEF Receive, Sleep, Finish, TakeIn, Reject
      <3>6. CASE UNCHANGED vars
        BY <3>1, <3>6 DEF vars
      <3> QED BY <1>2, <3>1, <3>2, <3>3, <3>4, <3>5, <3>6, Cases
    <2> QED BY <2>1, <2>2 DEF IInv
  <1> QED BY <1>1, <1>2

(* The invariant holds in every reachable state.                           *)
LEMMA Invariance == Spec => []IInv
  BY Inductive, PTL DEF Spec

(* The variables keep their types: in particular tokens never go below     *)
(* zero or above the depth (nrs_tbf_req_get).                              *)
THEOREM QueueTypes == Spec => []TypeOK
  <1>1. IInv => TypeOK
    BY DEF IInv
  <1> QED BY <1>1, Invariance, PTL

(* Whoever throttles the partition leaves a timer behind, and neither a    *)
(* request that moves it nor a callback that overtakes it loses it.        *)
THEOREM ThrottlingEnds == Spec => []ThrottleEnds
  <1>1. IInv => ThrottleEnds
    BY DEF IInv
  <1> QED BY <1>1, Invariance, PTL

----------------------------------------------------------------------------

Awake == \E t \in Threads : thread[t] # "asleep"

(* After a wake_up somebody is awake.                                      *)
LEMMA WakeWakes ==
    ASSUME NEW th \in [Threads -> States], WakeOne(th)
    PROVE  Awake'
  <1>1. CASE {t \in Threads : th[t] = "asleep"} = {} /\ thread' = th
    BY <1>1, QueueAssumption DEF Awake
  <1>2. ASSUME NEW t \in Threads, thread' = [th EXCEPT ![t] = "awake"]
        PROVE  Awake'
    BY <1>2 DEF Awake
  <1> QED BY <1>1, <1>2 DEF WakeOne

(* The threads of a partition are never all asleep while there is a        *)
(* request that one of them may take up.                                   *)
THEOREM WorkFindsAThread == Spec => []NobodySleepsOnWork
  <1>1. Init => NobodySleepsOnWork
    BY DEF Init, NobodySleepsOnWork, Pending, Incoming, InHeap
  <1>2. ASSUME IInv, NobodySleepsOnWork, [Next]_vars
        PROVE  NobodySleepsOnWork'
    <2>0. thread \in [Threads -> States] /\ thread' \in [Threads -> States]
      <3>1. TypeOK'
        BY <1>2, TypeStep DEF IInv
      <3> QED BY <1>2, <3>1 DEF IInv, TypeOK, States
    <2>1. ASSUME Awake' PROVE NobodySleepsOnWork'
      BY <2>1 DEF Awake, NobodySleepsOnWork
    <2>2. ASSUME UNCHANGED <<thread, incoming, queued, throttling>>,
                 callback = "wake" => Awake'
          PROVE  NobodySleepsOnWork'
      BY <1>2, <2>1, <2>2
         DEF NobodySleepsOnWork, Pending, Incoming, InHeap, Allowed, Active, Awake
    <2>3. ASSUME NEW c \in Clients, Receive(c) PROVE Awake'
      <3>1. WakeOne(thread)
        BY <2>3, Zenon DEF Receive
      <3> QED BY <2>0, <3>1, WakeWakes
    <2>4. ASSUME NEW t \in Threads, Add(t) PROVE Awake'
      <3>1. WakeOne([thread EXCEPT ![t] = "awake"])
        BY <2>4 DEF Add
      <3>2. [thread EXCEPT ![t] = "awake"] \in [Threads -> States]
        BY <2>0 DEF States
      <3> QED BY <3>1, <3>2, WakeWakes
    <2>5. ASSUME NEW t \in Threads, Sleep(t) PROVE NobodySleepsOnWork'
      <3>1. Active' = Active
        BY <2>0, <2>5 DEF Sleep, Active
      <3> QED BY <2>5, <3>1
              DEF Sleep, NobodySleepsOnWork, Pending, Incoming, InHeap, Allowed, timerVars
    <2>6. ASSUME NEW t \in Threads, \/ Finish(t)
                                    \/ \E c \in Clients : TakeIn(t, c) \/ Reject(t, c) \/ Get(t, c)
          PROVE  Awake'
      <3>1. thread'[t] # "asleep"
        BY <2>0, <2>6 DEF Finish, TakeIn, Reject, Get, threadVars
      <3> QED BY <3>1 DEF Awake
    <2>7. CASE Expire \/ Tick
      <3>1. UNCHANGED <<thread, incoming, queued, throttling>>
        BY <2>7 DEF Expire, Tick, threadVars
      <3>2. callback = "wake" => callback' = "wake"
        BY <2>7 DEF Expire, Tick
      <3> QED BY <1>2, <3>1, <3>2
              DEF NobodySleepsOnWork, Pending, Incoming, InHeap, Allowed, Active
    <2>8. CASE Clear
      BY <2>8 DEF Clear, NobodySleepsOnWork
    <2>9. CASE Wake
      <3>1. WakeOne(thread)
        BY <2>9 DEF Wake
      <3> QED BY <2>0, <2>1, <3>1, WakeWakes
    <2>10. CASE UNCHANGED vars
      BY <1>2, <2>10 DEF vars, timerVars, threadVars, NobodySleepsOnWork, Pending, Incoming,
                         InHeap, Allowed, Active
    <2> QED BY <1>2, <2>1, <2>3, <2>4, <2>5, <2>6, <2>7, <2>8, <2>9, <2>10, Cases
  <1> QED BY <1>1, <1>2, Invariance, PTL DEF Spec

----------------------------------------------------------------------------

(* Time fills the bucket as the promise says: beyond the horizon it is     *)
(* full.                                                                   *)
LEMMA TickFills ==
    ASSUME TypeOK, Tick, NEW c \in Clients
    PROVE  Level(c)' = Bucket!Capped(Level(c) + rate[c])
  <1> DEFINE n == ntoken[c] * Second  e == elapsed[c]  r == rate[c]  full == Depth * Second
  <1>1. n \in Nat /\ e \in 0 .. Horizon /\ r \in Nat \ {0} /\ full \in Nat /\ e * r \in Nat
    <2>1. ntoken[c] * Second \in Nat /\ Depth * Second \in Nat
      <3>1. ntoken[c] \in Nat
        BY Numbers DEF TypeOK
      <3> QED BY <3>1, Numbers, Z3
    <2> QED BY <2>1, Earned DEF TypeOK
  <1>2. /\ elapsed'[c] = IF e < Horizon THEN e + 1 ELSE e
        /\ ntoken' = ntoken /\ rate' = rate
    BY DEF Tick, TypeOK
  <1>3. Level(c) = IF n + e * r < full THEN n + e * r ELSE full
    BY DEF Level
  <1>4. Level(c)' = IF n + elapsed'[c] * r < full THEN n + elapsed'[c] * r ELSE full
    BY <1>2 DEF Level
  <1>5. Bucket!Capped(Level(c) + r) = IF Level(c) + r < full THEN Level(c) + r ELSE full
    BY DEF Bucket!Capped, Bucket!Full
  <1>6. full <= Horizon * r /\ Horizon * r \in Nat
    <2>1. rate[c] \in Rates
      BY DEF TypeOK
    <2>2. Horizon * r \in Nat
      BY <1>1, Numbers, Z3
    <2> QED BY <2>1, <2>2, QueueAssumption
  <1>7. (e + 1) * r = e * r + r
    BY <1>1, Z3
  <1> HIDE DEF n, full
  <1>8. CASE e < Horizon
    <2>1. elapsed'[c] * r = e * r + r
      BY <1>2, <1>7, <1>8
    <2> QED BY <1>1, <1>3, <1>4, <1>5, <2>1
  <1>9. CASE ~(e < Horizon)
    <2>1. e = Horizon /\ elapsed'[c] = Horizon
      BY <1>1, <1>2, <1>9, Numbers
    <2>2. Level(c) = full /\ Level(c)' = full
      BY <1>1, <1>3, <1>4, <1>6, <2>1
    <2> QED BY <1>1, <1>5, <2>2
  <1> QED BY <1>8, <1>9

(* A request that is taken costs a token, and what is in the bucket is     *)
(* rounded down, by less than another.                                     *)
LEMMA TakeDraws ==
    ASSUME TypeOK, NEW c \in Clients, Take(c)
    PROVE  /\ Level(c) \in Nat /\ Level(c) >= Second
           /\ Level(c)' \in 0 .. Level(c) - Second
           /\ Level(c)' > Level(c) - 2 * Second
           /\ \A d \in Clients \ {c} : Level(d)' = Level(d)
  <1> DEFINE k == Tokens(c)
  <1>1. /\ k \in 1 .. Depth /\ Level(c) \in Nat /\ k * Second \in Nat /\ k * Second <= Level(c)
        /\ Level(c) < k * Second + Second
    BY TokensFit, Numbers DEF Take
  <1>2. /\ ntoken' = [ntoken EXCEPT ![c] = k - 1] /\ elapsed' = [elapsed EXCEPT ![c] = 0]
        /\ rate' = rate
    BY DEF Take
  <1> HIDE DEF k
  <1>3. (k - 1) * Second \in Nat /\ (k - 1) * Second = k * Second - Second
        /\ (k - 1) * Second <= Depth * Second /\ Depth * Second \in Nat
    <2>1. k - 1 \in Nat /\ k - 1 <= Depth
      BY <1>1, Numbers
    <2> QED BY <1>1, <2>1, Numbers, Z3
  <1>4. Level(c)' = (k - 1) * Second
    <2>1. ntoken'[c] = k - 1 /\ elapsed'[c] = 0 /\ rate'[c] \in Nat
      BY <1>2, Numbers DEF TypeOK
    <2>2. elapsed'[c] * rate'[c] = 0
      BY <2>1, Z3
    <2>3. Level(c)' = IF (k - 1) * Second + 0 < Depth * Second
                      THEN (k - 1) * Second + 0 ELSE Depth * Second
      BY <2>1, <2>2 DEF Level
    <2> QED BY <1>3, <2>3
  <1>5. \A d \in Clients \ {c} : Level(d)' = Level(d)
    BY <1>2 DEF Level, TypeOK
  <1> QED BY <1>1, <1>3, <1>4, <1>5, Numbers

(* With a new rule the bucket is full.                                     *)
LEMMA RuleFills ==
    ASSUME TypeOK, NEW c \in Clients, ResGet(c), ~UNCHANGED clientVars
    PROVE  /\ \E r \in Rates : rate' = [rate EXCEPT ![c] = r]
           /\ Level(c)' = Depth * Second
           /\ \A d \in Clients \ {c} : Level(d)' = Level(d)
  <1>1. PICK r \in Rates : rate' = [rate EXCEPT ![c] = r]
    BY DEF ResGet
  <1>2. ntoken' = [ntoken EXCEPT ![c] = Depth] /\ elapsed' = [elapsed EXCEPT ![c] = 0]
    BY DEF ResGet
  <1>3. ntoken'[c] = Depth /\ elapsed'[c] = 0 /\ rate'[c] \in Nat
    BY <1>1, <1>2, Numbers DEF TypeOK
  <1>4. elapsed'[c] * rate'[c] = 0 /\ Depth * Second \in Nat
    BY <1>3, Numbers, Z3
  <1>5. Level(c)' = Depth * Second
    BY <1>3, <1>4 DEF Level
  <1>6. \A d \in Clients \ {c} : Level(d)' = Level(d)
    BY <1>1, <1>2 DEF Level, TypeOK
  <1> QED BY <1>1, <1>5, <1>6

(* Waking a thread makes nobody busy or idle.                              *)
LEMMA WakeKeepsActive ==
    ASSUME NEW th \in [Threads -> States], WakeOne(th)
    PROVE  Active' = {t \in Threads : th[t] = "busy"}
  BY WakeType DEF Active, States

(* Every bucket is full at the beginning.                                  *)
LEMMA FullAtFirst ==
    ASSUME Init, NEW c \in Clients
    PROVE  Level(c) = Depth * Second /\ Depth * Second \in Nat
  <1>1. ntoken[c] = Depth /\ elapsed[c] = 0 /\ rate[c] \in Nat
    BY Numbers DEF Init
  <1>2. elapsed[c] * rate[c] = 0 /\ Depth * Second \in Nat
    BY <1>1, Numbers, Z3
  <1> QED BY <1>1, <1>2 DEF Level

(* Levels are the state of a token bucket: every step of the partition is  *)
(* one of the promise or leaves it alone.                                  *)
THEOREM QueueImplementsBucket == Spec => BucketsHold
  <1> DEFINE levels == [c \in Clients |-> Level(c)]
  <1>1. ASSUME Init PROVE Bucket!Init
    <2>1. \A c \in Clients : Level(c) = Depth * Second
      BY <1>1, FullAtFirst
    <2>2. rate \in [Clients -> Rates] /\ Active = {}
      BY <1>1 DEF Init, Active
    <2> QED BY <2>1, <2>2 DEF Bucket!Init, Bucket!Full
  <1>2. ASSUME IInv, [Next]_vars
        PROVE  [Bucket!Next]_(Bucket!bucketVars)
    <2>0. TypeOK /\ thread \in [Threads -> States]
      BY <1>2 DEF IInv, TypeOK, States
    <2>1. ASSUME UNCHANGED <<rate, ntoken, elapsed>>, Active' = Active
          PROVE  [Bucket!Next]_(Bucket!bucketVars)
      <3>1. levels' = levels
        BY <2>1 DEF Level
      <3> QED BY <2>1, <3>1 DEF Bucket!bucketVars
    <2>2. ASSUME NEW c \in Clients, Receive(c)
          PROVE  [Bucket!Next]_(Bucket!bucketVars)
      <3>1. WakeOne(thread) /\ UNCHANGED clientVars
        BY <2>2, Zenon DEF Receive
      <3>2. Active' = Active
        BY <2>0, <3>1, WakeKeepsActive DEF Active
      <3> QED BY <2>1, <3>1, <3>2 DEF clientVars
    <2>3. ASSUME NEW t \in Threads, Add(t)
          PROVE  [Bucket!Next]_(Bucket!bucketVars)
      <3> DEFINE th == [thread EXCEPT ![t] = "awake"]
      <3>1. WakeOne(th) /\ th \in [Threads -> States] /\ UNCHANGED clientVars
        BY <2>0, <2>3 DEF Add, States
      <3>2. {u \in Threads : th[u] = "busy"} = Active
        BY <2>0, <2>3 DEF Add, Active
      <3> HIDE DEF th
      <3>3. Active' = Active
        BY <3>1, <3>2, WakeKeepsActive
      <3> QED BY <2>1, <3>1, <3>3 DEF clientVars
    <2>4. ASSUME NEW t \in Threads, Sleep(t)
          PROVE  [Bucket!Next]_(Bucket!bucketVars)
      <3>1. Active' = Active /\ UNCHANGED clientVars
        BY <2>0, <2>4 DEF Sleep, Active
      <3> QED BY <2>1, <3>1 DEF clientVars
    <2>5. ASSUME NEW t \in Threads, Finish(t)
          PROVE  [Bucket!Next]_(Bucket!bucketVars)
      <3>1. t \in Active /\ Active' = Active \ {t} /\ UNCHANGED clientVars
        BY <2>0, <2>5 DEF Finish, Active
      <3>2. levels' = levels
        BY <3>1 DEF clientVars, Level
      <3>3. Bucket!Done(t)
        BY <3>1, <3>2 DEF Bucket!Done, clientVars
      <3> QED BY <3>3 DEF Bucket!Next
    <2>6. ASSUME NEW t \in Threads, NEW c \in Clients, TakeIn(t, c) \/ Reject(t, c)
          PROVE  [Bucket!Next]_(Bucket!bucketVars)
      <3>1. Active' = Active
        BY <2>0, <2>6 DEF TakeIn, Reject, threadVars, Active
      <3>2. CASE UNCHANGED clientVars
        BY <2>1, <3>1, <3>2 DEF clientVars
      <3>3. CASE ~UNCHANGED clientVars
        <4>1. /\ \E r \in Rates : rate' = [rate EXCEPT ![c] = r]
              /\ Level(c)' = Depth * Second
              /\ \A d \in Clients \ {c} : Level(d)' = Level(d)
          BY <2>0, <2>6, <3>3, RuleFills DEF TakeIn, Reject
        <4>2. levels' = [levels EXCEPT ![c] = Depth * Second]
          BY <4>1
        <4>3. Bucket!NewRule(c)
          BY <3>1, <4>1, <4>2 DEF Bucket!NewRule, Bucket!Full
        <4> QED BY <4>3 DEF Bucket!Next
      <3> QED BY <3>2, <3>3
    <2>7. ASSUME NEW t \in Threads, NEW c \in Clients, Get(t, c)
          PROVE  [Bucket!Next]_(Bucket!bucketVars)
      <3>1. CASE Throttle(c) /\ UNCHANGED thread
        BY <2>1, <3>1 DEF Throttle, clientVars, Active
      <3>2. CASE Take(c) /\ thread' = [thread EXCEPT ![t] = "busy"]
        <4>1. t \notin Active /\ Active' = Active \cup {t}
          BY <2>0, <2>7, <3>2 DEF Get, Active
        <4>2. /\ Level(c) \in Nat /\ Level(c) >= Second
              /\ Level(c)' \in 0 .. Level(c) - Second
              /\ Level(c)' > Level(c) - 2 * Second
              /\ \A d \in Clients \ {c} : Level(d)' = Level(d)
          BY <2>0, <3>2, TakeDraws
        <4>3. levels' = [levels EXCEPT ![c] = Level(c)'] /\ levels[c] = Level(c)
          BY <4>2
        <4>4. Bucket!Draw(c)
          BY <3>2, <4>2, <4>3 DEF Bucket!Draw, Take
        <4>5. Bucket!Serve(c, t)
          BY <4>1, <4>4 DEF Bucket!Serve
        <4> QED BY <4>5 DEF Bucket!Next
      <3> QED BY <2>7, <3>1, <3>2 DEF Get
    <2>8. CASE Expire \/ Clear
      BY <2>1, <2>8 DEF Expire, Clear, clientVars, threadVars, Active
    <2>9. CASE Wake
      <3>1. WakeOne(thread) /\ UNCHANGED clientVars
        BY <2>9 DEF Wake
      <3>2. Active' = Active
        BY <2>0, <3>1, WakeKeepsActive DEF Active
      <3> QED BY <2>1, <3>1, <3>2 DEF clientVars
    <2>10. CASE Tick
      <3>1. \A c \in Clients : Level(c)' = Bucket!Capped(Level(c) + rate[c])
        BY <2>0, <2>10, TickFills
      <3>2. levels' = [c \in Clients |-> Bucket!Capped(levels[c] + rate[c])]
        BY <3>1
      <3>3. UNCHANGED <<rate, Active>>
        BY <2>10 DEF Tick, threadVars, Active
      <3>4. Bucket!Fill
        BY <3>2, <3>3 DEF Bucket!Fill
      <3> QED BY <3>4 DEF Bucket!Next
    <2>11. CASE UNCHANGED vars
      BY <2>1, <2>11 DEF vars, clientVars, threadVars, Active
    <2> QED BY <1>2, <2>2, <2>3, <2>4, <2>5, <2>6, <2>7, <2>8, <2>9, <2>10, <2>11, Cases
  <1> QED BY <1>1, <1>2, Invariance, PTL DEF Spec, BucketsHold, Bucket!Spec

(***************************************************************************)
(* What a client gets, in numbers.  An observer counts, and may begin to   *)
(* at any time: the requests taken, what the bucket was worth and got      *)
(* meanwhile, and the same since the bucket was last full.                 *)
(***************************************************************************)
VARIABLES
    served,  \* requests taken since the observer began
    allowed, \* what the bucket holds at most and was filled with since, in fractions
    got,     \* requests taken since the bucket was full
    earned   \* what it was filled with since then

counts == <<served, allowed, got, earned>>
Full == Depth * Second
Zero == [c \in Clients |-> 0]

(* A step that gives client c another rule.                                *)
RuleFor(c) == rules' # rules /\ incoming'[c] # incoming[c]
Taken(c) == IF Served(c) THEN 1 ELSE 0
Filled(c) == IF Tick THEN rate[c] ELSE 0

Count ==
    /\ served' = [c \in Clients |-> served[c] + Taken(c)]
    /\ allowed' = [c \in Clients |-> allowed[c] + Filled(c) + IF RuleFor(c) THEN Full ELSE 0]
    /\ got' = [c \in Clients |-> IF Level(c)' = Full THEN 0 ELSE got[c] + Taken(c)]
    /\ earned' = [c \in Clients |-> IF Level(c)' = Full THEN 0 ELSE earned[c] + Filled(c)]

BeginAnew ==
    /\ served' = Zero /\ allowed' = [c \in Clients |-> Full]
    /\ UNCHANGED <<vars, got, earned>>

CountInit == Init /\ served = Zero /\ allowed = [c \in Clients |-> Full] /\ got = Zero /\ earned = Zero
CountNext == ([Next]_vars /\ Count) \/ BeginAnew
CountSpec == CountInit /\ [][CountNext]_<<vars, counts>>

(* The balance: what was taken and what is left were allowed, and what was *)
(* earned is left, was taken or was rounded off when something was taken.  *)
Balance ==
    /\ served \in [Clients -> Nat] /\ allowed \in [Clients -> Nat]
    /\ got \in [Clients -> Nat] /\ earned \in [Clients -> Nat]
    /\ \A c \in Clients :
          /\ served[c] * Second + Level(c) <= allowed[c]
          /\ Full + earned[c] <= got[c] * (2 * Second - 1) + Level(c)

(* What a step does to the level of a client.                              *)
LEMMA LevelStep ==
    ASSUME IInv, [Next]_vars, NEW c \in Clients
    PROVE  \/ /\ Tick /\ ~Served(c) /\ ~RuleFor(c)
              /\ Level(c)' = Bucket!Capped(Level(c) + rate[c])
           \/ /\ ~Tick /\ Served(c) /\ ~RuleFor(c)
              /\ Level(c)' \in 0 .. Level(c) - Second
              /\ Level(c)' > Level(c) - 2 * Second
           \/ ~Tick /\ ~Served(c) /\ RuleFor(c) /\ Level(c)' = Full
           \/ ~Tick /\ ~Served(c) /\ ~RuleFor(c) /\ Level(c)' = Level(c)
  <1>0. /\ TypeOK /\ \A d \in Clients : queued[d] \in Nat /\ incoming[d] \in Nat
        /\ rules \in Nat
    BY Numbers, QueueAssumption DEF IInv, TypeOK
  <1>1. CASE Tick
    BY <1>0, <1>1, TickFills DEF Tick, Served, RuleFor
  <1>2. CASE ~Tick /\ UNCHANGED <<rate, ntoken, elapsed, rules>> /\ ~Served(c)
    BY <1>2 DEF RuleFor, Level
  <1>3. CASE \E d \in Clients : Receive(d)
    <2>1. UNCHANGED clientVars /\ queued' = queued
      BY <1>3, Zenon DEF Receive
    <2> QED BY <1>0, <1>1, <1>2, <2>1 DEF clientVars, Served
  <1>4. CASE \E t \in Threads : Add(t)
    <2>1. PICK t \in Threads : Add(t)
      BY <1>4
    <2>2. client[t] \in Clients /\ thread[t] = "adding"
      BY <2>1 DEF Add, IInv, AddersHaveClients
    <2>3. queued' = [queued EXCEPT ![client[t]] = @ + 1] /\ UNCHANGED clientVars
      BY <2>1 DEF Add
    <2>4. ~Served(c)
      BY <1>0, <2>2, <2>3 DEF Served, IInv, TypeOK
    <2> QED BY <1>1, <1>2, <2>3, <2>4 DEF clientVars
  <1>5. CASE \E t \in Threads : Sleep(t) \/ Finish(t)
    <2>1. UNCHANGED clientVars /\ queued' = queued
      BY <1>5 DEF Sleep, Finish
    <2> QED BY <1>0, <1>1, <1>2, <2>1 DEF clientVars, Served
  <1>6. CASE Expire \/ Clear \/ Wake \/ UNCHANGED vars
    <2>1. UNCHANGED clientVars /\ queued' = queued
      BY <1>6 DEF Expire, Clear, Wake, vars
    <2> QED BY <1>0, <1>1, <1>2, <2>1 DEF clientVars, Served
  <1>7. ASSUME NEW t \in Threads, NEW d \in Clients, Get(t, d), ~Tick
        PROVE  \/ Served(c) /\ ~RuleFor(c)
                  /\ Level(c)' \in 0 .. Level(c) - Second
                  /\ Level(c)' > Level(c) - 2 * Second
               \/ ~Served(c) /\ ~RuleFor(c) /\ Level(c)' = Level(c)
    <2>1. CASE Throttle(d)
      BY <1>0, <2>1 DEF Throttle, clientVars, Served, RuleFor, Level
    <2>2. CASE Take(d)
      <3>1. queued' = [queued EXCEPT ![d] = @ - 1] /\ rules' = rules
        BY <2>2 DEF Take
      <3>2. (Served(c) <=> c = d) /\ ~RuleFor(c)
        BY <1>0, <3>1 DEF Served, RuleFor, TypeOK
      <3> QED BY <1>0, <2>2, <3>2, TakeDraws
    <2> QED BY <1>7, <2>1, <2>2 DEF Get
  <1>8. ASSUME NEW t \in Threads, NEW d \in Clients, TakeIn(t, d) \/ Reject(t, d), ~Tick
        PROVE  /\ ~Served(c)
               /\ \/ RuleFor(c) /\ Level(c)' = Full
                  \/ ~RuleFor(c) /\ Level(c)' = Level(c)
    <2>1. queued' = queued /\ incoming' = [incoming EXCEPT ![d] = @ - 1] /\ ResGet(d)
      BY <1>8 DEF TakeIn, Reject
    <2>2. ~Served(c)
      BY <1>0, <2>1 DEF Served
    <2>3. CASE UNCHANGED clientVars
      BY <2>2, <2>3 DEF clientVars, RuleFor, Level
    <2>4. CASE ~UNCHANGED clientVars
      <3>1. rules' = rules + 1
        BY <2>1, <2>4 DEF ResGet
      <3>2. RuleFor(c) <=> c = d
        BY <1>0, <2>1, <3>1 DEF RuleFor, TypeOK
      <3> QED BY <1>0, <2>1, <2>2, <2>4, <3>2, RuleFills DEF Full
    <2> QED BY <2>3, <2>4
  <1> QED BY <1>1, <1>3, <1>4, <1>5, <1>6, <1>7, <1>8, Cases

(* The balance is kept.                                                    *)
LEMMA BalanceStep ==
    ASSUME IInv, Balance, CountNext
    PROVE  Balance'
  <1>0. /\ TypeOK /\ Second \in Nat \ {0} /\ Full \in Nat
        /\ \A c \in Clients : Level(c) \in 0 .. Full /\ rate[c] \in Nat
    <2>1. TypeOK /\ Second \in Nat \ {0} /\ Depth \in Nat
      BY Numbers DEF IInv
    <2>2. Full \in Nat
      BY <2>1, Z3 DEF Full
    <2> QED BY <2>1, <2>2, Numbers, TokensFit DEF TypeOK, Full
  <1>1. CASE BeginAnew
    <2>1. served' = Zero /\ allowed' = [c \in Clients |-> Full] /\ UNCHANGED <<got, earned>>
      BY <1>1 DEF BeginAnew
    <2>2. \A c \in Clients : Level(c)' = Level(c)
      BY <1>1 DEF BeginAnew, vars, clientVars, Level
    <2>3. \A c \in Clients : served'[c] * Second = 0
      BY <1>0, <2>1 DEF Zero
    <2> QED BY <1>0, <2>1, <2>2, <2>3 DEF Balance, Zero
  <1>2. CASE [Next]_vars /\ Count
    <2> SUFFICES ASSUME NEW c \in Clients
                 PROVE  /\ served'[c] \in Nat /\ allowed'[c] \in Nat
                        /\ got'[c] \in Nat /\ earned'[c] \in Nat
                        /\ served'[c] * Second + Level(c)' <= allowed'[c]
                        /\ Full + earned'[c] <= got'[c] * (2 * Second - 1) + Level(c)'
      BY <1>2 DEF Balance, Count
    <2>1. /\ served'[c] = served[c] + Taken(c)
          /\ allowed'[c] = allowed[c] + Filled(c) + IF RuleFor(c) THEN Full ELSE 0
          /\ got'[c] = IF Level(c)' = Full THEN 0 ELSE got[c] + Taken(c)
          /\ earned'[c] = IF Level(c)' = Full THEN 0 ELSE earned[c] + Filled(c)
      BY <1>2 DEF Count
    <2>2. /\ served[c] \in Nat /\ allowed[c] \in Nat /\ got[c] \in Nat /\ earned[c] \in Nat
          /\ served[c] * Second + Level(c) <= allowed[c]
          /\ Full + earned[c] <= got[c] * (2 * Second - 1) + Level(c)
          /\ Level(c) \in Nat /\ Level(c) <= Full /\ rate[c] \in Nat
      BY <1>0 DEF Balance
    <2>3. /\ served[c] * Second \in Nat /\ (served[c] + 1) * Second = served[c] * Second + Second
          /\ got[c] * (2 * Second - 1) \in Nat
          /\ (got[c] + 1) * (2 * Second - 1) = got[c] * (2 * Second - 1) + 2 * Second - 1
          /\ served[c] + 0 = served[c] /\ got[c] + 0 = got[c]
      BY <1>0, <2>2, Z3
    <2>4. 0 * (2 * Second - 1) = 0
      BY <1>0
    <2> DEFINE a == served[c] * Second  b == got[c] * (2 * Second - 1)
               a1 == served'[c] * Second  b1 == got'[c] * (2 * Second - 1)
               k == Level(c)  k1 == Level(c)'
    <2>5. a \in Nat /\ b \in Nat /\ k \in Nat /\ k <= Full /\ a + k <= allowed[c] /\ Full + earned[c] <= b + k
      BY <2>2, <2>3
    <2>6. CASE Tick /\ ~Served(c) /\ ~RuleFor(c) /\ k1 = Bucket!Capped(k + rate[c])
      <3>1. k1 = IF k + rate[c] < Full THEN k + rate[c] ELSE Full
        BY <2>6 DEF Bucket!Capped, Bucket!Full, Full
      <3>2. a1 = a /\ served'[c] = served[c] /\ allowed'[c] = allowed[c] + rate[c]
        BY <2>1, <2>2, <2>6 DEF Taken, Filled
      <3>3. /\ got'[c] = IF k1 = Full THEN 0 ELSE got[c]
            /\ earned'[c] = IF k1 = Full THEN 0 ELSE earned[c] + rate[c]
        BY <2>1, <2>2, <2>6 DEF Taken, Filled
      <3>4. b1 = IF k1 = Full THEN 0 ELSE b
        BY <2>4, <3>3
      <3> HIDE DEF a, b, a1, b1, k, k1
      <3>5. k1 \in Nat
        BY <1>0, <2>2, <2>5, <3>1
      <3>6. /\ served'[c] \in Nat /\ allowed'[c] \in Nat /\ got'[c] \in Nat /\ earned'[c] \in Nat
            /\ a1 + k1 <= allowed'[c] /\ Full + earned'[c] <= b1 + k1
        BY <1>0, <2>2, <2>5, <3>1, <3>2, <3>3, <3>4, <3>5
      <3> QED BY <3>6 DEF a1, b1, k1
    <2>7. CASE ~Tick /\ Served(c) /\ ~RuleFor(c) /\ k1 \in 0 .. k - Second /\ k1 > k - 2 * Second
      <3>1. /\ served'[c] = served[c] + 1 /\ allowed'[c] = allowed[c]
            /\ got'[c] = got[c] + 1 /\ earned'[c] = earned[c]
        <4>1. k1 # Full
          BY <1>0, <2>2, <2>7
        <4> QED BY <2>1, <2>2, <2>7, <4>1 DEF Taken, Filled
      <3>2. a1 = a + Second /\ b1 = b + 2 * Second - 1
        BY <2>3, <3>1
      <3> HIDE DEF a, b, a1, b1, k, k1
      <3>3. /\ a1 + k1 <= allowed'[c] /\ Full + earned'[c] <= b1 + k1
        BY <1>0, <2>2, <2>5, <2>7, <3>1, <3>2
      <3> QED BY <2>2, <3>1, <3>3 DEF a1, b1, k1
    <2>8. CASE ~Tick /\ ~Served(c) /\ ((RuleFor(c) /\ k1 = Full) \/ (~RuleFor(c) /\ k1 = k))
      <3>1. /\ served'[c] = served[c]
            /\ allowed'[c] = allowed[c] + (IF RuleFor(c) THEN Full ELSE 0)
            /\ got'[c] = IF k1 = Full THEN 0 ELSE got[c]
            /\ earned'[c] = IF k1 = Full THEN 0 ELSE earned[c]
        BY <2>1, <2>2, <2>8 DEF Taken, Filled
      <3>2. a1 = a /\ b1 = IF k1 = Full THEN 0 ELSE b
        BY <2>4, <3>1
      <3> HIDE DEF a, b, a1, b1, k, k1
      <3>3. /\ allowed'[c] \in Nat /\ a1 + k1 <= allowed'[c] /\ Full + earned'[c] <= b1 + k1
        BY <1>0, <2>2, <2>5, <2>8, <3>1, <3>2
      <3> QED BY <2>2, <3>1, <3>3 DEF a1, b1, k1
    <2>9. \/ Tick /\ ~Served(c) /\ ~RuleFor(c) /\ k1 = Bucket!Capped(k + rate[c])
          \/ ~Tick /\ Served(c) /\ ~RuleFor(c) /\ k1 \in 0 .. k - Second /\ k1 > k - 2 * Second
          \/ ~Tick /\ ~Served(c) /\ ((RuleFor(c) /\ k1 = Full) \/ (~RuleFor(c) /\ k1 = k))
      <3>1. [Next]_vars
        BY <1>2
      <3>2. \/ Tick /\ ~Served(c) /\ ~RuleFor(c) /\ Level(c)' = Bucket!Capped(Level(c) + rate[c])
            \/ /\ ~Tick /\ Served(c) /\ ~RuleFor(c)
               /\ Level(c)' \in 0 .. Level(c) - Second
               /\ Level(c)' > Level(c) - 2 * Second
            \/ ~Tick /\ ~Served(c) /\ RuleFor(c) /\ Level(c)' = Full
            \/ ~Tick /\ ~Served(c) /\ ~RuleFor(c) /\ Level(c)' = Level(c)
        BY <3>1, LevelStep, Zenon
      <3> QED BY <3>2, Zenon
    <2> QED BY <2>6, <2>7, <2>8, <2>9, Zenon
  <1> QED BY <1>1, <1>2 DEF CountNext

(* Both hold from the start.                                               *)
LEMMA CountInvariance == CountSpec => [](IInv /\ Balance)
  <1>1. CountInit => IInv /\ Balance
    <2> SUFFICES ASSUME CountInit PROVE IInv /\ Balance
      OBVIOUS
    <2>1. IInv
      BY Inductive DEF CountInit
    <2>2. ASSUME NEW c \in Clients
          PROVE  /\ served[c] = 0 /\ got[c] = 0 /\ earned[c] = 0 /\ allowed[c] = Full
                 /\ Level(c) = Full /\ Full \in Nat
      BY FullAtFirst DEF CountInit, Zero, Full
    <2>3. ASSUME NEW c \in Clients
          PROVE  /\ served[c] * Second + Level(c) <= allowed[c]
                 /\ Full + earned[c] <= got[c] * (2 * Second - 1) + Level(c)
      <3>1. served[c] * Second = 0 /\ got[c] * (2 * Second - 1) = 0
        BY <2>2, Numbers
      <3> QED BY <2>2, <3>1
    <2>4. /\ served \in [Clients -> Nat] /\ allowed \in [Clients -> Nat]
          /\ got \in [Clients -> Nat] /\ earned \in [Clients -> Nat]
      BY <2>2 DEF CountInit, Zero
    <2> QED BY <2>1, <2>3, <2>4 DEF Balance
  <1>2. IInv /\ Balance /\ [CountNext]_<<vars, counts>> => IInv' /\ Balance'
    <2> SUFFICES ASSUME IInv, Balance, [CountNext]_<<vars, counts>> PROVE IInv' /\ Balance'
      OBVIOUS
    <2>1. CASE CountNext
      <3>1. [Next]_vars
        BY <2>1 DEF CountNext, BeginAnew
      <3> QED BY <2>1, <3>1, Inductive, BalanceStep
    <2>2. CASE UNCHANGED <<vars, counts>>
      <3>1. \A c \in Clients : Level(c)' = Level(c)
        BY <2>2 DEF vars, clientVars, Level
      <3> QED BY <2>2, <3>1, Inductive DEF counts, Balance
    <2> QED BY <2>1, <2>2
  <1> QED BY <1>1, <1>2, PTL DEF CountSpec

(* Whenever an observer begins, and however often rates are changed by new *)
(* rules: the requests of a client that are taken cost no more than a full *)
(* bucket, what the rates filled in meanwhile, and a full bucket for each  *)
(* new rule (nrs_tbf_req_get, nrs_tbf_cli_reset_value).                    *)
THEOREM RateIsKept == CountSpec => [](\A c \in Clients : served[c] * Second <= allowed[c])
  <1>1. IInv /\ Balance => \A c \in Clients : served[c] * Second <= allowed[c]
    <2> SUFFICES ASSUME IInv, Balance, NEW c \in Clients PROVE served[c] * Second <= allowed[c]
      OBVIOUS
    <2>1. Level(c) \in Nat
      BY TokensFit DEF IInv
    <2>2. served[c] \in Nat /\ allowed[c] \in Nat /\ served[c] * Second \in Nat
      BY Numbers, Z3 DEF Balance
    <2> QED BY <2>1, <2>2 DEF Balance
  <1> QED BY <1>1, CountInvariance, PTL

(* As long as its bucket is not full, a client is given at least half of   *)
(* its rate: dropping the time since tc_check_time at each request loses   *)
(* less than a token (nrs_tbf_req_get).                                    *)
THEOREM HalfOfRateIsGiven ==
    CountSpec => [](\A c \in Clients : earned[c] <= got[c] * (2 * Second - 1))
  <1>1. IInv /\ Balance => \A c \in Clients : earned[c] <= got[c] * (2 * Second - 1)
    <2> SUFFICES ASSUME IInv, Balance, NEW c \in Clients
                 PROVE  earned[c] <= got[c] * (2 * Second - 1)
      OBVIOUS
    <2>1. Level(c) \in Nat /\ Level(c) <= Full
      BY TokensFit DEF IInv, Full
    <2>2. earned[c] \in Nat /\ got[c] * (2 * Second - 1) \in Nat /\ Full \in Nat
      BY Numbers, Z3 DEF Balance, Full
    <2> QED BY <2>1, <2>2 DEF Balance
  <1> QED BY <1>1, CountInvariance, PTL

=============================================================================
