------------------------- MODULE WindowUpdate_proofs -------------------------
(***************************************************************************)
(* The pool of requests is exceeded by a bounded amount only, and every    *)
(* client implements the register of WindowRegister, for any number of     *)
(* threads and clients and any rules.                                      *)
(***************************************************************************)
EXTENDS WindowUpdate, FiniteSetTheorems, TLAPS

(* Where an update belongs to a client, and how much it may add.           *)
JobOK(j) ==
    /\ j.at # "idle" => j.dev \in Devs
    /\ j.at \in {"pool", "populate"} => j.adding <= Share
    /\ j.at = "populate" \/ j.by = "setup" => j.adding >= 0
    /\ j.by = "setup" => j.at \in {"pool", "window", "populate"}
JobsOK == \A t \in Threads : JobOK(job[t])

(* The threads that have read the count and may add, what each of them     *)
(* adds at most, and what the pool still allows: the one that read the     *)
(* count last was cut to the limit, each of the others adds at most a      *)
(* share.                                                                  *)
Decided(j) == j.at = "populate" \/ (j.by = "setup" /\ j.at = "window")
Amount(j) == IF j.at = "populate" THEN j.adding ELSE Least(j.adding, Share)
Adding == {t \in Threads : Decided(job[t])}
Top == PoolMax + (Cardinality(Threads) - 1) * Share
Room(l) == pool + Amount(job[l]) + Share * (Cardinality(Adding) - 1) <= Top
PoolOK ==
    /\ Adding = {} => pool <= Top
    /\ Adding # {} => \E l \in Adding : Room(l)

IInv == TypeOK /\ JobsOK /\ PoolOK

----------------------------------------------------------------------------

(* The constants are numbers of the expected ranges.                       *)
LEMMA Numbers ==
    /\ One \in Nat \ {0} /\ Limit \in Nat \ {0} /\ MaxRif \in Nat \ {0}
    /\ InitRif \in 1 .. MaxRif /\ PoolMax \in Nat /\ MaxPages \in Nat
    /\ Share = MaxRif + 2 /\ Share \in Nat
    /\ Cardinality(Threads) \in Nat \ {0}
  <1>1. Cardinality(Threads) \in Nat /\ Cardinality(Threads) # 0
    BY ClientsAssumption, FS_EmptySet, FS_CardinalityType
  <1> QED BY <1>1, MathAssumption, ClientsAssumption DEF Share

(* A division by the fixed-point one stays under the bound of its operand. *)
LEMMA DivBound ==
    ASSUME NEW a \in Nat, NEW n \in Nat, NEW b \in Nat \ {0}, a <= n * b
    PROVE  a \div b \in 0 .. n
  <1> DEFINE q == a \div b
  <1>1. q \in Int /\ q >= 0 /\ q * b <= a
    BY Z3
  <1>2. q * b <= n * b
    BY <1>1
  <1>3. CASE q > n
    <2>1. q >= n + 1
      BY <1>1, <1>3
    <2>2. q * b >= (n + 1) * b
      BY <1>1, <2>1, Z3
    <2>3. (n + 1) * b = n * b + b
      BY Z3
    <2> QED BY <1>2, <2>2, <2>3, <1>1
  <1> QED BY <1>1, <1>3

(* What the controller computes is a tracked value and a window in range,  *)
(* whatever the rule (the clamps of qos_adjust).                           *)
LEMMA ComputeType ==
    ASSUME NEW x \in 0 .. MaxRif * One, NEW r \in Rules
    PROVE  /\ NewTracked(x, r) \in 0 .. MaxRif * One
           /\ NewMrif(NewTracked(x, r)) \in 1 .. MaxRif
  <1> DEFINE y == NewTracked(x, r)
  <1>1. x * r.m100 \in Int /\ r.m100 \in Int /\ r.b100 \in Int /\ x \in Int
    BY Numbers, ClientsAssumption
  <1>2. Scaled(x, r) \in Int
    BY <1>1, Numbers DEF Scaled
  <1>3. Limit * One \in Nat /\ Limit * One <= MaxRif * One
    <2>1. Limit <= MaxRif
      BY ClientsAssumption
    <2> QED BY <2>1, Numbers, Z3
  <1>4. y \in 0 .. Limit * One
    BY <1>2, <1>3 DEF NewTracked, Least, Greatest
  <1>5. y \div One \in 0 .. Limit
    BY <1>4, DivBound, Numbers
  <1>6. y \in 0 .. MaxRif * One
    <2>1. MaxRif * One \in Nat
      BY Numbers
    <2> QED BY <1>3, <1>4, <2>1
  <1>7. NewMrif(y) \in 1 .. MaxRif
    BY <1>5, Numbers, ClientsAssumption DEF NewMrif, Greatest
  <1> QED BY <1>6, <1>7

(* The actions of Next, one by one.                                        *)
LEMMA Cases ==
    ASSUME Next
    PROVE  \/ \E t \in Threads, d \in Devs : Setup(t, d)
           \/ \E t \in Threads, d \in Devs : Compute(t, d)
           \/ \E t \in Threads, d \in Devs : ProcWrite(t, d)
           \/ \E t \in Threads : CheckImport(t)
           \/ \E t \in Threads : ReadWindow(t)
           \/ \E t \in Threads : ReadPool(t)
           \/ \E t \in Threads : ReadRoom(t)
           \/ \E t \in Threads : Populate(t)
           \/ \E t \in Threads : SetWindow(t)
           \/ \E t \in Threads : Track(t)
           \/ \E d \in Devs : Disconnect(d)
  BY DEF Next, Step

(* Moving on keeps the types, and the rest of the job.                     *)
LEMMA GotoType ==
    ASSUME TypeOK, NEW t \in Threads, NEW place \in Places, Goto(t, place)
    PROVE  /\ job' \in [Threads -> Jobs]
           /\ \A u \in Threads \ {t} : job'[u] = job[u]
           /\ job'[t].at = place
           /\ place # "idle" => /\ job'[t].dev = job[t].dev /\ job'[t].by = job[t].by
                                /\ job'[t].adding = job[t].adding
           /\ place = "idle" => job'[t] = Idle
  <1> DEFINE j == IF place = "idle" THEN Idle ELSE [job[t] EXCEPT !.at = place]
  <1>1. job[t] \in Jobs /\ job \in [Threads -> Jobs]
    BY DEF TypeOK
  <1>2. Idle \in Jobs
    BY Numbers DEF Idle, Jobs, Places
  <1>3. j \in Jobs /\ j.at = place
        /\ (place # "idle" => j.dev = job[t].dev /\ j.by = job[t].by /\ j.adding = job[t].adding)
        /\ (place = "idle" => j = Idle)
    BY <1>1, <1>2 DEF Jobs, Idle
  <1>4. job' = [job EXCEPT ![t] = j]
    BY DEF Goto
  <1> HIDE DEF j
  <1> QED BY <1>1, <1>3, <1>4

(* So does deciding how much to add.                                       *)
LEMMA AddType ==
    ASSUME TypeOK, NEW t \in Threads, NEW place \in Places, NEW n \in Int, Add(t, place, n)
    PROVE  /\ job' \in [Threads -> Jobs]
           /\ \A u \in Threads \ {t} : job'[u] = job[u]
           /\ job'[t].at = place /\ job'[t].adding = n /\ job'[t].dev = job[t].dev
           /\ job'[t].by = job[t].by
  <1> DEFINE j == [at |-> place, dev |-> job[t].dev, by |-> job[t].by,
                   new |-> job[t].new, adding |-> n]
  <1>1. job[t] \in Jobs /\ job \in [Threads -> Jobs]
    BY DEF TypeOK
  <1>2. j \in Jobs /\ j.at = place /\ j.adding = n /\ j.dev = job[t].dev /\ j.by = job[t].by
    BY <1>1 DEF Jobs
  <1>3. job' = [job EXCEPT ![t] = j]
    BY DEF Add
  <1> HIDE DEF j
  <1> QED BY <1>1, <1>2, <1>3

(* And so does the beginning of an update.                                 *)
LEMMA BeginType ==
    ASSUME TypeOK, NEW t \in Threads, NEW place \in Places, NEW d \in Devs,
           NEW what \in {"qos", "proc", "setup"}, NEW w \in 1 .. MaxRif, NEW n \in Int,
           Begin(t, place, d, what, w, n)
    PROVE  /\ job' \in [Threads -> Jobs]
           /\ \A u \in Threads \ {t} : job'[u] = job[u]
           /\ job'[t].at = place /\ job'[t].adding = n /\ job'[t].dev = d /\ job'[t].by = what
  <1> DEFINE j == [at |-> place, dev |-> d, by |-> what, new |-> w, adding |-> n]
  <1>1. job[t] \in Jobs /\ job \in [Threads -> Jobs]
    BY DEF TypeOK
  <1>2. j \in Jobs /\ j.at = place /\ j.adding = n /\ j.dev = d /\ j.by = what
    BY DEF Jobs
  <1>3. job' = [job EXCEPT ![t] = j]
    BY DEF Begin
  <1> HIDE DEF j
  <1> QED BY <1>1, <1>2, <1>3

----------------------------------------------------------------------------

(* What a thread may add is a number.                                      *)
LEMMA AmountInt == ASSUME NEW j \in Jobs PROVE Amount(j) \in Int
  BY Numbers DEF Jobs, Amount, Least

(* What a step does to one thread and to the pool.                         *)
Settled(t) ==
    /\ job' \in [Threads -> Jobs]
    /\ \A u \in Threads \ {t} : job'[u] = job[u]
    /\ JobOK(job'[t])
(* A step that adds nothing to the pool and decides on no more of it.      *)
Harmless(t) == Settled(t) /\ pool' = pool
               /\ (Decided(job[t]) <=> Decided(job'[t]))
               /\ (Decided(job[t]) => Amount(job'[t]) <= Amount(job[t]))
Moves(t) ==
    \/ Harmless(t)
    \/ /\ Settled(t) /\ pool' = pool
       /\ ~Decided(job[t]) /\ Decided(job'[t])
       /\ pool + Amount(job'[t]) <= PoolMax
    \/ /\ Settled(t) /\ Decided(job[t]) /\ ~Decided(job'[t])
       /\ pool' \in pool .. pool + Amount(job[t])

(* Every step but Disconnect is a move of one thread.                      *)
LEMMA StepMoves ==
    ASSUME TypeOK, JobsOK, Next
    PROVE  (\E t \in Threads : Moves(t)) \/ UNCHANGED <<pool, job>>
  <1> USE Numbers DEF Moves, Harmless, Settled, JobOK, Decided, Amount
  <1>0. job \in [Threads -> Jobs] /\ (\A t \in Threads : JobOK(job[t]) /\ job[t] \in Jobs)
        /\ pool \in Nat
    BY DEF TypeOK, JobsOK
  <1>1. ASSUME NEW t \in Threads, NEW d \in Devs, Setup(t, d)
        PROVE  Moves(t)
    <2>1. Begin(t, "pool", d, "setup", InitRif, 0) /\ pool' = pool
      BY <1>1 DEF Setup
    <2>2. job[t].at = "idle"
      BY <2>1 DEF Begin
    <2>3. InitRif \in 1 .. MaxRif /\ 0 \in Int /\ 0 <= Share
      OBVIOUS
    <2>4. Settled(t) /\ job'[t].at = "pool"
      BY <2>1, <2>3, BeginType DEF Places
    <2>5. job[t].by # "setup"
      BY <1>0, <2>2
    <2> QED BY <2>1, <2>2, <2>4, <2>5
  <1>2. ASSUME NEW t \in Threads, NEW d \in Devs, Compute(t, d)
        PROVE  Moves(t)
    <2>1. PICK r \in Rules : Begin(t, "check", d, "qos", NewMrif(NewTracked(tracked[d], r)), 0)
      BY <1>2 DEF Compute
    <2>2. NewMrif(NewTracked(tracked[d], r)) \in 1 .. MaxRif
      BY ComputeType DEF TypeOK
    <2>3. pool' = pool /\ job[t].at = "idle"
      BY <1>2, <2>1 DEF Compute, Begin
    <2>4. Settled(t) /\ job'[t].at = "check"
      BY <2>1, <2>2, BeginType DEF Places
    <2> QED BY <2>3, <2>4
  <1>3. ASSUME NEW t \in Threads, NEW d \in Devs, ProcWrite(t, d)
        PROVE  Moves(t)
    <2>1. PICK val \in 1 .. MaxRif : Begin(t, "check", d, "proc", val, 0)
      BY <1>3 DEF ProcWrite
    <2>2. pool' = pool /\ job[t].at = "idle"
      BY <1>3, <2>1 DEF ProcWrite, Begin
    <2>3. Settled(t) /\ job'[t].at = "check"
      BY <2>1, BeginType DEF Places
    <2> QED BY <2>2, <2>3
  <1>4. ASSUME NEW t \in Threads, CheckImport(t)
        PROVE  Moves(t)
    <2>1. PICK place \in {"window", "idle"} : Goto(t, place)
      BY <1>4 DEF CheckImport
    <2>2. job[t].at = "check" /\ pool' = pool /\ job[t].by # "setup"
      BY <1>0, <1>4 DEF CheckImport
    <2> QED BY <1>0, <2>1, <2>2, GotoType DEF Idle, Places
  <1>5. ASSUME NEW t \in Threads, ReadWindow(t)
        PROVE  Moves(t)
    <2> DEFINE w == window[job[t].dev]
    <2>1. /\ job[t].dev \in Devs /\ job[t].new \in 1 .. MaxRif /\ job[t].at = "window"
          /\ pool' = pool /\ job[t].adding \in Int
      BY <1>0, <1>5 DEF ReadWindow, Jobs
    <2>2. w \in 1 .. MaxRif
      BY <2>1 DEF TypeOK
    <2>3. CASE job[t].by # "setup"
      <3> DEFINE n == job[t].new - w
      <3>1. n \in Int /\ n <= Share
        BY <2>1, <2>2
      <3>2. Add(t, "pool", n)
        BY <1>5, <2>3 DEF ReadWindow
      <3> HIDE DEF n
      <3> QED BY <2>1, <2>3, <3>1, <3>2, AddType DEF Places
    <2>4. CASE job[t].by = "setup"
      <3> DEFINE n == Least(w + 2, job[t].adding)
      <3>1. n \in Nat /\ n <= Share /\ n <= Least(job[t].adding, Share)
        BY <1>0, <2>1, <2>2, <2>4 DEF Least
      <3>2. Add(t, "populate", n)
        BY <1>5, <2>4 DEF ReadWindow
      <3> HIDE DEF n
      <3> QED BY <2>1, <2>4, <3>1, <3>2, AddType DEF Places
    <2> QED BY <2>3, <2>4
  <1>6. ASSUME NEW t \in Threads, ReadPool(t)
        PROVE  Moves(t)
    <2>1. job[t].at = "pool" /\ pool' = pool /\ job[t].adding \in Int /\ job[t].dev \in Devs
          /\ job[t].adding <= Share /\ job[t].by # "setup"
      BY <1>0, <1>6 DEF ReadPool, Jobs
    <2>2. CASE NothingToAdd(t)
      <3>1. Goto(t, "set")
        BY <1>6, <2>1, <2>2 DEF ReadPool, AfterPool
      <3> QED BY <2>1, <3>1, GotoType DEF Places
    <2>3. CASE ~NothingToAdd(t)
      <3> DEFINE n == Least(job[t].adding, PoolMax - pool)
      <3>1. Add(t, "populate", n)
        BY <1>6, <2>3 DEF ReadPool
      <3>2. n \in Nat /\ n <= Share /\ pool + n <= PoolMax
        BY <1>0, <2>1, <2>3 DEF NothingToAdd, Least
      <3> HIDE DEF n
      <3> QED BY <2>1, <3>1, <3>2, AddType DEF Places
    <2> QED BY <2>2, <2>3
  <1>11. ASSUME NEW t \in Threads, ReadRoom(t)
         PROVE  Moves(t)
    <2>1. /\ job[t].at = "pool" /\ pool' = pool /\ job[t].dev \in Devs
          /\ job[t].by = "setup"
      BY <1>0, <1>11 DEF ReadRoom
    <2>2. CASE pool >= PoolMax
      <3>1. Goto(t, "idle")
        BY <1>0, <1>11, <2>2 DEF ReadRoom
      <3> QED BY <2>1, <3>1, GotoType DEF Idle, Places
    <2>3. CASE pool < PoolMax
      <3> DEFINE n == PoolMax - pool
      <3>1. Add(t, "window", n)
        BY <1>0, <1>11, <2>3 DEF ReadRoom
      <3>2. n \in Nat /\ pool + Least(n, Share) <= PoolMax
        BY <1>0, <2>3 DEF Least
      <3> HIDE DEF n
      <3> QED BY <2>1, <3>1, <3>2, AddType DEF Places
    <2> QED BY <1>0, <2>2, <2>3
  <1>7. ASSUME NEW t \in Threads, Populate(t)
        PROVE  Moves(t)
    <2>1. job[t].at = "populate" /\ job[t].adding \in Nat /\ job[t].dev \in Devs
      BY <1>0, <1>7 DEF Populate, Jobs
    <2>2. PICK place \in {"idle", "set"} :
              Goto(t, place) /\ (place = "set" => job[t].by # "setup")
      BY <1>7 DEF Populate, AfterPool
    <2>3. PICK added \in 0 .. job[t].adding : pool' = pool + added
      BY <1>7 DEF Populate
    <2>4. pool' \in pool .. pool + job[t].adding
      BY <1>0, <2>1, <2>3
    <2> QED BY <2>1, <2>2, <2>4, GotoType DEF Idle, Places
  <1>8. ASSUME NEW t \in Threads, SetWindow(t)
        PROVE  Moves(t)
    <2>1. PICK place \in {"idle", "track"} : Goto(t, place)
      BY <1>8 DEF SetWindow, AfterSet
    <2>2. job[t].at = "set" /\ pool' = pool /\ job[t].by # "setup"
      BY <1>0, <1>8 DEF SetWindow
    <2> QED BY <1>0, <2>1, <2>2, GotoType DEF Idle, Places
  <1>9. ASSUME NEW t \in Threads, Track(t)
        PROVE  Moves(t)
    BY <1>0, <1>9, GotoType DEF Track, Idle, Places
  <1>10. ASSUME NEW d \in Devs, Disconnect(d)
         PROVE  UNCHANGED <<pool, job>>
    BY <1>10 DEF Disconnect
  <1> HIDE DEF Moves, Harmless, Settled, JobOK, Decided, Amount
  <1> QED BY <1>1, <1>2, <1>3, <1>4, <1>5, <1>6, <1>7, <1>8, <1>9, <1>10, <1>11, Cases

(* A decision by the count that was read last starts a new account; a      *)
(* decision carried out leaves the others' shares.                         *)
LEMMA PoolStep ==
    ASSUME TypeOK, JobsOK, PoolOK, NEW t \in Threads, Moves(t)
    PROVE  PoolOK'
  <1> DEFINE P == Adding  n == Cardinality(P)  N == Cardinality(Threads)
  <1>1. IsFiniteSet(P) /\ n \in Nat /\ n <= N /\ N \in Nat /\ N >= 1
    <2>1. IsFiniteSet(Threads) /\ P \subseteq Threads
      BY ClientsAssumption DEF Adding
    <2> QED BY <2>1, FS_Subset, FS_CardinalityType, Numbers
  <1>2. pool \in Nat /\ PoolMax \in Nat /\ Share \in Nat
        /\ \A u \in P : u \in Threads /\ Amount(job[u]) \in 0 .. Share
    <2>1. \A u \in Threads : job[u] \in Jobs
      BY DEF TypeOK
    <2> QED BY <2>1, Numbers DEF TypeOK, JobsOK, JobOK, Adding, Jobs, Decided, Amount, Least
  <1>3. \A k \in Nat : k <= N => Share * (k - 1) <= Share * (N - 1)
    BY <1>1, <1>2, Z3
  <1>4. \A k \in Nat : Share * (k - 1) \in Int /\ Share * ((k + 1) - 1) = Share * (k - 1) + Share
    BY <1>2, Z3
  <1>5. Top = PoolMax + Share * (N - 1) /\ Top \in Int /\ PoolMax <= Top
    BY <1>1, <1>2, Z3 DEF Top
  <1> HIDE DEF N
  <1>6. CASE Harmless(t)
    <2>1. Adding' = P /\ pool' = pool
      <3>1. ASSUME NEW u \in Threads PROVE Decided(job'[u]) <=> Decided(job[u])
        BY <1>6 DEF Harmless, Settled
      <3> QED BY <1>6, <3>1, Zenon DEF Harmless, Adding
    <2>2. ASSUME NEW l \in P, Room(l) PROVE Room(l)'
      <3>1. Amount(job'[l]) \in Int /\ Amount(job'[l]) <= Amount(job[l])
        <4>1. job'[l] \in Jobs /\ l \in Threads /\ Decided(job[l])
          BY <1>6 DEF Harmless, Settled, Adding
        <4>2. Amount(job'[l]) \in Int
          BY <4>1, AmountInt
        <4>3. CASE l = t
          BY <1>6, <4>1, <4>2, <4>3 DEF Harmless
        <4>4. CASE l # t
          <5>1. job'[l] = job[l]
            BY <1>6, <4>1, <4>4 DEF Harmless, Settled
          <5> QED BY <4>2, <5>1
        <4> QED BY <4>3, <4>4
      <3>2. Amount(job[l]) \in Int /\ Share * (n - 1) \in Int
        BY <1>1, <1>2, <1>4
      <3> HIDE DEF n
      <3>3. pool' + Amount(job'[l]) + Share * (n - 1) <= Top
        BY <1>2, <1>5, <2>1, <2>2, <3>1, <3>2 DEF Room, n
      <3> QED BY <2>1, <3>3 DEF Room, Top, n
    <2> QED BY <2>1, <2>2 DEF PoolOK, Top
  <1>7. CASE /\ Settled(t) /\ pool' = pool
             /\ ~Decided(job[t]) /\ Decided(job'[t])
             /\ pool + Amount(job'[t]) <= PoolMax
    <2>1. Adding' = P \cup {t} /\ t \notin P
      BY <1>7 DEF Settled, Adding
    <2>2. Cardinality(Adding') = n + 1
      BY <1>1, <2>1, FS_AddElement
    <2>3. n + 1 <= N
      <3>1. Adding' \subseteq Threads
        BY DEF Adding
      <3> QED BY <2>2, <3>1, FS_Subset, ClientsAssumption DEF N
    <2>4. Amount(job'[t]) \in Int
      BY <1>7, AmountInt DEF Settled
    <2>5. Share * ((n + 1) - 1) <= Share * (N - 1) /\ Share * ((n + 1) - 1) \in Int
      <3> HIDE DEF n
      <3>1. n + 1 \in Nat
        BY <1>1
      <3> QED BY <1>3, <1>4, <2>3, <3>1, Zenon
    <2>6. pool' + Amount(job'[t]) + Share * (Cardinality(Adding') - 1) <= Top
      BY <1>1, <1>2, <1>5, <1>7, <2>2, <2>4, <2>5
    <2>7. Room(t)'
      BY <2>6 DEF Room, Top
    <2> QED BY <2>1, <2>7 DEF PoolOK
  <1>8. CASE /\ Settled(t) /\ Decided(job[t]) /\ ~Decided(job'[t])
             /\ pool' \in pool .. pool + Amount(job[t])
    <2> DEFINE m == n - 1
    <2>1. Adding' = P \ {t} /\ t \in P /\ \A u \in P \ {t} : job'[u] = job[u]
      BY <1>8 DEF Settled, Adding
    <2>2. Cardinality(Adding') = m /\ m \in Nat
      <3>1. Cardinality(P \ {t}) = n - 1 /\ IsFiniteSet(P \ {t})
        BY <1>1, <2>1, FS_RemoveElement
      <3>2. n - 1 \in Nat
        BY <3>1, FS_CardinalityType
      <3> QED BY <2>1, <3>1, <3>2
    <2>3. PICK l \in P : Room(l)
      BY <2>1 DEF PoolOK
    <2>4. pool + Amount(job[l]) + Share * ((m + 1) - 1) <= Top
      BY <2>2, <2>3, <1>1 DEF Room
    <2>5. Share * (m - 1) \in Int /\ Share * ((m + 1) - 1) = Share * (m - 1) + Share
      BY <1>4, <2>2
    <2>6. Amount(job[t]) \in 0 .. Share /\ Amount(job[l]) \in 0 .. Share
      BY <1>2, <2>1
    <2>7. CASE Adding' = {}
      <3>1. m = 0 /\ l = t
        BY <2>1, <2>2, <2>7, FS_EmptySet
      <3>2. Share * ((m + 1) - 1) = 0
        BY <1>2, <3>1
      <3>3. pool' <= Top
        BY <1>2, <1>5, <1>8, <2>4, <2>6, <3>1, <3>2
      <3> QED BY <2>7, <3>3 DEF PoolOK, Top
    <2>8. ASSUME NEW k \in Adding', Amount(job'[k]) = Amount(job[k]),
                 k = l \/ l = t
          PROVE  PoolOK'
      <3>1. k \in P /\ Amount(job[k]) \in 0 .. Share
        BY <1>2, <2>1
      <3>2. pool' + Amount(job'[k]) + Share * (m - 1) <= Top
        BY <1>2, <1>5, <1>8, <2>4, <2>5, <2>6, <2>8, <3>1
      <3>3. Room(k)'
        BY <3>2, <2>2 DEF Room, Top
      <3> QED BY <3>3 DEF PoolOK
    <2>9. CASE Adding' # {} /\ l = t
      <3>1. PICK k \in Adding' : TRUE
        BY <2>9
      <3>2. Amount(job'[k]) = Amount(job[k])
        BY <2>1
      <3> QED BY <2>8, <2>9, <3>2
    <2>10. CASE l # t
      <3>1. l \in Adding' /\ Amount(job'[l]) = Amount(job[l])
        BY <2>1, <2>10
      <3> QED BY <2>8, <3>1
    <2> QED BY <2>7, <2>9, <2>10
  <1> QED BY <1>6, <1>7, <1>8 DEF Moves

----------------------------------------------------------------------------

(* The types hold initially and every step keeps them.                     *)
LEMMA TypeInit == Init => TypeOK
  <1>1. Idle \in Jobs
    BY Numbers DEF Idle, Jobs, Places
  <1>2. MaxRif * One \in Nat
    BY Numbers
  <1> QED BY <1>1, <1>2, Numbers, ClientsAssumption DEF Init, TypeOK

(* Every step keeps the types. *)
LEMMA TypeStep ==
    ASSUME TypeOK, JobsOK, [Next]_vars
    PROVE  TypeOK'
  <1> USE Numbers DEF JobOK
  <1>0. /\ job \in [Threads -> Jobs]
        /\ \A t \in Threads : JobOK(job[t]) /\ job[t] \in Jobs
    BY DEF TypeOK, JobsOK
  <1>1. CASE UNCHANGED vars
    BY <1>1 DEF vars, clientVars, TypeOK
  <1>2. CASE Next
    <2>1. job' \in [Threads -> Jobs] /\ pool' \in Nat
      <3>1. CASE UNCHANGED <<pool, job>>
        BY <3>1 DEF TypeOK
      <3>2. ASSUME NEW t \in Threads, Moves(t)
            PROVE  job' \in [Threads -> Jobs] /\ pool' \in Nat
        <4>1. job[t].adding \in Int
          BY <1>0 DEF Jobs
        <4> QED BY <3>2, <4>1 DEF Moves, Harmless, Settled, TypeOK
      <3> QED BY <1>2, <3>1, <3>2, StepMoves
    <2>2. state' \in [Devs -> {"new", "up", "gone"}]
      BY <1>2, Cases DEF TypeOK, Setup, Compute, ProcWrite, CheckImport, ReadWindow,
         ReadPool, ReadRoom,
                         Populate, SetWindow, Track, Disconnect, clientVars
    <2>3. /\ window' \in [Devs -> 1 .. MaxRif]
          /\ dirtyMax' \in [Devs -> 0 .. DirtyCap]
      <3>1. ASSUME NEW t \in Threads, SetWindow(t)
            PROVE  window' \in [Devs -> 1 .. MaxRif] /\ dirtyMax' \in [Devs -> 0 .. DirtyCap]
        <4> DEFINE d == job[t].dev  w == job[t].new
                   limit == AdjustedMaxDirty(w, dirtyMax[d], MaxPages, DirtyCap)
        <4>1. d \in Devs /\ w \in 1 .. MaxRif
          BY <1>0, <3>1 DEF SetWindow, Jobs
        <4>2. w * MaxPages \in Nat /\ DirtyCap \in Nat /\ dirtyMax[d] \in 0 .. DirtyCap
          BY <4>1, ClientsAssumption DEF TypeOK
        <4>3. limit \in 0 .. DirtyCap
          BY <4>2 DEF AdjustedMaxDirty, Least, Greatest
        <4>4. window' = [window EXCEPT ![d] = w] /\ dirtyMax' = [dirtyMax EXCEPT ![d] = limit]
          BY <3>1 DEF SetWindow
        <4> HIDE DEF limit
        <4> QED BY <4>1, <4>3, <4>4 DEF TypeOK
      <3>2. CASE UNCHANGED <<window, dirtyMax>>
        BY <3>2 DEF TypeOK
      <3> QED BY <1>2, <3>1, <3>2, Cases
              DEF Setup, Compute, ProcWrite, CheckImport, ReadWindow, ReadPool, ReadRoom,
                  Populate, Track, Disconnect, clientVars
    <2>4. tracked' \in [Devs -> 0 .. MaxRif * One]
      <3>1. ASSUME NEW t \in Threads, NEW d \in Devs, Compute(t, d)
            PROVE  tracked' \in [Devs -> 0 .. MaxRif * One]
        <4>1. PICK r \in Rules : tracked' = [tracked EXCEPT ![d] = NewTracked(tracked[d], r)]
          BY <3>1 DEF Compute
        <4>2. NewTracked(tracked[d], r) \in 0 .. MaxRif * One
          BY ComputeType DEF TypeOK
        <4> QED BY <4>1, <4>2 DEF TypeOK
      <3>2. ASSUME NEW t \in Threads, Track(t)
            PROVE  tracked' \in [Devs -> 0 .. MaxRif * One]
        <4>1. job[t].dev \in Devs /\ job[t].new \in 1 .. MaxRif
          BY <1>0, <3>2 DEF Track, Jobs
        <4>2. job[t].new * One \in 0 .. MaxRif * One
          BY <4>1, Z3
        <4> QED BY <3>2, <4>1, <4>2 DEF Track, TypeOK
      <3>3. CASE UNCHANGED tracked
        BY <3>3 DEF TypeOK
      <3> QED BY <1>2, <3>1, <3>2, <3>3, Cases
              DEF Setup, ProcWrite, CheckImport, ReadWindow, ReadPool, ReadRoom,
                  Populate, SetWindow, Disconnect, clientVars
    <2> QED BY <2>1, <2>2, <2>3, <2>4 DEF TypeOK
  <1> QED BY <1>1, <1>2

(* The inductive invariant.                                                *)
LEMMA Inductive ==
    /\ Init => IInv
    /\ IInv /\ [Next]_vars => IInv'
  <1>1. ASSUME Init PROVE IInv
    <2>1. JobsOK /\ Adding = {}
      BY <1>1 DEF Init, Idle, JobsOK, JobOK, Adding, Decided
    <2>2. 0 <= (Cardinality(Threads) - 1) * Share
      BY Numbers, Z3
    <2>3. Cardinality(Threads) - 1 \in Nat /\ (Cardinality(Threads) - 1) * Share \in Int
      BY Numbers
    <2>4. pool = 0 /\ 0 <= Top
      BY <1>1, <2>2, <2>3, Numbers DEF Top, Init
    <2> QED BY <1>1, <2>1, <2>4, TypeInit DEF IInv, PoolOK
  <1>2. ASSUME IInv, [Next]_vars PROVE IInv'
    <2>1. TypeOK'
      BY <1>2, TypeStep DEF IInv
    <2>2. ASSUME UNCHANGED <<pool, job>>
          PROVE  JobsOK' /\ PoolOK'
      BY <1>2, <2>2 DEF IInv, JobsOK, JobOK, PoolOK, Adding, Room, Top
    <2>3. ASSUME NEW t \in Threads, Moves(t)
          PROVE  JobsOK' /\ PoolOK'
      <3>1. Settled(t)
        BY <2>3 DEF Moves, Harmless
      <3>2. JobsOK'
        BY <1>2, <3>1 DEF IInv, JobsOK, Settled
      <3> QED BY <1>2, <2>3, <3>2, PoolStep DEF IInv
    <2>4. JobsOK' /\ PoolOK'
      BY <1>2, <2>2, <2>3, StepMoves DEF IInv, vars
    <2> QED BY <2>1, <2>4 DEF IInv
  <1> QED BY <1>1, <1>2

(* The invariant holds in every reachable state. *)
LEMMA Invariance == Spec => []IInv
  BY Inductive, PTL DEF Spec

(* The variables keep their types: in particular a window is at least 1    *)
(* and at most OSC_MAX_RIF_MAX whatever the rules say.                     *)
THEOREM WindowTypes == Spec => []TypeOK
  <1>1. IInv => TypeOK
    BY DEF IInv
  <1> QED BY <1>1, Invariance, PTL

(* The races on the pool of requests exceed its limit by at most one share *)
(* per thread but one ("it is fine").                                      *)
THEOREM PoolIsBounded == Spec => []PoolBounded
  <1>1. ASSUME IInv PROVE PoolBounded
    <2>1. CASE Adding = {}
      BY <1>1, <2>1 DEF IInv, PoolOK, PoolBounded, Top
    <2>2. ASSUME NEW l \in Adding, Room(l)
          PROVE  PoolBounded
      <3> DEFINE n == Cardinality(Adding)
      <3>1. IsFiniteSet(Adding)
        BY FS_Subset, ClientsAssumption DEF Adding
      <3>2. n \in Nat /\ n # 0
        BY <2>2, <3>1, FS_CardinalityType, FS_EmptySet
      <3>3. Amount(job[l]) \in Nat /\ pool \in Nat
        BY <1>1, <2>2, Numbers DEF IInv, TypeOK, JobsOK, JobOK, Jobs, Adding, Decided, Amount, Least
      <3>4. n - 1 \in Nat /\ Share * (n - 1) \in Int /\ Share * (n - 1) >= 0
        BY <3>2, Numbers, Z3
      <3>5. Top \in Int
        BY Numbers DEF Top
      <3>6. pool <= Top
        BY <2>2, <3>3, <3>4, <3>5 DEF Room
      <3> QED BY <3>6 DEF PoolBounded, Top
    <2> QED BY <1>1, <2>1, <2>2 DEF IInv, PoolOK
  <1> QED BY <1>1, Invariance, PTL

(* Every client implements the register on which the RPC engine relies:    *)
(* whatever is interleaved, the window and the dirty limit move together   *)
(* (client_adjust_max_dirty under cl_loi_list_lock).                       *)
THEOREM WindowImplementsRegister == Spec => ImplementsRegister
  <1>1. ASSUME Init PROVE Register!Init
    BY <1>1, Numbers, ClientsAssumption DEF Init, Register!Init
  <1>2. ASSUME IInv, [Next]_vars
        PROVE  [Register!Next]_<<window, dirtyMax>>
    <2>1. ASSUME NEW t \in Threads, SetWindow(t)
          PROVE  [Register!Next]_<<window, dirtyMax>>
      <3> DEFINE d == job[t].dev  w == job[t].new
                 limit == AdjustedMaxDirty(w, dirtyMax[d], MaxPages, DirtyCap)
                 needed == Register!Needed(w)
      <3>1. d \in Devs /\ w \in 1 .. MaxRif
        BY <1>2, <2>1 DEF IInv, TypeOK, JobsOK, JobOK, SetWindow, Jobs
      <3>2. w * MaxPages \in Nat /\ DirtyCap \in Nat /\ dirtyMax[d] \in 0 .. DirtyCap
            /\ dirtyMax \in [Devs -> 0 .. DirtyCap]
        BY <1>2, <3>1, ClientsAssumption, Numbers DEF IInv, TypeOK
      <3>3. window' = [window EXCEPT ![d] = w] /\ dirtyMax' = [dirtyMax EXCEPT ![d] = limit]
        BY <2>1 DEF SetWindow
      <3>4. IF dirtyMax[d] < needed THEN limit = needed ELSE limit = dirtyMax[d]
        BY <3>2 DEF AdjustedMaxDirty, Least, Greatest, Register!Needed
      <3>5. \/ dirtyMax[d] < needed /\ dirtyMax' = [dirtyMax EXCEPT ![d] = needed]
            \/ ~(dirtyMax[d] < needed) /\ dirtyMax' = dirtyMax
        <4> HIDE DEF limit, needed
        <4> QED BY <3>1, <3>2, <3>3, <3>4
      <3>6. needed \in Int
        BY <3>2 DEF Register!Needed
      <3>7. Register!Write(d)
        <4>1. \/ dirtyMax[d] < needed /\ dirtyMax' = [dirtyMax EXCEPT ![d] = needed]
              \/ dirtyMax[d] >= needed /\ dirtyMax' = dirtyMax
          BY <3>1, <3>2, <3>5, <3>6
        <4>2. window' = [window EXCEPT ![d] = w]
          BY <3>3
        <4> HIDE DEF d, w
        <4> QED BY <3>1, <4>1, <4>2, Zenon DEF Register!Write
      <3> QED BY <3>1, <3>7 DEF Register!Next
    <2>2. CASE UNCHANGED <<window, dirtyMax>>
      BY <2>2
    <2> QED BY <1>2, <2>1, <2>2, Cases
            DEF Setup, Compute, ProcWrite, CheckImport, ReadWindow, ReadPool, ReadRoom,
                Populate, Track, Disconnect, clientVars, vars
  <1> QED BY <1>1, <1>2, Invariance, PTL DEF Spec, ImplementsRegister, Register!Spec

----------------------------------------------------------------------------

(* The two values of a client.  An observer notes of every client whether  *)
(* the updates since the last time that nobody was updating it have come   *)
(* one at a time.                                                          *)
VARIABLE apart

Updating(d) == {t \in Threads : job[t].at # "idle" /\ job[t].dev = d /\ job[t].by # "setup"}
Alone(d) == \A t, u \in Updating(d) : t = u
ApartInit == Init /\ apart = [d \in Devs |-> TRUE]
Observe == apart' = [d \in Devs |->
    IF Updating(d) = {} /\ Updating(d)' # {} THEN TRUE ELSE apart[d] /\ Alone(d)']
ApartSpec == ApartInit /\ [][Next /\ Observe]_<<vars, apart>>

(* The window is what the tracked value says, or nobody has moved either.  *)
Agreed(d) == window[d] = NewMrif(tracked[d])
Untouched(d) == tracked[d] = 0 /\ window[d] = InitRif

(* An update that is not disturbed: what qos_adjust will set is what it    *)
(* has tracked, what the procfs handler will track is what it has set.     *)
InStep(t) ==
    /\ job[t].at = "track" => window[job[t].dev] = job[t].new
    /\ job[t].by = "qos" => job[t].new = NewMrif(tracked[job[t].dev])
Settling(d) == state[d] # "gone" /\ Updating(d) = {} => Agreed(d) \/ Untouched(d)
Steady(d) == Alone(d) /\ Settling(d) /\ \A t \in Updating(d) : InStep(t)

(* Who executes which part of an update, and that its client was set up.   *)
Kind(j) ==
    /\ j.at # "idle" => state[j.dev] # "new"
    /\ j.by = "setup" => j.at \in {"pool", "window", "populate"}
    /\ j.at = "track" => j.by = "proc"
Kinds == \A t \in Threads : Kind(job[t])
SteadyInv == IInv /\ Kinds /\ \A d \in Devs : apart[d] => Steady(d)

(* A window written through procfs is the one that its tracked value says. *)
LEMMA WholeWindow == ASSUME NEW w \in 1 .. MaxRif PROVE NewMrif(w * One) = w
  <1> DEFINE q == (w * One) \div One
  <1>1. One \in Nat /\ One > 0 /\ w \in Nat /\ w * One \in Nat
    BY Numbers
  <1>2. q \in Int /\ q * One <= w * One /\ w * One < (q + 1) * One
    BY <1>1, Z3
  <1>3. ~(q < w) /\ ~(q > w)
    <2>1. ASSUME q < w PROVE FALSE
      <3>1. q + 1 <= w
        BY <1>1, <1>2, <2>1
      <3>2. (q + 1) * One <= w * One
        BY <1>1, <1>2, <3>1, Z3
      <3> QED BY <1>1, <1>2, <3>2
    <2>2. ASSUME q > w PROVE FALSE
      <3>1. w + 1 <= q
        BY <1>1, <1>2, <2>2
      <3>2. (w + 1) * One <= q * One /\ (w + 1) * One = w * One + One
        BY <1>1, <1>2, <3>1, Z3
      <3> QED BY <1>1, <1>2, <3>2
    <2> QED BY <2>1, <2>2
  <1>4. q = w
    BY <1>1, <1>2, <1>3
  <1> QED BY <1>4, <1>1 DEF NewMrif, Greatest

(* What a step of an update leaves of it.                                  *)
LEMMA GotoKeeps ==
    ASSUME TypeOK, NEW t \in Threads, NEW place \in Places, Goto(t, place)
    PROVE  /\ \A u \in Threads \ {t} : job'[u] = job[u]
           /\ job'[t] = IF place = "idle" THEN Idle ELSE [job[t] EXCEPT !.at = place]
  BY DEF Goto, TypeOK

(* Deciding how much to add leaves the rest of the update.                 *)
LEMMA AddKeeps ==
    ASSUME TypeOK, NEW t \in Threads, NEW place \in Places, NEW n \in Int, Add(t, place, n)
    PROVE  /\ \A u \in Threads \ {t} : job'[u] = job[u]
           /\ job'[t] = [at |-> place, dev |-> job[t].dev, by |-> job[t].by,
                         new |-> job[t].new, adding |-> n]
  BY DEF Add, TypeOK

(* A step of a thread changes nothing that matters of this client.         *)
Quiet(d) ==
    /\ Updating(d)' = Updating(d)
    /\ \A u \in Updating(d) : /\ job'[u].by = job[u].by /\ job'[u].new = job[u].new
                              /\ job'[u].dev = job[u].dev
                              /\ job'[u].at = "track" => job[u].at = "track"
    /\ window'[d] = window[d] /\ tracked'[d] = tracked[d]
    /\ state'[d] # "gone" => state[d] # "gone"

(* Such a step keeps the two values steady.                                *)
LEMMA QuietKeeps ==
    ASSUME SteadyInv, Observe, NEW d \in Devs, apart'[d], Quiet(d)
    PROVE  Steady(d)'
  <1>1. apart[d] /\ Alone(d)'
    BY Zenon DEF Observe, Quiet
  <1>2. Steady(d)
    BY <1>1 DEF SteadyInv
  <1>3. \A u \in Updating(d)' : u \in Updating(d) /\ job[u].dev = d /\ job'[u].dev = d
    BY DEF Quiet, Updating
  <1>4. \A u \in Updating(d)' : InStep(u)'
    BY <1>2, <1>3 DEF Quiet, Steady, InStep
  <1>5. Settling(d)'
    BY <1>2 DEF Quiet, Steady, Settling, Agreed, Untouched
  <1> QED BY <1>1, <1>4, <1>5 DEF Steady

(* A thread that ends its update leaves nobody behind.                     *)
LEMMA LeavesAlone ==
    ASSUME SteadyInv, Observe, NEW d \in Devs, apart'[d], NEW t \in Updating(d),
           job'[t] = Idle, \A u \in Threads \ {t} : job'[u] = job[u]
    PROVE  Steady(d) /\ Updating(d)' = {} /\ (Settling(d)' => Steady(d)')
  <1>1. apart[d]
    BY Zenon DEF Observe
  <1>2. Steady(d)
    BY <1>1 DEF SteadyInv
  <1>3. Updating(d)' = {}
    <2>1. \A u \in Updating(d) : u = t
      BY <1>2 DEF Steady, Alone
    <2> QED BY <2>1 DEF Updating, Idle
  <1> QED BY <1>2, <1>3 DEF Steady, Alone

(* So does one that only goes to the next part of it.                      *)
LEMMA GoesOnAlone ==
    ASSUME SteadyInv, Observe, NEW d \in Devs, apart'[d], NEW t \in Updating(d),
           job'[t].at # "idle", job'[t].by = job[t].by, job'[t].dev = d,
           \A u \in Threads \ {t} : job'[u] = job[u]
    PROVE  Steady(d) /\ Updating(d)' = {t} /\ (InStep(t)' => Steady(d)')
  <1>1. apart[d]
    BY Zenon DEF Observe
  <1>2. Steady(d)
    BY <1>1 DEF SteadyInv
  <1>3. Updating(d)' = {t}
    <2>1. \A u \in Updating(d) : u = t
      BY <1>2 DEF Steady, Alone
    <2> QED BY <2>1 DEF Updating
  <1> QED BY <1>2, <1>3 DEF Steady, Alone, Settling

(* And one that begins while others are in the middle of theirs disturbs   *)
(* them.                                                                   *)
LEMMA BeginsAlone ==
    ASSUME Observe, NEW d \in Devs, apart'[d], NEW t \in Threads,
           job[t].at = "idle", job'[t].at \in {"check"},
           job'[t].by # "setup", job'[t].dev = d,
           \A u \in Threads \ {t} : job'[u] = job[u], InStep(t)'
    PROVE  Steady(d)'
  <1>1. t \in Updating(d)' /\ Updating(d)' # {}
    BY DEF Updating
  <1>2. Alone(d)'
    <2>1. CASE Updating(d) = {}
      BY <2>1 DEF Updating, Alone
    <2>2. CASE Updating(d) # {}
      BY <2>2, Zenon DEF Observe
    <2> QED BY <2>1, <2>2
  <1>3. Updating(d)' = {t}
    BY <1>1, <1>2 DEF Alone
  <1> QED BY <1>2, <1>3 DEF Steady, Settling

(* One step, action by action.                                             *)
LEMMA SteadyStep ==
    ASSUME SteadyInv, Next, Observe
    PROVE  Kinds' /\ \A d \in Devs : apart'[d] => Steady(d)'
  <1> USE DEF Kinds, Kind
  <1>0. /\ TypeOK /\ JobsOK /\ Kinds
        /\ job \in [Threads -> Jobs] /\ \A t \in Threads : job[t] \in Jobs
        /\ \A t \in Threads : job[t].at # "idle" => job[t].dev \in Devs
        /\ window \in [Devs -> 1 .. MaxRif] /\ tracked \in [Devs -> 0 .. MaxRif * One]
        /\ state \in [Devs -> {"new", "up", "gone"}]
    BY DEF SteadyInv, IInv, TypeOK, JobsOK, JobOK
  <1> DEFINE Done == Kinds' /\ \A d \in Devs : apart'[d] => Steady(d)'
  <1>1. ASSUME NEW t \in Threads, NEW e \in Devs, Setup(t, e)
        PROVE  Done
    <2>1. /\ \A u \in Threads \ {t} : job'[u] = job[u]
          /\ job[t].at = "idle" /\ job'[t].at = "pool" /\ job'[t].by = "setup" /\ job'[t].dev = e
          /\ state[e] = "new" /\ state' = [state EXCEPT ![e] = "up"]
          /\ window' = window /\ tracked' = tracked
      BY <1>0, <1>1 DEF Setup, Begin
    <2>2. Kinds'
      BY <1>0, <2>1
    <2>3. ASSUME NEW d \in Devs PROVE Quiet(d)
      BY <1>0, <2>1 DEF Quiet, Updating
    <2> QED BY <2>2, <2>3, QuietKeeps
  <1>2. ASSUME NEW t \in Threads, NEW e \in Devs, Compute(t, e)
        PROVE  Done
    <2>1. PICK r \in Rules : /\ tracked' = [tracked EXCEPT ![e] = NewTracked(tracked[e], r)]
                             /\ Begin(t, "check", e, "qos", NewMrif(NewTracked(tracked[e], r)), 0)
      BY <1>2 DEF Compute
    <2>2. /\ \A u \in Threads \ {t} : job'[u] = job[u]
          /\ job[t].at = "idle" /\ job'[t].at = "check" /\ job'[t].by = "qos" /\ job'[t].dev = e
          /\ job'[t].new = NewMrif(tracked'[e])
          /\ state[e] = "up" /\ state' = state /\ window' = window
      BY <1>0, <1>2, <2>1 DEF Compute, Begin
    <2>3. Kinds'
      BY <1>0, <2>2
    <2>4. ASSUME NEW d \in Devs, d # e PROVE Quiet(d)
      BY <1>0, <2>1, <2>2, <2>4 DEF Quiet, Updating
    <2>5. apart'[e] => Steady(e)'
      <3>1. InStep(t)'
        BY <2>2 DEF InStep
      <3> QED BY <2>2, <3>1, BeginsAlone
    <2> QED BY <2>3, <2>4, <2>5, QuietKeeps
  <1>3. ASSUME NEW t \in Threads, NEW e \in Devs, ProcWrite(t, e)
        PROVE  Done
    <2>1. PICK val \in 1 .. MaxRif : Begin(t, "check", e, "proc", val, 0)
      BY <1>3 DEF ProcWrite
    <2>2. /\ \A u \in Threads \ {t} : job'[u] = job[u]
          /\ job[t].at = "idle" /\ job'[t].at = "check" /\ job'[t].by = "proc" /\ job'[t].dev = e
          /\ state[e] # "new" /\ state' = state /\ window' = window /\ tracked' = tracked
      BY <1>0, <1>3, <2>1 DEF ProcWrite, Begin, clientVars
    <2>3. Kinds'
      BY <1>0, <2>2
    <2>4. ASSUME NEW d \in Devs, d # e PROVE Quiet(d)
      BY <1>0, <2>2, <2>4 DEF Quiet, Updating
    <2>5. apart'[e] => Steady(e)'
      <3>1. InStep(t)'
        BY <2>2 DEF InStep
      <3> QED BY <2>2, <3>1, BeginsAlone
    <2> QED BY <2>3, <2>4, <2>5, QuietKeeps
  <1>4. ASSUME NEW t \in Threads, UNCHANGED <<window, tracked, state>>,
               \A u \in Threads \ {t} : job'[u] = job[u], job[t].at # "idle",
               job'[t].dev = job[t].dev, job'[t].by = job[t].by, job'[t].new = job[t].new,
               job'[t].at \notin {"idle", "track"},
               job[t].by = "setup" => job'[t].at \in {"window", "populate"}
        PROVE  Done
    <2>1. Kinds'
      BY <1>0, <1>4
    <2>2. ASSUME NEW d \in Devs PROVE Quiet(d)
      BY <1>0, <1>4 DEF Quiet, Updating
    <2> QED BY <2>1, <2>2, QuietKeeps
  <1>5. ASSUME NEW t \in Threads, UNCHANGED <<window, tracked, state>>,
               \A u \in Threads \ {t} : job'[u] = job[u], job[t].at # "idle", job'[t] = Idle,
               job[t].by = "setup" \/ state[job[t].dev] # "up"
        PROVE  Done
    <2>1. Kinds'
      BY <1>0, <1>5 DEF Idle
    <2>2. ASSUME NEW d \in Devs, t \notin Updating(d) PROVE Quiet(d)
      BY <1>0, <1>5, <2>2 DEF Quiet, Updating, Idle
    <2>3. ASSUME NEW d \in Devs, t \in Updating(d), apart'[d] PROVE Steady(d)'
      <3>1. state[d] = "gone" /\ state' = state
        BY <1>0, <1>5, <2>3 DEF Updating
      <3>2. Settling(d)'
        BY <3>1 DEF Settling
      <3> QED BY <1>5, <2>3, <3>2, LeavesAlone
    <2> QED BY <2>1, <2>2, <2>3, QuietKeeps
  <1>6. ASSUME NEW t \in Threads, CheckImport(t)
        PROVE  Done
    <2>1. /\ job[t].at = "check" /\ job[t].by # "setup" /\ UNCHANGED <<window, tracked, state>>
      BY <1>0, <1>6 DEF CheckImport, clientVars
    <2>2. CASE state[job[t].dev] = "up"
      <3>1. Goto(t, "window")
        BY <1>6, <2>2 DEF CheckImport
      <3>2. /\ \A u \in Threads \ {t} : job'[u] = job[u]
            /\ job'[t] = [job[t] EXCEPT !.at = "window"]
        BY <1>0, <3>1, GotoKeeps DEF Places
      <3> QED BY <1>0, <1>4, <2>1, <3>2 DEF Jobs
    <2>3. CASE state[job[t].dev] # "up"
      <3>1. Goto(t, "idle")
        BY <1>6, <2>3 DEF CheckImport
      <3>2. /\ \A u \in Threads \ {t} : job'[u] = job[u]
            /\ job'[t] = Idle
        BY <1>0, <3>1, GotoKeeps DEF Places
      <3> QED BY <1>5, <2>1, <2>3, <3>2
    <2> QED BY <2>2, <2>3
  <1>14. ASSUME NEW t \in Threads, NEW place \in {"pool", "window", "populate"}, NEW n \in Int,
                Add(t, place, n), job[t].at # "idle", UNCHANGED <<window, tracked, state>>,
                job[t].by = "setup" => place # "pool"
         PROVE  Done
    <2>1. /\ \A u \in Threads \ {t} : job'[u] = job[u]
          /\ job'[t] = [at |-> place, dev |-> job[t].dev, by |-> job[t].by,
                        new |-> job[t].new, adding |-> n]
      BY <1>0, <1>14, AddKeeps DEF Places
    <2> QED BY <1>4, <1>14, <2>1
  <1>7. ASSUME NEW t \in Threads, ReadWindow(t)
        PROVE  Done
    <2> DEFINE w == window[job[t].dev]
    <2>1. /\ job[t].at = "window" /\ UNCHANGED <<window, tracked, state>>
          /\ job[t].dev \in Devs /\ job[t].new \in 1 .. MaxRif /\ job[t].adding \in Int
      BY <1>0, <1>7 DEF ReadWindow, clientVars, Jobs
    <2>2. w \in 1 .. MaxRif
      BY <1>0, <2>1
    <2>3. CASE job[t].by # "setup"
      <3>1. Add(t, "pool", job[t].new - w) /\ job[t].new - w \in Int
        BY <1>7, <2>1, <2>2, <2>3 DEF ReadWindow
      <3> QED BY <1>14, <2>1, <2>3, <3>1
    <2>4. CASE job[t].by = "setup"
      <3>1. Add(t, "populate", Least(w + 2, job[t].adding)) /\ Least(w + 2, job[t].adding) \in Int
        BY <1>7, <2>1, <2>2, <2>4 DEF ReadWindow, Least
      <3> QED BY <1>14, <2>1, <2>4, <3>1
    <2> QED BY <2>3, <2>4
  <1>8. ASSUME NEW t \in Threads, job[t].at \in {"pool", "populate"},
               UNCHANGED <<window, tracked, state>>, Goto(t, AfterPool(t))
        PROVE  Done
    <2>1. CASE job[t].by = "setup"
      <3>1. /\ \A u \in Threads \ {t} : job'[u] = job[u]
            /\ job'[t] = Idle
        BY <1>0, <1>8, <2>1, GotoKeeps DEF Places, AfterPool
      <3> QED BY <1>5, <1>8, <2>1, <3>1
    <2>2. CASE job[t].by # "setup"
      <3>1. /\ \A u \in Threads \ {t} : job'[u] = job[u]
            /\ job'[t] = [job[t] EXCEPT !.at = "set"]
        BY <1>0, <1>8, <2>2, GotoKeeps DEF Places, AfterPool
      <3> QED BY <1>0, <1>4, <1>8, <2>2, <3>1 DEF Jobs
    <2> QED BY <2>1, <2>2
  <1>9. ASSUME NEW t \in Threads, ReadPool(t)
        PROVE  Done
    <2>1. job[t].at = "pool" /\ UNCHANGED <<window, tracked, state>>
      BY <1>9 DEF ReadPool, clientVars
    <2>2. CASE NothingToAdd(t)
      BY <1>8, <1>9, <2>1, <2>2 DEF ReadPool
    <2>3. CASE ~NothingToAdd(t)
      <3>1. Add(t, "populate", Least(job[t].adding, PoolMax - pool))
        BY <1>9, <2>3 DEF ReadPool
      <3>2. Least(job[t].adding, PoolMax - pool) \in Int
        BY <1>0, Numbers DEF Least, Jobs, TypeOK
      <3> QED BY <1>14, <2>1, <3>1, <3>2
    <2> QED BY <2>2, <2>3
  <1>15. ASSUME NEW t \in Threads, ReadRoom(t)
         PROVE  Done
    <2>1. job[t].at = "pool" /\ job[t].by = "setup" /\ UNCHANGED <<window, tracked, state>>
      BY <1>15 DEF ReadRoom, clientVars
    <2>2. CASE Goto(t, "idle")
      BY <1>8, <2>1, <2>2 DEF AfterPool
    <2>3. CASE Add(t, "window", PoolMax - pool)
      <3>1. PoolMax - pool \in Int
        BY <1>0, Numbers DEF TypeOK
      <3> QED BY <1>14, <2>1, <2>3, <3>1
    <2> QED BY <1>15, <2>2, <2>3 DEF ReadRoom
  <1>10. ASSUME NEW t \in Threads, Populate(t)
         PROVE  Done
    BY <1>8, <1>10 DEF Populate, clientVars
  <1>11. ASSUME NEW t \in Threads, SetWindow(t)
         PROVE  Done
    <2>0. PICK e \in Devs : e = job[t].dev
      BY <1>0, <1>11 DEF SetWindow
    <2>1. /\ job[t].at = "set" /\ job[t].dev = e /\ t \in Updating(e) /\ state' = state
          /\ tracked' = tracked /\ window' = [window EXCEPT ![e] = job[t].new]
          /\ job[t].by \in {"qos", "proc"}
      BY <1>0, <1>11, <2>0 DEF SetWindow, Updating, Jobs
    <2>2. CASE job[t].by = "proc"
      <3>1. /\ \A u \in Threads \ {t} : job'[u] = job[u]
            /\ job'[t] = [job[t] EXCEPT !.at = "track"]
        BY <1>0, <1>11, <2>2, GotoKeeps DEF SetWindow, AfterSet, Places
      <3>2. /\ job'[t].at = "track" /\ job'[t].by = "proc" /\ job'[t].dev = e
            /\ job'[t].new = job[t].new /\ \A u \in Threads \ {t} : job'[u] = job[u]
        BY <1>0, <2>1, <2>2, <3>1 DEF Jobs
      <3>3. Kinds'
        BY <1>0, <2>1, <3>2
      <3>4. ASSUME NEW d \in Devs, d # e PROVE Quiet(d)
        BY <1>0, <2>1, <3>2, <3>4 DEF Quiet, Updating
      <3>5. InStep(t)'
        BY <1>0, <2>1, <3>2 DEF InStep
      <3>6. apart'[e] => Steady(e)'
        BY <2>1, <2>2, <3>1, <3>2, <3>5, GoesOnAlone
      <3> QED BY <3>3, <3>4, <3>6, QuietKeeps
    <2>3. CASE job[t].by = "qos"
      <3>1. /\ \A u \in Threads \ {t} : job'[u] = job[u]
            /\ job'[t] = Idle
        BY <1>0, <1>11, <2>3, GotoKeeps DEF SetWindow, AfterSet, Places
      <3>2. Kinds'
        BY <1>0, <2>1, <3>1 DEF Idle
      <3>3. ASSUME NEW d \in Devs, d # e PROVE Quiet(d)
        BY <1>0, <2>1, <3>1, <3>3 DEF Quiet, Updating, Idle
      <3>4. ASSUME apart'[e] PROVE Steady(e)'
        <4>1. Steady(e) /\ (Settling(e)' => Steady(e)')
          BY <2>1, <3>1, <3>4, LeavesAlone
        <4>2. InStep(t)
          BY <2>1, <4>1 DEF Steady
        <4>3. Agreed(e)'
          BY <1>0, <2>1, <2>3, <4>2 DEF InStep, Agreed
        <4> QED BY <4>1, <4>3 DEF Settling
      <3> QED BY <3>2, <3>3, <3>4, QuietKeeps
    <2> QED BY <2>1, <2>2, <2>3
  <1>12. ASSUME NEW t \in Threads, Track(t)
         PROVE  Done
    <2>0. PICK e \in Devs : e = job[t].dev
      BY <1>0, <1>12 DEF Track
    <2>1. /\ job[t].at = "track" /\ job[t].dev = e /\ t \in Updating(e) /\ state' = state
          /\ window' = window /\ tracked' = [tracked EXCEPT ![e] = job[t].new * One]
          /\ job[t].new \in 1 .. MaxRif
      BY <1>0, <1>12, <2>0 DEF Track, Updating, Jobs
    <2>2. /\ \A u \in Threads \ {t} : job'[u] = job[u]
          /\ job'[t] = Idle
      BY <1>0, <1>12, GotoKeeps DEF Track, Places
    <2>3. Kinds'
      BY <1>0, <2>1, <2>2 DEF Idle
    <2>4. ASSUME NEW d \in Devs, d # e PROVE Quiet(d)
      BY <1>0, <2>1, <2>2, <2>4 DEF Quiet, Updating, Idle
    <2>5. ASSUME apart'[e] PROVE Steady(e)'
      <3>1. Steady(e) /\ (Settling(e)' => Steady(e)')
        BY <2>1, <2>2, <2>5, LeavesAlone
      <3>2. window[e] = job[t].new
        BY <2>1, <3>1 DEF Steady, InStep
      <3>3. tracked'[e] = job[t].new * One
        BY <1>0, <2>1
      <3>4. Agreed(e)'
        BY <2>1, <3>2, <3>3, WholeWindow DEF Agreed
      <3> QED BY <3>1, <3>4 DEF Settling
    <2> QED BY <2>3, <2>4, <2>5, QuietKeeps
  <1>13. ASSUME NEW e \in Devs, Disconnect(e)
         PROVE  Done
    <2>1. job' = job /\ window' = window /\ tracked' = tracked
          /\ state' = [state EXCEPT ![e] = "gone"]
      BY <1>13 DEF Disconnect
    <2>2. Kinds'
      BY <1>0, <2>1
    <2>3. ASSUME NEW d \in Devs PROVE Quiet(d)
      BY <1>0, <2>1 DEF Quiet, Updating
    <2> QED BY <2>2, <2>3, QuietKeeps
  <1> QED BY <1>1, <1>2, <1>3, <1>6, <1>7, <1>9, <1>10, <1>11, <1>12, <1>13, <1>15, Cases

(* qos_adjust tracks a window and then sets it, the procfs handler sets    *)
(* one and then tracks it, each under two locks in turn.  The two values   *)
(* of a client that is up and that nobody is updating agree, unless two    *)
(* updates of this very client overlapped; and however often they did, the *)
(* next update that is left alone makes them agree again.                  *)
WindowsAgree == \A d \in Devs :
    apart[d] /\ state[d] = "up" /\ Updating(d) = {} => Agreed(d) \/ Untouched(d)

THEOREM OnlyOverlapsDisagree == ApartSpec => []WindowsAgree
  <1>1. ApartInit => SteadyInv
    <2> SUFFICES ASSUME ApartInit PROVE SteadyInv
      OBVIOUS
    <2>1. IInv
      BY Inductive DEF ApartInit
    <2>2. Kinds /\ \A d \in Devs : Updating(d) = {} /\ Untouched(d)
      BY DEF ApartInit, Init, Idle, Kinds, Kind, Updating, Untouched
    <2> QED BY <2>1, <2>2 DEF SteadyInv, Steady, Alone, Settling
  <1>2. SteadyInv /\ [Next /\ Observe]_<<vars, apart>> => SteadyInv'
    <2> SUFFICES ASSUME SteadyInv, [Next /\ Observe]_<<vars, apart>> PROVE SteadyInv'
      OBVIOUS
    <2>1. IInv'
      BY Inductive DEF SteadyInv
    <2>2. CASE Next /\ Observe
      BY <2>1, <2>2, SteadyStep DEF SteadyInv
    <2>3. CASE UNCHANGED <<vars, apart>>
      BY <2>1, <2>3 DEF SteadyInv, vars, clientVars, Kinds, Kind, Steady, Alone, Settling,
                        Updating, InStep, Agreed, Untouched
    <2> QED BY <2>2, <2>3
  <1>3. SteadyInv => WindowsAgree
    BY DEF SteadyInv, WindowsAgree, Steady, Settling
  <1> QED BY <1>1, <1>2, <1>3, PTL DEF ApartSpec
=============================================================================
