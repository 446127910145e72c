---------------------------- MODULE WindowUpdate -----------------------------
(***************************************************************************)
(* How cl_max_rpcs_in_flight is moved.  Two values describe the window: the*)
(* one the RPC engine reads, under cl_loi_list_lock, and the fixed-point   *)
(* one the controller scales, under qos->lock.  qos_adjust writes the      *)
(* second and then the first, the procfs handler the first and then the    *)
(* second, and in between both top up the pool of requests that all        *)
(* clients share.  A step is what happens under one lock, or one unlocked  *)
(* read.                                                                   *)
(*                                                                         *)
(* Which rule matches is the subject of QosRules: here it may be any.      *)
(***************************************************************************)
EXTENDS QosMath, FiniteSets

CONSTANTS
    Threads,      \* ptlrpcd threads, procfs writers and the thread that sets clients up
    Devs,         \* clients (OSC devices)
    Rules,        \* the m100 and b100 of the rules
    MaxRif,       \* OSC_MAX_RIF_MAX
    InitRif,      \* the window client_obd_setup chooses
    MaxPages,     \* cl_max_pages_per_rpc
    InitDirtyMax, \* cl_dirty_max_pages at set up
    DirtyCap,     \* totalram_pages / 8
    PoolMax,      \* osc_reqpool_maxreqcount
    None

ASSUME ClientsAssumption ==
    /\ IsFiniteSet(Threads) /\ Threads # {}
    /\ Rules \subseteq [m100 : Int, b100 : Int]
    /\ MaxRif \in Nat /\ InitRif \in 1 .. MaxRif /\ Limit <= MaxRif
    /\ MaxPages \in Nat /\ PoolMax \in Nat
    /\ DirtyCap \in Nat /\ InitDirtyMax \in 0 .. DirtyCap
    /\ None \notin Devs

VARIABLES
    state,    \* state[d]: "new", "up" or "gone" (cl_import)
    window,   \* window[d]: cl_max_rpcs_in_flight
    dirtyMax, \* dirtyMax[d]: cl_dirty_max_pages
    tracked,  \* tracked[d]: qos.max_rpc_in_flight100
    pool,     \* osc_pool_req_count
    job       \* job[t]: the update a thread is in the middle of

clientVars == <<state, window, dirtyMax, tracked>>
vars == <<clientVars, pool, job>>

(* Where a thread is, the client, what it executes, the window it will set *)
(* and how many requests it will add to the pool.                          *)
Places == {"idle", "check", "window", "pool", "populate", "set", "track"}
Jobs == [at : Places, dev : Devs \cup {None}, by : {"qos", "proc", "setup"},
         new : 1 .. MaxRif, adding : Int]
Idle == [at |-> "idle", dev |-> None, by |-> "qos", new |-> 1, adding |-> 0]

Begin(t, place, d, what, w, n) ==
    /\ job[t].at = "idle"
    /\ job' = [job EXCEPT ![t] =
                  [at |-> place, dev |-> d, by |-> what, new |-> w, adding |-> n]]
Goto(t, place) ==
    job' = [job EXCEPT ![t] = IF place = "idle" THEN Idle ELSE [@ EXCEPT !.at = place]]
Add(t, place, n) ==
    job' = [job EXCEPT ![t] = [at |-> place, dev |-> @.dev, by |-> @.by, new |-> @.new, adding |-> n]]

\* init_qos reads the window before client_obd_setup has chosen one.
Init ==
    /\ state = [d \in Devs |-> "new"]
    /\ window = [d \in Devs |-> InitRif]
    /\ dirtyMax = [d \in Devs |-> InitDirtyMax]
    /\ tracked = [d \in Devs |-> 0]
    /\ pool = 0
    /\ job = [t \in Threads |-> Idle]

\* osc_setup, once client_obd_setup has made the import and the procfs files
\* are registered: from here on the window may be written.
Setup(t, d) ==
    /\ state[d] = "new"
    /\ Begin(t, "pool", d, "setup", InitRif, 0)
    /\ state' = [state EXCEPT ![d] = "up"]
    /\ UNCHANGED <<window, dirtyMax, tracked, pool>>
SettingUp(d) == \E t \in Threads : job[t].by = "setup" /\ job[t].dev = d

\* qos_adjust under qos->lock, when a rule matches and the gap has passed.
Compute(t, d) ==
    /\ state[d] = "up" /\ ~SettingUp(d)
    /\ \E r \in Rules :
          LET scaled == NewTracked(tracked[d], r) IN
          /\ tracked' = [tracked EXCEPT ![d] = scaled]
          /\ Begin(t, "check", d, "qos", NewMrif(scaled), 0)
    /\ UNCHANGED <<state, window, dirtyMax, pool>>

\* osc_max_rpcs_in_flight_seq_write of a value in range.
ProcWrite(t, d) ==
    /\ state[d] # "new"
    /\ \E val \in 1 .. MaxRif : Begin(t, "check", d, "proc", val, 0)
    /\ UNCHANGED <<clientVars, pool>>

\* LPROCFS_CLIMP_CHECK: with the import gone the handler returns.
CheckImport(t) ==
    /\ job[t].at = "check"
    /\ Goto(t, IF state[job[t].dev] = "up" THEN "window" ELSE "idle")
    /\ UNCHANGED <<clientVars, pool>>

\* cl_sem is held for reading until the window is set.
HoldsSem(t, d) ==
    job[t].dev = d /\ job[t].by # "setup" /\ job[t].at \in {"window", "pool", "populate", "set"}

Disconnect(d) ==
    /\ state[d] = "up" /\ ~SettingUp(d)
    /\ \A t \in Threads : ~HoldsSem(t, d)
    /\ state' = [state EXCEPT ![d] = "gone"]
    /\ UNCHANGED <<window, dirtyMax, tracked, pool, job>>

\* The additional requests: what the window grows by or, in osc_setup, which
\* has read the count of the pool first, two more than the window and at most
\* what that count left.
ReadWindow(t) ==
    LET j == job[t] w == window[j.dev] IN
    /\ j.at = "window"
    /\ \/ j.by # "setup" /\ Add(t, "pool", j.new - w)
       \/ j.by = "setup" /\ Add(t, "populate", Least(w + 2, j.adding))
    /\ UNCHANGED <<clientVars, pool>>

AfterPool(t) == IF job[t].by = "setup" THEN "idle" ELSE "set"
NothingToAdd(t) == job[t].adding <= 0 \/ pool >= PoolMax

\* Mutant: the addition is not cut to what the limit leaves.
ReadPoolOnly(t) ==
    /\ job[t].at = "pool" /\ job[t].by # "setup"
    /\ Goto(t, IF NothingToAdd(t) THEN AfterPool(t) ELSE "populate")
    /\ UNCHANGED <<clientVars, pool>>

\* One atomic_read of the count, and what is missing up to the limit.
ReadPool(t) ==
    /\ job[t].at = "pool" /\ job[t].by # "setup"
    /\ \/ NothingToAdd(t) /\ Goto(t, AfterPool(t))
       \/ ~NothingToAdd(t) /\ Add(t, "populate", Least(job[t].adding, PoolMax - pool))
    /\ UNCHANGED <<clientVars, pool>>

\* The same read in osc_setup, which has not read the window yet.
ReadRoom(t) ==
    /\ job[t].at = "pool" /\ job[t].by = "setup"
    /\ \/ pool >= PoolMax /\ Goto(t, "idle")
       \/ pool < PoolMax /\ Add(t, "window", PoolMax - pool)
    /\ UNCHANGED <<clientVars, pool>>

\* The allocation may stop early.
Populate(t) ==
    /\ job[t].at = "populate"
    /\ \E added \in 0 .. job[t].adding : pool' = pool + added
    /\ Goto(t, AfterPool(t))
    /\ UNCHANGED clientVars

AfterSet(t) == IF job[t].by = "proc" THEN "track" ELSE "idle"

\* Mutant: the dirty limit follows a shrinking window as well.
SetBoth(t) ==
    LET d == job[t].dev w == job[t].new IN
    /\ job[t].at = "set"
    /\ window' = [window EXCEPT ![d] = w]
    /\ dirtyMax' = [dirtyMax EXCEPT ![d] = Least(w * MaxPages, DirtyCap)]
    /\ Goto(t, AfterSet(t))
    /\ UNCHANGED <<state, tracked, pool>>

\* Under cl_loi_list_lock.
SetWindow(t) ==
    LET d == job[t].dev w == job[t].new IN
    /\ job[t].at = "set"
    /\ window' = [window EXCEPT ![d] = w]
    /\ dirtyMax' = [dirtyMax EXCEPT ![d] = AdjustedMaxDirty(w, @, MaxPages, DirtyCap)]
    /\ Goto(t, AfterSet(t))
    /\ UNCHANGED <<state, tracked, pool>>

\* Under qos->lock again.
Track(t) ==
    /\ job[t].at = "track"
    /\ tracked' = [tracked EXCEPT ![job[t].dev] = job[t].new * One]
    /\ Goto(t, "idle")
    /\ UNCHANGED <<state, window, dirtyMax, pool>>

Step(t) ==
    \/ CheckImport(t) \/ ReadWindow(t) \/ ReadPool(t) \/ ReadRoom(t)
    \/ Populate(t) \/ SetWindow(t) \/ Track(t)
Next ==
    \/ \E t \in Threads, d \in Devs : Setup(t, d) \/ Compute(t, d) \/ ProcWrite(t, d)
    \/ \E t \in Threads : Step(t)
    \/ \E d \in Devs : Disconnect(d)

Spec == Init /\ [][Next]_vars

----------------------------------------------------------------------------
(* Properties.                                                             *)

\* Every variable has its type.
TypeOK ==
    /\ state \in [Devs -> {"new", "up", "gone"}]
    /\ window \in [Devs -> 1 .. MaxRif]
    /\ dirtyMax \in [Devs -> 0 .. DirtyCap]
    /\ tracked \in [Devs -> 0 .. MaxRif * One]
    /\ pool \in Nat
    /\ job \in [Threads -> Jobs]

(* "There might be some race which will cause over-limit allocation, but   *)
(* it is fine": every thread but one may add a full share that was decided *)
(* when the pool had room, so the excess does not depend on how often the  *)
(* window moves (qos_adjust, osc_max_rpcs_in_flight_seq_write, osc_setup). *)
(* The largest share is one of osc_setup whose window procfs has raised.   *)
Share == MaxRif + 2
PoolBounded == pool <= PoolMax + (Cardinality(Threads) - 1) * Share

(* The windows and the dirty limits implement the register that OscWindow  *)
(* takes for granted: a step sets one window, in range, and its dirty      *)
(* limit follows upwards only (client_adjust_max_dirty).                   *)
Register == INSTANCE WindowRegister WITH
    Devs <- Devs, MaxRif <- MaxRif, MaxPages <- MaxPages, DirtyCap <- DirtyCap,
    window <- window, dirtyMax <- dirtyMax
ImplementsRegister == Register!Spec
=============================================================================
