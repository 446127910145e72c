------------------------------ MODULE OscWindow ------------------------------
(***************************************************************************)
(* The RPC engine of one object storage client (struct client_obd): pages  *)
(* queued by application threads become extents of an object, extents      *)
(* become bulk RPCs, and cl_max_rpcs_in_flight, the window the controller  *)
(* of metric.h moves, decides when.  Everything a thread does between two  *)
(* lock operations is one action; the interleavings of application         *)
(* threads, ptlrpcd threads, the server and the procfs writer are the      *)
(* subject of the module.                                                  *)
(*                                                                         *)
(* Abstractions.  An extent holds one page.  Server grants are not counted:*)
(* a reservation may fail although there is dirty room (TryEnter).  The    *)
(* lists of ready objects are sets: the code takes the head, the model any *)
(* member.  How the new window is computed is the subject of QosRules and  *)
(* WindowUpdate; here a step may install any value of the range they keep. *)
(***************************************************************************)
EXTENDS Integers, FiniteSets

CONSTANTS
    Apps,        \* application threads: they queue pages and plug the client
    Ptlrpcds,    \* ptlrpcd threads: they run the writeback work and interpret replies
    Objs,        \* osc objects (stripes of files) of this client
    Exts,        \* extents, each used once
    ObjOf,       \* ObjOf[e]: the object of the extent
    KindOf,      \* KindOf[e]: "read", "direct" (write) or "cached" (write)
    MaxPages,    \* cl_max_pages_per_rpc
    MaxRif,      \* the largest window: OSC_MAX_RIF_MAX
    InitRif,     \* the window the device is set up with
    InitDirtyMax,\* cl_dirty_max_pages at set up
    MaxResends,  \* bound on the resends of one RPC: client_should_resend sets it, and a
                 \* server that answers -EINPROGRESS is resent to no more often either
    Evictions,   \* TRUE when the import may be deactivated
    WaitTimeout, \* TRUE when the wait for cache space may time out or be interrupted
    None

Threads == Apps \cup Ptlrpcds
Cmds == {"read", "write"}

ASSUME ThreadsAssumption ==
    /\ Apps \cap Ptlrpcds = {}
    /\ IsFiniteSet(Threads)
ASSUME WorkAssumption ==
    /\ ObjOf \in [Exts -> Objs]
    /\ KindOf \in [Exts -> {"read", "direct", "cached"}]
    /\ IsFiniteSet(Exts)
    /\ None \notin Objs \cup Exts \cup Ptlrpcds
ASSUME LimitsAssumption ==
    /\ MaxPages \in Nat \ {0}
    /\ MaxRif \in Nat \ {0}
    /\ InitRif \in 1 .. MaxRif
    /\ InitDirtyMax \in Nat
    /\ MaxResends \in Nat
    /\ WaitTimeout \in BOOLEAN /\ Evictions \in BOOLEAN

VARIABLES
    est,      \* state and list of each extent: oo_hp_exts, oo_urgent_exts, oo_reading_exts ...
    sync,     \* extents that hold no grant: queued by osc_queue_sync_pages
    dirty,    \* pages that count in cl_dirty_pages
    dirtyMax, \* cl_dirty_max_pages
    waiters,  \* threads on cl_cache_waiters
    hpList, readyList, writeList, readList, \* cl_loi_*_list of the client
    window,   \* cl_max_rpcs_in_flight
    inFlight, \* inFlight["read"] = cl_r_in_flight, inFlight["write"] = cl_w_in_flight
    rpc,      \* the requests, each named by one of its extents: state, command, extents, resends
    valid,    \* FALSE when imp_invalid is set
    work,     \* TRUE when cl_writeback_work is queued
    runner,   \* the ptlrpcd thread that runs cl_writeback_work, or None
    pc,       \* where each thread is
    obj,      \* the object a thread works on
    hold,     \* the page or the rpclist a thread has in hand
    req       \* the request a thread has in hand

cacheVars == <<dirty, dirtyMax, waiters>>
listVars == <<hpList, readyList, writeList, readList>>
workVars == <<work, runner>>
localVars == <<obj, hold, req>>
vars == <<est, sync, cacheVars, listVars, window, inFlight, rpc, valid, workVars, pc, localVars>>

----------------------------------------------------------------------------
(* Where threads can be. *)
AppPlaces == {"plug", "wait", "timedout", "granted", "unreserve", "sync",
              "maint", "flush", "queue", "discard", "drop"}
CheckPlaces == {"check", "send_write", "build_write", "add_write",
                "send_read", "build_read", "add_read", "relist"}
ReplyPlaces == {"adjust", "fini", "release"}

ExtStates == {"new", "active", "cache", "urgent", "hp", "reading", "rpc", "done"}
RpcStates == {"free", "built", "wire", "reply"}
Requests == [st : RpcStates, cmd : Cmds, exts : SUBSET Exts, resends : Nat]
FreeRpc == [st |-> "free", cmd |-> "read", exts |-> {}, resends |-> 0]

(* The queues of an object and what osc_makes_rpc derives from them. *)
Writes(o) == {e \in Exts : ObjOf[e] = o /\ est[e] \in {"cache", "urgent", "hp"}}
Reads(o) == {e \in Exts : ObjOf[e] = o /\ est[e] = "reading"}
HasHp(o) == \E e \in Writes(o) : est[e] = "hp"
MakesWrite(o) ==
    /\ Writes(o) # {}
    /\ \/ ~valid
       \/ \E e \in Writes(o) : est[e] \in {"urgent", "hp"}
       \/ waiters # {}
       \/ Cardinality(Writes(o)) >= MaxPages
MakesRead(o) == Reads(o) # {}

InFlight == inFlight["read"] + inFlight["write"]
\* Mutant: one request too many.
WindowOverfull(o) == InFlight > window + (IF HasHp(o) THEN 0 ELSE 1)
WindowFull(o) == InFlight >= window + (IF HasHp(o) THEN 0 ELSE 1)

(* on_list and __osc_list_maint: membership after the call. *)
OnList(list, o, shouldBeOn) == IF shouldBeOn THEN list \cup {o} ELSE list \ {o}
ListMaint(o) ==
    /\ hpList' = OnList(hpList, o, HasHp(o))
    /\ readyList' = OnList(readyList, o, ~HasHp(o) /\ (MakesWrite(o) \/ MakesRead(o)))
    /\ writeList' = OnList(writeList, o, Writes(o) # {})
    /\ readList' = OnList(readList, o, Reads(o) # {})

(* osc_enter_cache_try: dirty room and a grant, of which the server may
   have given none. *)
HasRoom(D) == Cardinality(D) <= dirtyMax

(* osc_wake_cache_waiters: every waiter leaves the list, some with a page
   of the room that D leaves. *)
WakeWaiters(D) ==
    \E G \in SUBSET waiters :
        LET granted == D \cup UNION {hold[a] : a \in G} IN
        /\ G # {} => HasRoom(granted)
        /\ dirty' = granted
        /\ waiters' = {}

\* osc_extent_finish of the extents F: their pages leave the cache.
FinishExtents(F) ==
    /\ est' = [e \in Exts |-> IF e \in F THEN "done" ELSE est[e]]
    /\ \/ F \subseteq sync /\ UNCHANGED <<dirty, waiters>>
       \/ ~(F \subseteq sync) /\ WakeWaiters(dirty \ (F \ sync))

Goto(t, place) == pc' = [pc EXCEPT ![t] = place]

----------------------------------------------------------------------------
Init ==
    /\ est = [e \in Exts |-> "new"]
    /\ sync = {}
    /\ dirty = {} /\ dirtyMax = InitDirtyMax /\ waiters = {}
    /\ hpList = {} /\ readyList = {} /\ writeList = {} /\ readList = {}
    /\ window = InitRif
    /\ inFlight = [c \in Cmds |-> 0]
    /\ rpc = [r \in Exts |-> FreeRpc]
    /\ valid = TRUE
    /\ work = FALSE /\ runner = None
    /\ pc = [t \in Threads |-> "idle"]
    /\ obj = [t \in Threads |-> None]
    /\ hold = [t \in Threads |-> {}]
    /\ req = [t \in Threads |-> None]

----------------------------------------------------------------------------
(* osc_enter_cache: reserve a page of the dirty cache, or wait for one.    *)

\* Mutant: the dirty limit is not looked at.
ReserveUnchecked(a, e) ==
    /\ dirty' = dirty \cup {e}
    /\ Goto(a, "granted")
    /\ UNCHANGED waiters

\* osc_enter_cache_try succeeds for the page e of thread a.
Reserve(a, e) ==
    /\ HasRoom(dirty \cup {e})
    /\ dirty' = dirty \cup {e}
    /\ Goto(a, "granted")
    /\ UNCHANGED waiters

\* One evaluation of the loop of osc_enter_cache for the page e.
EnterLoop(a, e) ==
    \/ Reserve(a, e)
    \/ /\ dirty # {} \/ inFlight["write"] > 0
       /\ waiters' = waiters \cup {a}
       /\ Goto(a, "plug")
       /\ UNCHANGED dirty
    \/ /\ dirty = {} /\ inFlight["write"] = 0
       /\ Goto(a, "sync")
       /\ UNCHANGED <<dirty, waiters>>

\* ar_force_sync is set after a failed write: the cache is not even tried.
ForceSync(a) == Goto(a, "sync") /\ UNCHANGED <<dirty, waiters>>

EnterCache(a, e) ==
    /\ pc[a] = "idle" /\ est[e] = "new" /\ KindOf[e] = "cached"
    /\ est' = [est EXCEPT ![e] = "active"]
    /\ hold' = [hold EXCEPT ![a] = {e}]
    /\ obj' = [obj EXCEPT ![a] = ObjOf[e]]
    /\ EnterLoop(a, e) \/ ForceSync(a)
    /\ UNCHANGED <<sync, dirtyMax, listVars, window, inFlight, rpc, valid, workVars, req>>

\* osc_io_unplug_async(env, cli, NULL) of a waiter: queue the writeback work.
PlugForSpace(a) ==
    /\ pc[a] = "plug"
    /\ work' = TRUE
    /\ Goto(a, "wait")
    /\ UNCHANGED <<est, sync, cacheVars, listVars, window, inFlight, rpc, valid, runner, localVars>>

\* The waiter is off the list: ocw_rc says whether a page was consumed for it.
Resume(a) ==
    /\ pc[a] = "wait" /\ a \notin waiters
    /\ \/ /\ hold[a] \subseteq dirty
          /\ Goto(a, "granted")
          /\ UNCHANGED <<dirty, waiters>>
       \/ /\ ~(hold[a] \subseteq dirty)
          /\ \E e \in hold[a] : EnterLoop(a, e)
    /\ UNCHANGED <<est, sync, dirtyMax, listVars, window, inFlight, rpc, valid, workVars, localVars>>

\* l_wait_event gives up, by timeout or signal, on a waiter that is on the list ...
WaitTimesOut(a) ==
    /\ WaitTimeout
    /\ pc[a] = "wait" /\ a \in waiters
    /\ Goto(a, "timedout")
    /\ UNCHANGED <<est, sync, cacheVars, listVars, window, inFlight, rpc, valid, workVars, localVars>>

\* ... and osc_enter_cache takes the lock afterwards, removes the waiter and
\* falls back to synchronous I/O, whatever happened to it in between.
GiveUp(a) ==
    /\ pc[a] = "timedout"
    /\ waiters' = waiters \ {a}
    /\ Goto(a, "sync")
    /\ UNCHANGED <<est, sync, dirty, dirtyMax, listVars, window, inFlight, rpc, valid, workVars, localVars>>

\* A signal ended the wait: the system call starts again, with another page.
Interrupted(a) ==
    /\ pc[a] = "timedout"
    /\ waiters' = waiters \ {a}
    /\ est' = [e \in Exts |-> IF e \in hold[a] THEN "done" ELSE est[e]]
    /\ hold' = [hold EXCEPT ![a] = {}]
    /\ obj' = [obj EXCEPT ![a] = None]
    /\ Goto(a, "idle")
    /\ UNCHANGED <<sync, dirty, dirtyMax, listVars, window, inFlight, rpc, valid, workVars, req>>

(* The rest of osc_queue_async_io.                                         *)

\* osc_extent_find succeeded and the extent is released: it becomes pending,
\* urgent at once when a sync or a conflicting I/O met it while it was active.
ReleaseExtent(a) ==
    /\ pc[a] = "granted"
    /\ \E to \in {"cache", "urgent"} :
          est' = [e \in Exts |-> IF e \in hold[a] THEN to ELSE est[e]]
    /\ hold' = [hold EXCEPT ![a] = {}]
    /\ Goto(a, "maint")
    /\ UNCHANGED <<sync, cacheVars, listVars, window, inFlight, rpc, valid, workVars, obj, req>>

\* osc_extent_find failed: osc_exit_cache, which wakes nobody ...
ExitCache(a) ==
    /\ pc[a] = "granted"
    /\ dirty' = dirty \ hold[a]
    /\ est' = [e \in Exts |-> IF e \in hold[a] THEN "done" ELSE est[e]]
    /\ hold' = [hold EXCEPT ![a] = {}]
    /\ Goto(a, "unreserve")
    /\ UNCHANGED <<sync, dirtyMax, waiters, listVars, window, inFlight, rpc, valid, workVars, obj, req>>

\* Mutant: the grant is returned without waking the waiters.
UnreserveQuietly(a) ==
    /\ pc[a] = "unreserve"
    /\ obj' = [obj EXCEPT ![a] = None]
    /\ Goto(a, "idle")
    /\ UNCHANGED <<est, sync, cacheVars, listVars, window, inFlight, rpc, valid, workVars, hold, req>>

\* ... then osc_unreserve_grant of the whole grant, which wakes the waiters.
UnreserveGrant(a) ==
    /\ pc[a] = "unreserve"
    /\ WakeWaiters(dirty)
    /\ obj' = [obj EXCEPT ![a] = None]
    /\ Goto(a, "idle")
    /\ UNCHANGED <<est, sync, dirtyMax, listVars, window, inFlight, rpc, valid, workVars, hold, req>>

(* osc_queue_sync_pages, for reads, direct I/O and pages denied the cache. *)

QueueSync(a, e) ==
    /\ est' = [est EXCEPT ![e] = IF KindOf[e] = "read" THEN "reading" ELSE "urgent"]
    /\ sync' = sync \cup {e}
    /\ obj' = [obj EXCEPT ![a] = ObjOf[e]]
    /\ hold' = [hold EXCEPT ![a] = {}]
    /\ Goto(a, "maint")
    /\ UNCHANGED <<cacheVars, listVars, window, inFlight, rpc, valid, workVars, req>>

SubmitSync(a, e) ==
    pc[a] = "idle" /\ est[e] = "new" /\ KindOf[e] # "cached" /\ QueueSync(a, e)
FallBackToSync(a) ==
    pc[a] = "sync" /\ \E e \in hold[a] : QueueSync(a, e)

(* Pages that are in the cache already are made urgent.                    *)

\* osc_flush_async_page: asynchronous plug.
FlushPage(a, e) ==
    /\ pc[a] = "idle" /\ est[e] = "cache"
    /\ est' = [est EXCEPT ![e] = "urgent"]
    /\ obj' = [obj EXCEPT ![a] = ObjOf[e]]
    /\ Goto(a, "maint")
    /\ UNCHANGED <<sync, cacheVars, listVars, window, inFlight, rpc, valid, workVars, hold, req>>

\* osc_cache_writeback_range: a lock is cancelled (hp) or a file is synced;
\* an urgent extent may stay where it is, a later sync may demote an hp one.
\* The caller plugs the client itself.
WritebackRange(a, e) ==
    /\ pc[a] = "idle" /\ est[e] \in {"cache", "urgent", "hp"} /\ e \notin sync
    /\ \E to \in {"urgent", "hp"} : est' = [est EXCEPT ![e] = to]
    /\ obj' = [obj EXCEPT ![a] = ObjOf[e]]
    /\ Goto(a, "flush")
    /\ UNCHANGED <<sync, cacheVars, listVars, window, inFlight, rpc, valid, workVars, hold, req>>

\* osc_cache_writeback_range with discard: the extent is taken off the queues,
\* the lists are refreshed and the extent is finished as if it was written.
DiscardRange(a, e) ==
    /\ pc[a] = "idle" /\ est[e] \in {"cache", "urgent", "hp"} /\ e \notin sync
    /\ est' = [est EXCEPT ![e] = "rpc"]
    /\ hold' = [hold EXCEPT ![a] = {e}]
    /\ obj' = [obj EXCEPT ![a] = ObjOf[e]]
    /\ Goto(a, "discard")
    /\ UNCHANGED <<sync, cacheVars, listVars, window, inFlight, rpc, valid, workVars, req>>

DiscardMaint(a) ==
    /\ pc[a] = "discard"
    /\ ListMaint(obj[a])
    /\ obj' = [obj EXCEPT ![a] = None]
    /\ Goto(a, "drop")
    /\ UNCHANGED <<est, sync, cacheVars, window, inFlight, rpc, valid, workVars, hold, req>>

DiscardFinish(a) ==
    /\ pc[a] = "drop"
    /\ FinishExtents(hold[a])
    /\ hold' = [hold EXCEPT ![a] = {}]
    /\ Goto(a, "idle")
    /\ UNCHANGED <<sync, dirtyMax, listVars, window, inFlight, rpc, valid, workVars, obj, req>>

(* osc_io_unplug0 with an object.                                          *)

\* osc_list_maint; the caller returns when the object is not ready.
PlugMaint(a) ==
    /\ pc[a] \in {"maint", "flush"}
    /\ ListMaint(obj[a])
    /\ LET ready == obj[a] \in hpList' \cup readyList' IN
       IF ready
       THEN Goto(a, IF pc[a] = "maint" THEN "queue" ELSE "check")
       ELSE Goto(a, "idle")
    /\ obj' = [obj EXCEPT ![a] = None]
    /\ UNCHANGED <<est, sync, cacheVars, window, inFlight, rpc, valid, workVars, hold, req>>

\* qos_throttle and ptlrpcd_queue_work.
QueueWork(a) ==
    /\ pc[a] = "queue"
    /\ work' = TRUE
    /\ Goto(a, "idle")
    /\ UNCHANGED <<est, sync, cacheVars, listVars, window, inFlight, rpc, valid, runner, localVars>>

\* ptlrpcd runs brw_queue_work, one instance at a time.
RunWork(p) ==
    /\ pc[p] = "idle" /\ work /\ runner = None
    /\ work' = FALSE /\ runner' = p
    /\ Goto(p, "check")
    /\ UNCHANGED <<est, sync, cacheVars, listVars, window, inFlight, rpc, valid, localVars>>

\* The import is deactivated; IMP_EVENT_INVALIDATE then plugs the client.
Invalidate(a) ==
    /\ Evictions
    /\ pc[a] = "idle" /\ valid
    /\ valid' = FALSE
    /\ Goto(a, "check")
    /\ UNCHANGED <<est, sync, cacheVars, listVars, window, inFlight, rpc, workVars, localVars>>

Reconnect ==
    /\ ~valid
    /\ valid' = TRUE
    /\ UNCHANGED <<est, sync, cacheVars, listVars, window, inFlight, rpc, workVars, pc, localVars>>

----------------------------------------------------------------------------
(* osc_check_rpcs: one iteration is check, send_write, ..., relist.        *)

\* osc_next_obj: where the next object is taken from.
NextObjs ==
    IF hpList # {} THEN hpList
    ELSE IF readyList # {} THEN readyList
    ELSE IF waiters # {} /\ writeList # {} THEN writeList
    ELSE IF valid THEN {}
    ELSE IF writeList # {} THEN writeList ELSE readList

\* list_to_obj: the object leaves the list it was found on.
TakeOff(o) ==
    /\ hpList' = hpList \ {o}
    /\ readyList' = IF hpList # {} THEN readyList ELSE readyList \ {o}
    /\ writeList' = IF hpList \cup readyList # {} THEN writeList ELSE writeList \ {o}
    /\ readList' = IF hpList \cup readyList \cup writeList # {} THEN readList ELSE readList \ {o}

CheckDone(t) ==
    /\ Goto(t, "idle")
    /\ runner' = IF runner = t THEN None ELSE runner

CheckEmpty(t) ==
    /\ pc[t] = "check" /\ NextObjs = {}
    /\ CheckDone(t)
    /\ UNCHANGED <<est, sync, cacheVars, listVars, window, inFlight, rpc, valid, work, localVars>>

\* Mutant: the object is not put back when the window is full.
CheckFullLoses(t) ==
    /\ pc[t] = "check"
    /\ \E o \in NextObjs : WindowFull(o) /\ TakeOff(o)
    /\ CheckDone(t)
    /\ UNCHANGED <<est, sync, cacheVars, window, inFlight, rpc, valid, work, localVars>>

\* osc_max_rpc_in_flight: put the object back where it belongs and stop.
CheckFull(t) ==
    /\ pc[t] = "check"
    /\ \E o \in NextObjs : WindowFull(o) /\ ListMaint(o)
    /\ CheckDone(t)
    /\ UNCHANGED <<est, sync, cacheVars, window, inFlight, rpc, valid, work, localVars>>

CheckNext(t) ==
    /\ pc[t] = "check"
    /\ \E o \in NextObjs :
          /\ ~WindowFull(o)
          /\ TakeOff(o)
          /\ obj' = [obj EXCEPT ![t] = o]
    /\ Goto(t, "send_write")
    /\ UNCHANGED <<est, sync, cacheVars, window, inFlight, rpc, valid, workVars, hold, req>>

\* get_write_extents: all the high priority extents that fit, then an urgent
\* one with those that follow it in the file, and so on, then the others.
Batches(S) == {B \in SUBSET S : B # {} /\ Cardinality(B) <= MaxPages}
WriteBatches(o) ==
    LET Queue(q) == {e \in Writes(o) : est[e] = q} IN
    {B \in Batches(Writes(o)) :
        /\ Queue("hp") \subseteq B \/ B \subseteq Queue("hp")
        /\ B \cap Queue("cache") # {} /\ Queue("urgent") # {} => B \cap Queue("urgent") # {}}

\* Mutant: the extents stay on the queues of the object.
TakeACopy(t, B, place) ==
    /\ hold' = [hold EXCEPT ![t] = B]
    /\ Goto(t, place)
    /\ UNCHANGED <<est, sync, cacheVars, listVars, window, inFlight, rpc, valid, workVars, obj, req>>

Take(t, B, place) ==
    /\ est' = [e \in Exts |-> IF e \in B THEN "rpc" ELSE est[e]]
    /\ hold' = [hold EXCEPT ![t] = B]
    /\ Goto(t, place)
    /\ UNCHANGED <<sync, cacheVars, listVars, window, inFlight, rpc, valid, workVars, obj, req>>

Skip(t, place) ==
    /\ Goto(t, place)
    /\ UNCHANGED <<est, sync, cacheVars, listVars, window, inFlight, rpc, valid, workVars, localVars>>

\* osc_makes_rpc and the first half of osc_send_write_rpc, under the object lock.
SendWrite(t) ==
    /\ pc[t] = "send_write"
    /\ \/ ~MakesWrite(obj[t]) /\ Skip(t, "send_read")
       \/ /\ MakesWrite(obj[t])
          /\ \E B \in WriteBatches(obj[t]) : Take(t, B, "build_write")

\* The same for osc_send_read_rpc.
SendRead(t) ==
    /\ pc[t] = "send_read"
    /\ \/ ~MakesRead(obj[t]) /\ Skip(t, "relist")
       \/ \E B \in Batches(Reads(obj[t])) : Take(t, B, "build_read")

\* osc_extent_make_ready fails for one extent of a write.
MakeReadyFails(t, e) ==
    /\ pc[t] = "build_write" /\ e \in hold[t] /\ e \notin sync
    /\ FinishExtents({e})
    /\ hold' = [hold EXCEPT ![t] = @ \ {e}]
    /\ UNCHANGED <<sync, dirtyMax, listVars, window, inFlight, rpc, valid, workVars, pc, obj, req>>

AfterBuild(t) == IF pc[t] = "build_write" THEN "send_read" ELSE "relist"

\* No extent is left, or osc_build_rpc fails for want of memory and finishes them.
BuildFails(t) ==
    /\ pc[t] \in {"build_write", "build_read"}
    /\ FinishExtents(hold[t])
    /\ hold' = [hold EXCEPT ![t] = {}]
    /\ Goto(t, AfterBuild(t))
    /\ UNCHANGED <<sync, dirtyMax, listVars, window, inFlight, rpc, valid, workVars, obj, req>>

\* osc_build_rpc up to the unlock after the in-flight count.
BuildRpc(t) ==
    /\ pc[t] \in {"build_write", "build_read"} /\ hold[t] # {}
    /\ LET cmd == IF pc[t] = "build_write" THEN "write" ELSE "read" IN
       /\ \E r \in hold[t] :
             /\ rpc[r].st = "free"
             /\ rpc' = [rpc EXCEPT ![r] = [st |-> "built", cmd |-> cmd,
                                           exts |-> hold[t], resends |-> 0]]
             /\ req' = [req EXCEPT ![t] = r]
       /\ inFlight' = [inFlight EXCEPT ![cmd] = @ + 1]
    /\ hold' = [hold EXCEPT ![t] = {}]
    /\ Goto(t, IF pc[t] = "build_write" THEN "add_write" ELSE "add_read")
    /\ UNCHANGED <<est, sync, cacheVars, listVars, window, valid, workVars, obj>>

\* qos_throttle, then ptlrpcd_add_req: the request is on its way.
AddReq(t) ==
    /\ pc[t] \in {"add_write", "add_read"}
    /\ rpc' = [rpc EXCEPT ![req[t]].st = "wire"]
    /\ req' = [req EXCEPT ![t] = None]
    /\ Goto(t, IF pc[t] = "add_write" THEN "send_read" ELSE "relist")
    /\ UNCHANGED <<est, sync, cacheVars, listVars, window, inFlight, valid, workVars, obj, hold>>

\* Mutant: the iteration does not refresh the lists.
RelistNothing(t) ==
    /\ pc[t] = "relist"
    /\ obj' = [obj EXCEPT ![t] = None]
    /\ Goto(t, "check")
    /\ UNCHANGED <<est, sync, cacheVars, listVars, window, inFlight, rpc, valid, workVars, hold, req>>

\* osc_list_maint at the end of the iteration.
Relist(t) ==
    /\ pc[t] = "relist"
    /\ ListMaint(obj[t])
    /\ obj' = [obj EXCEPT ![t] = None]
    /\ Goto(t, "check")
    /\ UNCHANGED <<est, sync, cacheVars, window, inFlight, rpc, valid, workVars, hold, req>>

----------------------------------------------------------------------------
(* brw_interpret: ptlrpcd handles a reply, a timeout or an aborted request. *)

\* Mutant: the new window may be one less than the value asked for.
SetWindowLow(w) ==
    /\ window' = w - 1
    /\ dirtyMax' = IF w * MaxPages > dirtyMax THEN w * MaxPages ELSE dirtyMax

SetWindow(w) ==
    /\ window' = w
    /\ dirtyMax' = IF w * MaxPages > dirtyMax THEN w * MaxPages ELSE dirtyMax

Interpret(p, r) ==
    /\ pc[p] = "idle" /\ rpc[r].st = "wire"
    /\ rpc' = [rpc EXCEPT ![r].st = "reply"]
    /\ req' = [req EXCEPT ![p] = r]
    /\ Goto(p, "adjust")
    /\ UNCHANGED <<est, sync, cacheVars, listVars, window, inFlight, valid, workVars, obj, hold>>

\* qos_adjust moves the window or leaves it alone.
Adjust(p) ==
    /\ pc[p] = "adjust"
    /\ \/ \E w \in 1 .. MaxRif : SetWindow(w)
       \/ UNCHANGED <<window, dirtyMax>>
    /\ Goto(p, "fini")
    /\ UNCHANGED <<est, sync, dirty, waiters, listVars, inFlight, rpc, valid, workVars, localVars>>

\* Mutant: the slot is given back when the request is sent again.
RedoReleases(p) ==
    /\ pc[p] = "fini" /\ rpc[req[p]].resends < MaxResends
    /\ rpc' = [rpc EXCEPT ![req[p]].st = "wire", ![req[p]].resends = @ + 1]
    /\ inFlight' = [inFlight EXCEPT ![rpc[req[p]].cmd] = @ - 1]
    /\ req' = [req EXCEPT ![p] = None]
    /\ Goto(p, "idle")
    /\ UNCHANGED <<est, sync, cacheVars, listVars, window, valid, workVars, obj, hold>>

\* Mutant: the new request does not take over the extents of the old one.
RedoForgets(p) ==
    /\ pc[p] = "fini" /\ rpc[req[p]].resends < MaxResends
    /\ rpc' = [rpc EXCEPT ![req[p]].st = "wire", ![req[p]].resends = @ + 1,
                          ![req[p]].exts = {}]
    /\ req' = [req EXCEPT ![p] = None]
    /\ Goto(p, "idle")
    /\ UNCHANGED <<est, sync, cacheVars, listVars, window, inFlight, valid, workVars, obj, hold>>

\* osc_brw_redo_request: a new request takes over the extents and keeps the slot.
Redo(p) ==
    /\ pc[p] = "fini" /\ rpc[req[p]].resends < MaxResends
    /\ rpc' = [rpc EXCEPT ![req[p]].st = "wire", ![req[p]].resends = @ + 1]
    /\ req' = [req EXCEPT ![p] = None]
    /\ Goto(p, "idle")
    /\ UNCHANGED <<est, sync, cacheVars, listVars, window, inFlight, valid, workVars, obj, hold>>

\* The RPC is over, well or badly: its extents are finished.
FinishRpc(p) ==
    /\ pc[p] = "fini"
    /\ FinishExtents(rpc[req[p]].exts)
    /\ Goto(p, "release")
    /\ UNCHANGED <<sync, dirtyMax, listVars, window, inFlight, rpc, valid, workVars, localVars>>

\* Mutant: the client is not plugged after the slot was given back.
ReleaseAndRest(p) ==
    /\ pc[p] = "release"
    /\ inFlight' = [inFlight EXCEPT ![rpc[req[p]].cmd] = @ - 1]
    /\ WakeWaiters(dirty)
    /\ rpc' = [rpc EXCEPT ![req[p]] = FreeRpc]
    /\ req' = [req EXCEPT ![p] = None]
    /\ Goto(p, "idle")
    /\ UNCHANGED <<est, sync, dirtyMax, listVars, window, valid, workVars, obj, hold>>

\* Mutant: the waiters are woken by osc_extent_finish only.
ReleaseQuietly(p) ==
    /\ pc[p] = "release"
    /\ inFlight' = [inFlight EXCEPT ![rpc[req[p]].cmd] = @ - 1]
    /\ rpc' = [rpc EXCEPT ![req[p]] = FreeRpc]
    /\ req' = [req EXCEPT ![p] = None]
    /\ Goto(p, "check")
    /\ UNCHANGED <<est, sync, cacheVars, listVars, window, valid, workVars, obj, hold>>

\* The slot is given back, the waiters are woken again and the client plugged.
ReleaseSlot(p) ==
    /\ pc[p] = "release"
    /\ inFlight' = [inFlight EXCEPT ![rpc[req[p]].cmd] = @ - 1]
    /\ WakeWaiters(dirty)
    /\ rpc' = [rpc EXCEPT ![req[p]] = FreeRpc]
    /\ req' = [req EXCEPT ![p] = None]
    /\ Goto(p, "check")
    /\ UNCHANGED <<est, sync, dirtyMax, listVars, window, valid, workVars, obj, hold>>

\* osc_max_rpcs_in_flight_seq_write: an administrator sets the window.
WriteMaxRpcs ==
    /\ \E w \in 1 .. MaxRif : w # window /\ SetWindow(w)
    /\ UNCHANGED <<est, sync, dirty, waiters, listVars, inFlight, rpc, valid, workVars, pc, localVars>>

----------------------------------------------------------------------------
CheckStep(t) ==
    \/ CheckEmpty(t) \/ CheckFull(t) \/ CheckNext(t)
    \/ SendWrite(t) \/ SendRead(t)
    \/ \E e \in Exts : MakeReadyFails(t, e)
    \/ BuildFails(t) \/ BuildRpc(t) \/ AddReq(t) \/ Relist(t)

\* Steps that end what an application thread has begun.
AppStep(a) ==
    \/ PlugForSpace(a) \/ Resume(a) \/ GiveUp(a) \/ Interrupted(a)
    \/ ReleaseExtent(a) \/ ExitCache(a) \/ UnreserveGrant(a)
    \/ FallBackToSync(a) \/ PlugMaint(a) \/ QueueWork(a)
    \/ DiscardMaint(a) \/ DiscardFinish(a)

\* Steps that begin something.
AppBegin(a) ==
    \/ \E e \in Exts : EnterCache(a, e) \/ SubmitSync(a, e)
                       \/ FlushPage(a, e)
                       \/ WritebackRange(a, e) \/ DiscardRange(a, e)
    \/ Invalidate(a)

ReplyStep(p) == Adjust(p) \/ Redo(p) \/ FinishRpc(p) \/ ReleaseSlot(p)
Serve(p) == RunWork(p) \/ \E r \in Exts : Interpret(p, r)

Next ==
    \/ \E a \in Apps : AppBegin(a) \/ AppStep(a) \/ WaitTimesOut(a)
    \/ \E p \in Ptlrpcds : Serve(p) \/ ReplyStep(p)
    \/ \E t \in Threads : CheckStep(t)
    \/ Reconnect \/ WriteMaxRpcs

Spec == Init /\ [][Next]_vars

(* The scheduler runs every thread that can run, ptlrpcd picks up queued   *)
(* work, and every request is answered, times out or is aborted.  Nothing  *)
(* is assumed of applications that could begin something, of the timeout   *)
(* of a waiter, of the import or of the administrator.                     *)
Fairness ==
    /\ \A a \in Apps : WF_vars(AppStep(a))
    /\ \A p \in Ptlrpcds : WF_vars(ReplyStep(p)) /\ WF_vars(Serve(p))
    /\ \A t \in Threads : WF_vars(CheckStep(t))
FairSpec == Spec /\ Fairness

----------------------------------------------------------------------------
(* Properties.                                                             *)

\* Every variable has its type.
TypeOK ==
    /\ est \in [Exts -> ExtStates]
    /\ sync \subseteq Exts /\ dirty \subseteq Exts
    /\ dirtyMax \in Nat
    /\ waiters \subseteq Apps
    /\ hpList \subseteq Objs /\ readyList \subseteq Objs
    /\ writeList \subseteq Objs /\ readList \subseteq Objs
    /\ window \in 1 .. MaxRif
    /\ inFlight \in [Cmds -> Int]
    /\ rpc \in [Exts -> Requests]
    /\ valid \in BOOLEAN /\ work \in BOOLEAN
    /\ runner \in Ptlrpcds \cup {None}
    /\ pc \in [Threads -> {"idle"} \cup AppPlaces \cup CheckPlaces \cup ReplyPlaces]
    /\ obj \in [Threads -> Objs \cup {None}]
    /\ hold \in [Threads -> SUBSET Exts]
    /\ req \in [Threads -> Exts \cup {None}]

(* The in-flight counters count the requests that were built and whose     *)
(* slot was not given back: a resend or a failed build neither leaks a     *)
(* slot nor returns one twice (osc_build_rpc, brw_interpret).              *)
LiveRpcs(c) == {r \in Exts : rpc[r].st # "free" /\ rpc[r].cmd = c}
SlotsConserved == \A c \in Cmds : inFlight[c] = Cardinality(LiveRpcs(c))

(* The window is checked under the list lock but the count is raised after *)
(* the lock was dropped, once for a write and once for a read: that        *)
(* overshoot is bounded by what every thread may have in hand.             *)
InFlightBounded == InFlight <= MaxRif + 2 * Cardinality(Threads)

(* An extent taken off an object's queues is in the hands of one thread or *)
(* in one live request, and nowhere else: no page is sent twice or lost.   *)
Carriers(e) == {t \in Threads : pc[t] \in {"build_write", "build_read", "discard", "drop"} /\ e \in hold[t]}
               \cup {r \in Exts : e \in rpc[r].exts}
ExtentsAccounted ==
    \A e \in Exts : Cardinality(Carriers(e)) <= 1 /\ (est[e] = "rpc" => Carriers(e) # {})

(* Somebody is bound to run osc_check_rpcs, or to queue the work that does:*)
(* a request that will be answered, queued work, a thread on its way.      *)
WillCheck ==
    \/ work
    \/ \E r \in Exts : rpc[r].st = "wire"
    \/ \E t \in Threads : pc[t] \in {"plug", "queue"} \cup CheckPlaces \cup ReplyPlaces

Eligible(o) == HasHp(o) \/ MakesWrite(o) \/ MakesRead(o)

(* Pages that could be sent are never left behind: the live-lock described *)
(* in osc_check_rpcs.  The readiness lists are a cache of osc_makes_rpc    *)
(* that is refreshed by whoever changes an object; the window may be full  *)
(* when they are read, and may be changed at any moment.                   *)
NoStrandedWork ==
    \A o \in Objs : Eligible(o) =>
        \/ WillCheck
        \/ \E a \in Apps : pc[a] \in {"maint", "flush"} /\ obj[a] = o

\* The dirty page of extent e will be given back: it is queued or being sent,
\* or held by the application that was granted it.
OnItsWay(e) ==
    \/ est[e] \in {"cache", "urgent", "hp", "rpc"} /\ e \notin sync
    \/ est[e] = "active" /\ \E a \in Apps :
           e \in hold[a] /\ pc[a] \in {"plug", "wait", "granted"}

(* What osc_enter_cache says of its reservations, that they are "freed in  *)
(* bulk in osc_free_grant() unless it fails to add osc cache, in that      *)
(* case, it will be freed in osc_exit_cache()": every page that is counted *)
(* as dirty is bound to be given back.                                     *)
ReservationFreed == \A e \in dirty : OnItsWay(e)

(* A waiter for cache space sleeps only while somebody is bound to wake it *)
(* (osc_enter_cache, osc_wake_cache_waiters), as long as no granted page   *)
(* was lost: a lost one is dirty for ever, so that a waiter behind it may  *)
(* have nothing left to wait for but its timeout.                          *)
WaitersWillWake ==
    waiters # {} /\ ReservationFreed =>
        \/ WillCheck
        \/ \E a \in Apps : pc[a] \in {"granted", "unreserve", "maint", "flush",
                                       "discard", "drop"}
        \/ \E a \in Apps \ waiters : pc[a] = "wait"

(* The dirty cache never holds more pages than cl_dirty_max_pages.         *)
DirtyWithinMax == Cardinality(dirty) <= dirtyMax

(* Only brw_interpret frees a slot, and the extents of the request are     *)
(* finished by then; a request that is sent again keeps its extents.       *)
FinishedBeforeRelease ==
    [][\A r \in Exts :
          /\ rpc[r].st # "free" /\ rpc'[r].st = "free" =>
                 \A e \in rpc[r].exts : est[e] = "done"
          /\ rpc[r].st # "free" /\ rpc'[r].st # "free" => rpc'[r].exts = rpc[r].exts]_vars

(* Every page that must be sent is finished in the end.                    *)
UrgentServed ==
    \A e \in Exts : est[e] \in {"urgent", "hp", "reading", "rpc"} ~> est[e] = "done"

(* A thread that waits for cache space is released without its timeout.    *)
WaitersReleased == \A a \in Apps : pc[a] = "wait" ~> pc[a] # "wait"
=============================================================================
