-------------------------- MODULE OscWindow_proofs --------------------------
(***************************************************************************)
(* Theorems of OscWindow, for any number of threads, objects and extents.  *)
(*                                                                         *)
(* NoStrandedWork is not inductive.  The strengthening says where an object*)
(* with something to send is found: on a list osc_next_obj will look at, or*)
(* in the hands of a thread that refreshes its lists before it lets go     *)
(* (Listed, Queued); that whatever osc_next_obj would return has somebody  *)
(* bound to look (Watched); and that a full window means a live request,   *)
(* whose reply will plug the client (Owned and SlotsConserved).            *)
(***************************************************************************)
EXTENDS OscWindow, TLAPS, FiniteSetTheorems

(* A thread that will call osc_list_maint on the object. *)
HandlingPlaces == {"maint", "flush"} \cup (CheckPlaces \ {"check"})
InHand(o) == \E t \in Threads : obj[t] = o /\ pc[t] \in HandlingPlaces

(* What makes an object ready whatever the waiters and the import are. *)
Pressing(o) ==
    \/ \E e \in Writes(o) : est[e] \in {"urgent", "hp"}
    \/ Cardinality(Writes(o)) >= MaxPages
    \/ MakesRead(o)

Bringing(o) == \E a \in Apps : pc[a] \in {"maint", "flush"} /\ obj[a] = o

(* Places belong to the threads that may be there. *)
Places ==
    /\ \A t \in Threads : pc[t] \in AppPlaces => t \in Apps
    /\ \A t \in Threads : pc[t] \in ReplyPlaces => t \in Ptlrpcds
    /\ \A t \in Threads :
          pc[t] \in {"plug", "wait", "granted", "maint", "flush", "discard"}
                   \cup (CheckPlaces \ {"check"})
              => obj[t] \in Objs
    /\ \A t \in Threads : pc[t] \in {"plug", "wait", "granted"} =>
          \A e \in hold[t] : ObjOf[e] = obj[t]

AddPlaces == {"add_write", "add_read"}

(* A request that is being built or interpreted is in the hands of exactly *)
(* one thread.                                                             *)
Owned ==
    /\ \A t \in Threads : pc[t] \in AddPlaces =>
          req[t] \in Exts /\ rpc[req[t]].st = "built"
    /\ \A t \in Threads : pc[t] \in ReplyPlaces =>
          req[t] \in Exts /\ rpc[req[t]].st = "reply"
    /\ \A t, u \in Threads :
          t # u /\ pc[t] \in AddPlaces \cup ReplyPlaces
                /\ pc[u] \in AddPlaces \cup ReplyPlaces => req[t] # req[u]
    /\ \A r \in Exts : rpc[r].st = "built" =>
          \E t \in Threads : pc[t] \in AddPlaces /\ req[t] = r
    /\ \A r \in Exts : rpc[r].st = "reply" =>
          \E t \in Threads : pc[t] \in ReplyPlaces /\ req[t] = r

Listed == \A o \in Objs : Pressing(o) => o \in hpList \cup readyList \/ InHand(o)
Queued == \A o \in Objs : Writes(o) # {} => o \in writeList \/ InHand(o)

(* What osc_next_obj may return. *)
Candidates ==
    hpList \cup readyList
    \cup (IF waiters # {} \/ ~valid THEN writeList ELSE {})
    \cup (IF ~valid THEN readList ELSE {})
Watched == \A o \in Candidates : WillCheck \/ Bringing(o)

IInv == TypeOK /\ Places /\ Owned /\ SlotsConserved /\ Listed /\ Queued /\ Watched

(* A window of pages is a number of pages. *)
LEMMA WindowPages == ASSUME NEW w \in 1 .. MaxRif PROVE w * MaxPages \in Nat
BY LimitsAssumption, SMT

(* What assignments to the fields of a request preserve. *)
LEMMA Restate ==
    ASSUME NEW x \in Requests, NEW s \in RpcStates
    PROVE  LET y == [x EXCEPT !.st = s] IN
           /\ y \in Requests /\ y.st = s
           /\ y.cmd = x.cmd /\ y.exts = x.exts /\ y.resends = x.resends
BY DEF Requests

(* Counting a resend changes nothing else of a request. *)
LEMMA Recount ==
    ASSUME NEW x \in Requests, NEW n \in Nat
    PROVE  LET y == [x EXCEPT !.resends = n] IN
           y \in Requests /\ y.st = x.st /\ y.cmd = x.cmd /\ y.exts = x.exts
BY DEF Requests

(* A request that osc_brw_redo_request sends again keeps its command and   *)
(* extents.                                                                *)
LEMMA Resent ==
    ASSUME NEW x \in Requests
    PROVE  LET y == [x EXCEPT !.st = "wire", !.resends = @ + 1] IN
           y \in Requests /\ y.st = "wire" /\ y.cmd = x.cmd /\ y.exts = x.exts
<1> DEFINE z == [x EXCEPT !.st = "wire"]
<1>1. /\ z \in Requests /\ z.st = "wire"
      /\ z.cmd = x.cmd /\ z.exts = x.exts /\ z.resends = x.resends
  BY Restate DEF RpcStates
<1>2. [x EXCEPT !.st = "wire", !.resends = @ + 1] = [z EXCEPT !.resends = z.resends + 1]
  OBVIOUS
<1>3. z.resends + 1 \in Nat
  BY <1>1 DEF Requests
<1> HIDE DEF z
<1> QED
  BY <1>1, <1>2, <1>3, Recount

(* What brw_interpret does to a counter keeps the counters integers. *)
LEMMA CountDown ==
    ASSUME NEW f \in [Cmds -> Int], NEW k
    PROVE  [f EXCEPT ![k] = @ - 1] \in [Cmds -> Int]
<1>1. \A c \in Cmds : f[c] - 1 \in Int
  OBVIOUS
<1> QED
  BY <1>1

(* A request that was never built is well typed. *)
LEMMA Fresh == FreeRpc \in Requests
BY DEF FreeRpc, Requests, RpcStates, Cmds

(* __osc_list_maint lists only objects with extents on their queues. *)
LEMMA ListMaintType ==
    ASSUME TypeOK, NEW o, ListMaint(o)
    PROVE  /\ hpList' \subseteq Objs /\ readyList' \subseteq Objs
           /\ writeList' \subseteq Objs /\ readList' \subseteq Objs
<1>1. HasHp(o) \/ MakesWrite(o) \/ MakesRead(o) \/ Writes(o) # {} \/ Reads(o) # {} => o \in Objs
  BY WorkAssumption DEF HasHp, MakesWrite, MakesRead, Writes, Reads
<1> QED
  BY <1>1 DEF TypeOK, ListMaint, OnList, MakesRead

(* osc_wake_cache_waiters reserves extents of waiters, and leaves none     *)
(* waiting.                                                                *)
LEMMA WakeWaitersType ==
    ASSUME TypeOK, NEW D \in SUBSET Exts, WakeWaiters(D)
    PROVE  dirty' \subseteq Exts /\ waiters' = {}
<1>1. PICK G \in SUBSET waiters : dirty' = D \cup UNION {hold[a] : a \in G}
  BY DEF WakeWaiters
<1>2. \A a \in G : hold[a] \subseteq Exts
  BY DEF TypeOK, Threads
<1> QED
  BY <1>1, <1>2 DEF WakeWaiters

(* osc_extent_finish keeps the types of what it changes. *)
LEMMA FinishExtentsType ==
    ASSUME TypeOK, NEW F, FinishExtents(F)
    PROVE  /\ est' \in [Exts -> ExtStates] /\ dirty' \subseteq Exts
           /\ waiters' \subseteq Apps
<1>1. est' \in [Exts -> ExtStates]
  BY DEF TypeOK, FinishExtents, ExtStates
<1>2. CASE UNCHANGED <<dirty, waiters>>
  BY <1>1, <1>2 DEF TypeOK
<1>3. CASE WakeWaiters(dirty \ (F \ sync))
  BY <1>1, <1>3, WakeWaitersType DEF TypeOK
<1> QED
  BY <1>2, <1>3 DEF FinishExtents

(* The request that is sent again is changed in two fields.                *)
LEMMA SentAgain ==
    ASSUME TypeOK, NEW p, Redo(p)
    PROVE  rpc' = [rpc EXCEPT ![req[p]] = [rpc[req[p]] EXCEPT !.st = "wire", !.resends = @ + 1]]
<1>1. rpc \in [Exts -> Requests]
  BY DEF TypeOK
<1>2. rpc' = [rpc EXCEPT ![req[p]].st = "wire", ![req[p]].resends = @ + 1]
  BY Zenon DEF Redo
<1> QED
  BY <1>1, <1>2

(* Every step keeps the types, action by action. *)
LEMMA TypeStep == TypeOK /\ [Next]_vars => TypeOK'
<1> SUFFICES ASSUME TypeOK, [Next]_vars PROVE TypeOK'
    OBVIOUS
<1> USE ThreadsAssumption, WorkAssumption
    DEF Threads, AppPlaces, CheckPlaces, ReplyPlaces, ExtStates, Cmds, Goto,
        cacheVars, listVars, workVars, localVars
<1>1. ASSUME NEW a \in Apps, NEW e \in Exts, EnterCache(a, e) PROVE TypeOK'
  BY <1>1 DEF TypeOK, EnterCache, EnterLoop, ForceSync, Reserve
<1>2. ASSUME NEW a \in Apps, NEW e \in Exts, SubmitSync(a, e) PROVE TypeOK'
  BY <1>2 DEF TypeOK, SubmitSync, QueueSync
<1>3. ASSUME NEW a \in Apps, NEW e \in Exts, FlushPage(a, e) PROVE TypeOK'
  BY <1>3 DEF TypeOK, FlushPage
<1>4. ASSUME NEW a \in Apps, NEW e \in Exts, WritebackRange(a, e) PROVE TypeOK'
  BY <1>4 DEF TypeOK, WritebackRange
<1>5. ASSUME NEW a \in Apps, NEW e \in Exts, DiscardRange(a, e) PROVE TypeOK'
  BY <1>5 DEF TypeOK, DiscardRange
<1>6. ASSUME NEW a \in Apps, Invalidate(a) PROVE TypeOK'
  BY <1>6 DEF TypeOK, Invalidate
<1>7. ASSUME NEW a \in Apps, PlugForSpace(a) PROVE TypeOK'
  BY <1>7 DEF TypeOK, PlugForSpace
<1>8. ASSUME NEW a \in Apps, Resume(a) PROVE TypeOK'
  <2>1. dirty' \subseteq Exts /\ waiters' \subseteq Apps
    BY <1>8 DEF TypeOK, Resume, EnterLoop, Reserve
  <2>2. \E place \in {"granted", "plug", "sync"} : pc' = [pc EXCEPT ![a] = place]
    BY <1>8 DEF Resume, EnterLoop, Reserve
  <2>3. UNCHANGED <<est, sync, dirtyMax, listVars, window, inFlight, rpc, valid, workVars, localVars>>
    BY <1>8 DEF Resume
  <2> QED
    BY <2>1, <2>2, <2>3 DEF TypeOK
<1>9. ASSUME NEW a \in Apps, GiveUp(a) PROVE TypeOK'
  BY <1>9 DEF TypeOK, GiveUp
<1>9a. ASSUME NEW a \in Apps, Interrupted(a) PROVE TypeOK'
  BY <1>9a DEF TypeOK, Interrupted
<1>10. ASSUME NEW a \in Apps, ReleaseExtent(a) PROVE TypeOK'
  BY <1>10 DEF TypeOK, ReleaseExtent
<1>11. ASSUME NEW a \in Apps, ExitCache(a) PROVE TypeOK'
  BY <1>11 DEF TypeOK, ExitCache
<1>12. ASSUME NEW a \in Apps, UnreserveGrant(a) PROVE TypeOK'
  BY <1>12, WakeWaitersType DEF TypeOK, UnreserveGrant
<1>13. ASSUME NEW a \in Apps, FallBackToSync(a) PROVE TypeOK'
  BY <1>13 DEF TypeOK, FallBackToSync, QueueSync
<1>14. ASSUME NEW a \in Apps, PlugMaint(a) PROVE TypeOK'
  BY <1>14, ListMaintType DEF TypeOK, PlugMaint
<1>15. ASSUME NEW a \in Apps, QueueWork(a) PROVE TypeOK'
  BY <1>15 DEF TypeOK, QueueWork
<1>16. ASSUME NEW a \in Apps, DiscardMaint(a) PROVE TypeOK'
  BY <1>16, ListMaintType DEF TypeOK, DiscardMaint
<1>17. ASSUME NEW a \in Apps, DiscardFinish(a) PROVE TypeOK'
  BY <1>17, FinishExtentsType DEF TypeOK, DiscardFinish
<1>18. ASSUME NEW a \in Apps, WaitTimesOut(a) PROVE TypeOK'
  BY <1>18 DEF TypeOK, WaitTimesOut
<1>19. ASSUME NEW p \in Ptlrpcds, RunWork(p) PROVE TypeOK'
  BY <1>19 DEF TypeOK, RunWork
<1>20. ASSUME NEW p \in Ptlrpcds, NEW r \in Exts, Interpret(p, r) PROVE TypeOK'
  BY <1>20, Restate DEF TypeOK, Interpret, RpcStates
<1>21. ASSUME NEW p \in Ptlrpcds, Adjust(p) PROVE TypeOK'
  BY <1>21, WindowPages DEF TypeOK, Adjust, SetWindow
<1>22. ASSUME NEW p \in Ptlrpcds, Redo(p) PROVE TypeOK'
  <2>1. rpc' = [rpc EXCEPT ![req[p]] = [rpc[req[p]] EXCEPT !.st = "wire", !.resends = @ + 1]]
    BY <1>22, SentAgain
  <2>2. \A r \in Exts : [rpc[r] EXCEPT !.st = "wire", !.resends = @ + 1] \in Requests
    BY Resent DEF TypeOK
  <2>3. rpc' \in [Exts -> Requests]
    BY <2>1, <2>2 DEF TypeOK
  <2> QED
    BY <1>22, <2>3 DEF TypeOK, Redo
<1>23. ASSUME NEW p \in Ptlrpcds, FinishRpc(p) PROVE TypeOK'
  BY <1>23, FinishExtentsType DEF TypeOK, FinishRpc
<1>24. ASSUME NEW p \in Ptlrpcds, ReleaseSlot(p) PROVE TypeOK'
  BY <1>24, WakeWaitersType, Fresh, CountDown DEF TypeOK, ReleaseSlot
<1>25. ASSUME NEW t \in Threads, CheckEmpty(t) PROVE TypeOK'
  BY <1>25 DEF TypeOK, CheckEmpty, CheckDone
<1>26. ASSUME NEW t \in Threads, CheckFull(t) PROVE TypeOK'
  BY <1>26, ListMaintType DEF TypeOK, CheckFull, CheckDone
<1>27. ASSUME NEW t \in Threads, CheckNext(t) PROVE TypeOK'
  BY <1>27 DEF TypeOK, CheckNext, TakeOff, NextObjs
<1>28. ASSUME NEW t \in Threads, SendWrite(t) PROVE TypeOK'
  BY <1>28 DEF TypeOK, SendWrite, Take, Skip, WriteBatches, Batches, Writes
<1>29. ASSUME NEW t \in Threads, SendRead(t) PROVE TypeOK'
  BY <1>29 DEF TypeOK, SendRead, Take, Skip, Batches, Reads, MakesRead
<1>30. ASSUME NEW t \in Threads, NEW e \in Exts, MakeReadyFails(t, e) PROVE TypeOK'
  BY <1>30, FinishExtentsType DEF TypeOK, MakeReadyFails
<1>31. ASSUME NEW t \in Threads, BuildFails(t) PROVE TypeOK'
  BY <1>31, FinishExtentsType DEF TypeOK, BuildFails, AfterBuild
<1>32. ASSUME NEW t \in Threads, BuildRpc(t) PROVE TypeOK'
  BY <1>32 DEF TypeOK, BuildRpc, Requests, RpcStates
<1>33. ASSUME NEW t \in Threads, AddReq(t) PROVE TypeOK'
  BY <1>33, Restate DEF TypeOK, AddReq, RpcStates
<1>34. ASSUME NEW t \in Threads, Relist(t) PROVE TypeOK'
  BY <1>34, ListMaintType DEF TypeOK, Relist
<1>35. CASE Reconnect
  BY <1>35 DEF TypeOK, Reconnect
<1>36. CASE WriteMaxRpcs
  BY <1>36, WindowPages DEF TypeOK, WriteMaxRpcs, SetWindow
<1>37. CASE UNCHANGED vars
  BY <1>37 DEF TypeOK, vars
<1> QED
  BY <1>1, <1>2, <1>3, <1>4, <1>5, <1>6, <1>7, <1>8, <1>9, <1>9a, <1>10, <1>11, <1>12, <1>13,
     <1>14, <1>15, <1>16, <1>17, <1>18, <1>19, <1>20, <1>21, <1>22, <1>23, <1>24, <1>25,
     <1>26, <1>27, <1>28, <1>29, <1>30, <1>31, <1>32, <1>33, <1>34, <1>35, <1>36, <1>37
  DEF Next, AppBegin, AppStep, Serve, ReplyStep, CheckStep

(* The types hold in the initial states. *)
LEMMA InitTypes == Init => TypeOK
<1> SUFFICES ASSUME Init PROVE TypeOK
  OBVIOUS
<1>1. /\ est \in [Exts -> ExtStates] /\ rpc \in [Exts -> Requests]
      /\ inFlight \in [Cmds -> Int]
  BY Fresh DEF Init, ExtStates
<1>2. window \in 1 .. MaxRif /\ dirtyMax \in Nat
  BY LimitsAssumption DEF Init
<1>3. /\ pc \in [Threads -> {"idle"} \cup AppPlaces \cup CheckPlaces \cup ReplyPlaces]
      /\ obj \in [Threads -> Objs \cup {None}]
      /\ hold \in [Threads -> SUBSET Exts]
      /\ req \in [Threads -> Exts \cup {None}]
  BY DEF Init
<1> QED
  BY <1>1, <1>2, <1>3 DEF Init, TypeOK

(* Every variable has its type. *)
THEOREM TypeCorrect == Spec => []TypeOK
BY InitTypes, TypeStep, PTL DEF Spec

----------------------------------------------------------------------------
(* Threads stay at the places of their kind, and where a thread handles an *)
(* object it has one.                                                      *)
LEMMA PlacesStep == TypeOK /\ Places /\ [Next]_vars => Places'
<1> SUFFICES ASSUME TypeOK, Places, [Next]_vars PROVE Places'
  OBVIOUS
<1> USE ThreadsAssumption, WorkAssumption
    DEF Threads, AppPlaces, CheckPlaces, ReplyPlaces, Goto, workVars, localVars
<1>1. ASSUME NEW a \in Apps, NEW e \in Exts, EnterCache(a, e) PROVE Places'
  BY <1>1 DEF TypeOK, Places, EnterCache, EnterLoop, ForceSync, Reserve
<1>2. ASSUME NEW a \in Apps, NEW e \in Exts, SubmitSync(a, e) PROVE Places'
  BY <1>2 DEF TypeOK, Places, SubmitSync, QueueSync
<1>3. ASSUME NEW a \in Apps, NEW e \in Exts, FlushPage(a, e) PROVE Places'
  BY <1>3 DEF TypeOK, Places, FlushPage
<1>4. ASSUME NEW a \in Apps, NEW e \in Exts, WritebackRange(a, e) PROVE Places'
  BY <1>4 DEF TypeOK, Places, WritebackRange
<1>5. ASSUME NEW a \in Apps, NEW e \in Exts, DiscardRange(a, e) PROVE Places'
  BY <1>5 DEF TypeOK, Places, DiscardRange
<1>6. ASSUME NEW a \in Apps, Invalidate(a) PROVE Places'
  BY <1>6 DEF TypeOK, Places, Invalidate
<1>7. ASSUME NEW a \in Apps, PlugForSpace(a) PROVE Places'
  BY <1>7 DEF TypeOK, Places, PlugForSpace
<1>8. ASSUME NEW a \in Apps, Resume(a) PROVE Places'
  <2>1. PICK place \in {"granted", "plug", "sync"} : pc' = [pc EXCEPT ![a] = place]
    BY <1>8 DEF Resume, EnterLoop, Reserve
  <2>2. pc[a] = "wait" /\ obj' = obj /\ hold' = hold
    BY <1>8 DEF Resume
  <2> QED
    BY <2>1, <2>2 DEF TypeOK, Places
<1>9. ASSUME NEW a \in Apps, GiveUp(a) PROVE Places'
  BY <1>9 DEF TypeOK, Places, GiveUp
<1>9a. ASSUME NEW a \in Apps, Interrupted(a) PROVE Places'
  BY <1>9a DEF TypeOK, Places, Interrupted
<1>10. ASSUME NEW a \in Apps, ReleaseExtent(a) PROVE Places'
  BY <1>10 DEF TypeOK, Places, ReleaseExtent
<1>11. ASSUME NEW a \in Apps, ExitCache(a) PROVE Places'
  BY <1>11 DEF TypeOK, Places, ExitCache
<1>12. ASSUME NEW a \in Apps, UnreserveGrant(a) PROVE Places'
  BY <1>12 DEF TypeOK, Places, UnreserveGrant
<1>13. ASSUME NEW a \in Apps, FallBackToSync(a) PROVE Places'
  BY <1>13 DEF TypeOK, Places, FallBackToSync, QueueSync
<1>14. ASSUME NEW a \in Apps, PlugMaint(a) PROVE Places'
  BY <1>14 DEF TypeOK, Places, PlugMaint
<1>15. ASSUME NEW a \in Apps, QueueWork(a) PROVE Places'
  BY <1>15 DEF TypeOK, Places, QueueWork
<1>16. ASSUME NEW a \in Apps, DiscardMaint(a) PROVE Places'
  BY <1>16 DEF TypeOK, Places, DiscardMaint
<1>17. ASSUME NEW a \in Apps, DiscardFinish(a) PROVE Places'
  BY <1>17 DEF TypeOK, Places, DiscardFinish
<1>18. ASSUME NEW a \in Apps, WaitTimesOut(a) PROVE Places'
  BY <1>18 DEF TypeOK, Places, WaitTimesOut
<1>19. ASSUME NEW p \in Ptlrpcds, RunWork(p) PROVE Places'
  BY <1>19 DEF TypeOK, Places, RunWork
<1>20. ASSUME NEW p \in Ptlrpcds, NEW r \in Exts, Interpret(p, r) PROVE Places'
  BY <1>20 DEF TypeOK, Places, Interpret
<1>21. ASSUME NEW p \in Ptlrpcds, Adjust(p) PROVE Places'
  BY <1>21 DEF TypeOK, Places, Adjust
<1>22. ASSUME NEW p \in Ptlrpcds, Redo(p) PROVE Places'
  BY <1>22 DEF TypeOK, Places, Redo
<1>23. ASSUME NEW p \in Ptlrpcds, FinishRpc(p) PROVE Places'
  BY <1>23 DEF TypeOK, Places, FinishRpc
<1>24. ASSUME NEW p \in Ptlrpcds, ReleaseSlot(p) PROVE Places'
  BY <1>24 DEF TypeOK, Places, ReleaseSlot
<1>25. ASSUME NEW t \in Threads, CheckEmpty(t) PROVE Places'
  BY <1>25 DEF TypeOK, Places, CheckEmpty, CheckDone
<1>26. ASSUME NEW t \in Threads, CheckFull(t) PROVE Places'
  BY <1>26 DEF TypeOK, Places, CheckFull, CheckDone
<1>27. ASSUME NEW t \in Threads, CheckNext(t) PROVE Places'
  BY <1>27 DEF TypeOK, Places, CheckNext, NextObjs
<1>28. ASSUME NEW t \in Threads, SendWrite(t) PROVE Places'
  BY <1>28 DEF TypeOK, Places, SendWrite, Take, Skip
<1>29. ASSUME NEW t \in Threads, SendRead(t) PROVE Places'
  BY <1>29 DEF TypeOK, Places, SendRead, Take, Skip
<1>30. ASSUME NEW t \in Threads, NEW e \in Exts, MakeReadyFails(t, e) PROVE Places'
  BY <1>30 DEF TypeOK, Places, MakeReadyFails
<1>31. ASSUME NEW t \in Threads, BuildFails(t) PROVE Places'
  BY <1>31 DEF TypeOK, Places, BuildFails, AfterBuild
<1>32. ASSUME NEW t \in Threads, BuildRpc(t) PROVE Places'
  BY <1>32 DEF TypeOK, Places, BuildRpc
<1>33. ASSUME NEW t \in Threads, AddReq(t) PROVE Places'
  BY <1>33 DEF TypeOK, Places, AddReq
<1>34. ASSUME NEW t \in Threads, Relist(t) PROVE Places'
  BY <1>34 DEF TypeOK, Places, Relist
<1>35. CASE Reconnect
  BY <1>35 DEF Places, Reconnect
<1>36. CASE WriteMaxRpcs
  BY <1>36 DEF Places, WriteMaxRpcs
<1>37. CASE UNCHANGED vars
  BY <1>37 DEF Places, vars
<1> QED
  BY <1>1, <1>2, <1>3, <1>4, <1>5, <1>6, <1>7, <1>8, <1>9, <1>9a, <1>10, <1>11, <1>12, <1>13,
     <1>14, <1>15, <1>16, <1>17, <1>18, <1>19, <1>20, <1>21, <1>22, <1>23, <1>24, <1>25,
     <1>26, <1>27, <1>28, <1>29, <1>30, <1>31, <1>32, <1>33, <1>34, <1>35, <1>36, <1>37
  DEF Next, AppBegin, AppStep, Serve, ReplyStep, CheckStep

----------------------------------------------------------------------------
(* Steps that neither move a request nor take one in hand or let go of it. *)
HandPlaces == AddPlaces \cup ReplyPlaces
Quiet ==
    /\ UNCHANGED <<rpc, req, inFlight>>
    /\ \A t \in Threads : /\ pc'[t] \in AddPlaces <=> pc[t] \in AddPlaces
                          /\ pc'[t] \in ReplyPlaces <=> pc[t] \in ReplyPlaces

(* A step that touches neither requests nor their holders keeps the slots. *)
LEMMA QuietOwned ==
    ASSUME Owned, SlotsConserved, Quiet
    PROVE  Owned' /\ SlotsConserved'
<1>1. Owned'
  BY DEF Owned, Quiet
<1>2. \A c \in Cmds : LiveRpcs(c)' = LiveRpcs(c)
  BY DEF Quiet, LiveRpcs
<1> QED
  BY <1>1, <1>2 DEF Quiet, SlotsConserved

Requesting ==
    \/ \E t \in Threads : BuildRpc(t) \/ AddReq(t)
    \/ \E p \in Ptlrpcds : Redo(p) \/ ReleaseSlot(p) \/ \E r \in Exts : Interpret(p, r)

(* Only building, sending, answering, resending and finishing touch        *)
(* requests.                                                               *)
LEMMA OtherStepsQuiet == TypeOK /\ [Next]_vars => Quiet \/ Requesting
<1> SUFFICES ASSUME TypeOK, [Next]_vars, ~Requesting PROVE Quiet
  OBVIOUS
<1> USE DEF Threads, AddPlaces, ReplyPlaces, Goto, localVars
<1>1. ASSUME NEW a \in Apps, NEW e \in Exts, EnterCache(a, e) PROVE Quiet
  BY <1>1 DEF TypeOK, Quiet, EnterCache, EnterLoop, ForceSync, Reserve
<1>2. ASSUME NEW a \in Apps, NEW e \in Exts, SubmitSync(a, e) PROVE Quiet
  BY <1>2 DEF TypeOK, Quiet, SubmitSync, QueueSync
<1>3. ASSUME NEW a \in Apps, NEW e \in Exts, FlushPage(a, e) PROVE Quiet
  BY <1>3 DEF TypeOK, Quiet, FlushPage
<1>4. ASSUME NEW a \in Apps, NEW e \in Exts, WritebackRange(a, e) PROVE Quiet
  BY <1>4 DEF TypeOK, Quiet, WritebackRange
<1>5. ASSUME NEW a \in Apps, NEW e \in Exts, DiscardRange(a, e) PROVE Quiet
  BY <1>5 DEF TypeOK, Quiet, DiscardRange
<1>6. ASSUME NEW a \in Apps, Invalidate(a) PROVE Quiet
  BY <1>6 DEF TypeOK, Quiet, Invalidate
<1>7. ASSUME NEW a \in Apps, PlugForSpace(a) PROVE Quiet
  BY <1>7 DEF TypeOK, Quiet, PlugForSpace
<1>8. ASSUME NEW a \in Apps, Resume(a) PROVE Quiet
  BY <1>8 DEF TypeOK, Quiet, Resume, EnterLoop, Reserve
<1>9. ASSUME NEW a \in Apps, GiveUp(a) PROVE Quiet
  BY <1>9 DEF TypeOK, Quiet, GiveUp
<1>9a. ASSUME NEW a \in Apps, Interrupted(a) PROVE Quiet
  BY <1>9a DEF TypeOK, Quiet, Interrupted
<1>10. ASSUME NEW a \in Apps, ReleaseExtent(a) PROVE Quiet
  BY <1>10 DEF TypeOK, Quiet, ReleaseExtent
<1>11. ASSUME NEW a \in Apps, ExitCache(a) PROVE Quiet
  BY <1>11 DEF TypeOK, Quiet, ExitCache
<1>12. ASSUME NEW a \in Apps, UnreserveGrant(a) PROVE Quiet
  BY <1>12 DEF TypeOK, Quiet, UnreserveGrant
<1>13. ASSUME NEW a \in Apps, FallBackToSync(a) PROVE Quiet
  BY <1>13 DEF TypeOK, Quiet, FallBackToSync, QueueSync
<1>14. ASSUME NEW a \in Apps, PlugMaint(a) PROVE Quiet
  BY <1>14 DEF TypeOK, Quiet, PlugMaint
<1>15. ASSUME NEW a \in Apps, QueueWork(a) PROVE Quiet
  BY <1>15 DEF TypeOK, Quiet, QueueWork
<1>16. ASSUME NEW a \in Apps, DiscardMaint(a) PROVE Quiet
  BY <1>16 DEF TypeOK, Quiet, DiscardMaint
<1>17. ASSUME NEW a \in Apps, DiscardFinish(a) PROVE Quiet
  BY <1>17 DEF TypeOK, Quiet, DiscardFinish
<1>18. ASSUME NEW a \in Apps, WaitTimesOut(a) PROVE Quiet
  BY <1>18 DEF TypeOK, Quiet, WaitTimesOut
<1>19. ASSUME NEW p \in Ptlrpcds, RunWork(p) PROVE Quiet
  BY <1>19 DEF TypeOK, Quiet, RunWork
<1>20. ASSUME NEW p \in Ptlrpcds, Adjust(p) PROVE Quiet
  BY <1>20 DEF TypeOK, Quiet, Adjust
<1>21. ASSUME NEW p \in Ptlrpcds, FinishRpc(p) PROVE Quiet
  BY <1>21 DEF TypeOK, Quiet, FinishRpc
<1>22. ASSUME NEW t \in Threads, CheckEmpty(t) PROVE Quiet
  BY <1>22 DEF TypeOK, Quiet, CheckEmpty, CheckDone
<1>23. ASSUME NEW t \in Threads, CheckFull(t) PROVE Quiet
  BY <1>23 DEF TypeOK, Quiet, CheckFull, CheckDone
<1>24. ASSUME NEW t \in Threads, CheckNext(t) PROVE Quiet
  BY <1>24 DEF TypeOK, Quiet, CheckNext, NextObjs
<1>25. ASSUME NEW t \in Threads, SendWrite(t) PROVE Quiet
  BY <1>25 DEF TypeOK, Quiet, SendWrite, Take, Skip
<1>26. ASSUME NEW t \in Threads, SendRead(t) PROVE Quiet
  BY <1>26 DEF TypeOK, Quiet, SendRead, Take, Skip
<1>27. ASSUME NEW t \in Threads, NEW e \in Exts, MakeReadyFails(t, e) PROVE Quiet
  BY <1>27 DEF TypeOK, Quiet, MakeReadyFails
<1>28. ASSUME NEW t \in Threads, BuildFails(t) PROVE Quiet
  BY <1>28 DEF TypeOK, Quiet, BuildFails, AfterBuild
<1>29. ASSUME NEW t \in Threads, Relist(t) PROVE Quiet
  BY <1>29 DEF TypeOK, Quiet, Relist
<1>30. CASE Reconnect
  BY <1>30 DEF Quiet, Reconnect
<1>31. CASE WriteMaxRpcs
  BY <1>31 DEF Quiet, WriteMaxRpcs
<1>32. CASE UNCHANGED vars
  BY <1>32 DEF Quiet, vars
<1> QED
  BY <1>1, <1>2, <1>3, <1>4, <1>5, <1>6, <1>7, <1>8, <1>9, <1>9a, <1>10, <1>11, <1>12, <1>13,
     <1>14, <1>15, <1>16, <1>17, <1>18, <1>19, <1>20, <1>21, <1>22, <1>23, <1>24, <1>25,
     <1>26, <1>27, <1>28, <1>29, <1>30, <1>31, <1>32
  DEF Next, AppBegin, AppStep, Serve, ReplyStep, CheckStep, Requesting

(* A thread takes up a request nobody has, or lets go of the one it has. *)
LEMMA TakeUp ==
    ASSUME TypeOK, Owned, NEW t \in Threads, pc[t] \notin HandPlaces,
           NEW r \in Exts, rpc[r].st \in {"free", "wire"},
           NEW place \in HandPlaces, pc' = [pc EXCEPT ![t] = place],
           req' = [req EXCEPT ![t] = r],
           rpc'[r].st = IF place \in AddPlaces THEN "built" ELSE "reply",
           \A s \in Exts \ {r} : rpc'[s] = rpc[s]
    PROVE  Owned'
<1> USE DEF TypeOK, AddPlaces, ReplyPlaces, HandPlaces
<1>1. \A u \in Threads : pc[u] \in HandPlaces => req[u] # r
  BY DEF Owned
<1>2. \A u \in Threads \ {t} : pc'[u] = pc[u] /\ req'[u] = req[u]
  OBVIOUS
<1>3. pc'[t] = place /\ req'[t] = r
  OBVIOUS
<1>4. \A u \in Threads : /\ pc'[u] \in AddPlaces => req'[u] \in Exts /\ rpc'[req'[u]].st = "built"
                         /\ pc'[u] \in ReplyPlaces => req'[u] \in Exts /\ rpc'[req'[u]].st = "reply"
  BY <1>1, <1>2, <1>3 DEF Owned
<1>5. \A u, v \in Threads : u # v /\ pc'[u] \in HandPlaces /\ pc'[v] \in HandPlaces
                            => req'[u] # req'[v]
  BY <1>1, <1>2, <1>3 DEF Owned
<1>6. \A s \in Exts :
          /\ rpc'[s].st = "built" => \E u \in Threads : pc'[u] \in AddPlaces /\ req'[u] = s
          /\ rpc'[s].st = "reply" => \E u \in Threads : pc'[u] \in ReplyPlaces /\ req'[u] = s
  BY <1>2, <1>3 DEF Owned
<1> QED
  BY <1>4, <1>5, <1>6 DEF Owned

(* The thread that lets go of its request leaves it free or on the wire. *)
LEMMA LetGo ==
    ASSUME TypeOK, Owned, NEW t \in Threads, pc[t] \in HandPlaces,
           NEW place, place \notin HandPlaces, pc' = [pc EXCEPT ![t] = place],
           req' = [req EXCEPT ![t] = None],
           rpc'[req[t]].st \in {"free", "wire"},
           \A s \in Exts \ {req[t]} : rpc'[s] = rpc[s]
    PROVE  Owned'
<1> USE DEF TypeOK, AddPlaces, ReplyPlaces, HandPlaces
<1>1. \A u \in Threads \ {t} : pc[u] \in HandPlaces => req[u] # req[t]
  BY DEF Owned
<1>2. \A u \in Threads \ {t} : pc'[u] = pc[u] /\ req'[u] = req[u]
  OBVIOUS
<1>3. pc'[t] \notin HandPlaces
  OBVIOUS
<1>4. \A u \in Threads : /\ pc'[u] \in AddPlaces => req'[u] \in Exts /\ rpc'[req'[u]].st = "built"
                         /\ pc'[u] \in ReplyPlaces => req'[u] \in Exts /\ rpc'[req'[u]].st = "reply"
  BY <1>1, <1>2, <1>3 DEF Owned
<1>5. \A u, v \in Threads : u # v /\ pc'[u] \in HandPlaces /\ pc'[v] \in HandPlaces
                            => req'[u] # req'[v]
  BY <1>2, <1>3 DEF Owned
<1>6. \A s \in Exts :
          /\ rpc'[s].st = "built" => \E u \in Threads : pc'[u] \in AddPlaces /\ req'[u] = s
          /\ rpc'[s].st = "reply" => \E u \in Threads : pc'[u] \in ReplyPlaces /\ req'[u] = s
  BY <1>2, <1>3 DEF Owned
<1> QED
  BY <1>4, <1>5, <1>6 DEF Owned

(* The counters after a request keeps, gains or gives back its slot. *)
LEMMA LiveFinite == ASSUME NEW c PROVE IsFiniteSet(LiveRpcs(c)) /\ Cardinality(LiveRpcs(c)) \in Nat
<1>1. LiveRpcs(c) \subseteq Exts
  BY DEF LiveRpcs
<1> QED
  BY <1>1, WorkAssumption, FS_Subset, FS_CardinalityType

(* A step that makes no request live or free keeps the count of slots. *)
LEMMA SlotKept ==
    ASSUME SlotsConserved, inFlight' = inFlight,
           \A r \in Exts : /\ rpc'[r].st = "free" <=> rpc[r].st = "free"
                           /\ rpc'[r].cmd = rpc[r].cmd
    PROVE  SlotsConserved'
<1>1. \A c \in Cmds : LiveRpcs(c)' = LiveRpcs(c)
  BY DEF LiveRpcs
<1> QED
  BY <1>1 DEF SlotsConserved

(* A request that becomes live (osc_build_rpc) is counted once. *)
LEMMA SlotTaken ==
    ASSUME TypeOK, SlotsConserved, NEW r \in Exts, rpc[r].st = "free", rpc'[r].st # "free",
           NEW cmd \in Cmds, rpc'[r].cmd = cmd,
           \A s \in Exts \ {r} : rpc'[s] = rpc[s],
           inFlight' = [inFlight EXCEPT ![cmd] = @ + 1]
    PROVE  SlotsConserved'
<1>1. \A c \in Cmds : LiveRpcs(c)' = IF c = cmd THEN LiveRpcs(c) \cup {r} ELSE LiveRpcs(c)
  BY DEF LiveRpcs
<1>2. r \notin LiveRpcs(cmd)
  BY DEF LiveRpcs
<1>3. Cardinality(LiveRpcs(cmd) \cup {r}) = Cardinality(LiveRpcs(cmd)) + 1
  BY <1>2, LiveFinite, FS_AddElement
<1> QED
  BY <1>1, <1>3 DEF SlotsConserved, TypeOK

(* A request that becomes free (brw_interpret, a failed build) is          *)
(* discounted once.                                                        *)
LEMMA SlotGivenBack ==
    ASSUME TypeOK, SlotsConserved, NEW r \in Exts, rpc[r].st # "free", rpc'[r].st = "free",
           \A s \in Exts \ {r} : rpc'[s] = rpc[s],
           inFlight' = [inFlight EXCEPT ![rpc[r].cmd] = @ - 1]
    PROVE  SlotsConserved'
<1> DEFINE cmd == rpc[r].cmd
<1>1. cmd \in Cmds
  BY DEF TypeOK, Requests
<1>2. \A c \in Cmds : LiveRpcs(c)' = IF c = cmd THEN LiveRpcs(c) \ {r} ELSE LiveRpcs(c)
  BY DEF LiveRpcs
<1>3. r \in LiveRpcs(cmd)
  BY DEF LiveRpcs
<1>4. Cardinality(LiveRpcs(cmd) \ {r}) = Cardinality(LiveRpcs(cmd)) - 1
  BY <1>3, LiveFinite, FS_RemoveElement
<1> QED
  BY <1>1, <1>2, <1>4 DEF SlotsConserved, TypeOK

(* Every step keeps the owners of requests and the count of slots. *)
LEMMA SlotsStep ==
    TypeOK /\ Owned /\ SlotsConserved /\ [Next]_vars => Owned' /\ SlotsConserved'
<1> SUFFICES ASSUME TypeOK, Owned, SlotsConserved, [Next]_vars
             PROVE  Owned' /\ SlotsConserved'
  OBVIOUS
<1> USE DEF Threads, Goto
<1>1. ASSUME NEW t \in Threads, BuildRpc(t) PROVE Owned' /\ SlotsConserved'
  <2> DEFINE cmd == IF pc[t] = "build_write" THEN "write" ELSE "read"
             place == IF pc[t] = "build_write" THEN "add_write" ELSE "add_read"
  <2>1. PICK r \in hold[t] :
            /\ rpc[r].st = "free"
            /\ rpc' = [rpc EXCEPT ![r] = [st |-> "built", cmd |-> cmd,
                                          exts |-> hold[t], resends |-> 0]]
            /\ req' = [req EXCEPT ![t] = r]
    BY <1>1 DEF BuildRpc
  <2>2. /\ r \in Exts /\ rpc'[r].st = "built" /\ rpc'[r].cmd = cmd
        /\ \A s \in Exts \ {r} : rpc'[s] = rpc[s]
    BY <2>1 DEF TypeOK
  <2>3. /\ pc[t] \notin HandPlaces /\ place \in AddPlaces /\ place \in HandPlaces /\ cmd \in Cmds
        /\ pc' = [pc EXCEPT ![t] = place] /\ inFlight' = [inFlight EXCEPT ![cmd] = @ + 1]
    BY <1>1 DEF BuildRpc, HandPlaces, AddPlaces, ReplyPlaces, Cmds
  <2> HIDE DEF cmd, place
  <2>4. Owned'
    BY <2>1, <2>2, <2>3, TakeUp
  <2>5. SlotsConserved'
    BY <2>1, <2>2, <2>3, SlotTaken
  <2> QED
    BY <2>4, <2>5
<1>2. ASSUME NEW p \in Ptlrpcds, NEW r \in Exts, Interpret(p, r)
      PROVE  Owned' /\ SlotsConserved'
  <2>1. /\ rpc'[r].st = "reply" /\ rpc'[r].cmd = rpc[r].cmd
        /\ \A s \in Exts \ {r} : rpc'[s] = rpc[s]
    BY <1>2, Restate DEF Interpret, TypeOK, RpcStates
  <2>2. /\ pc[p] \notin HandPlaces /\ "adjust" \in HandPlaces /\ "adjust" \notin AddPlaces
        /\ pc' = [pc EXCEPT ![p] = "adjust"] /\ req' = [req EXCEPT ![p] = r]
        /\ rpc[r].st = "wire" /\ inFlight' = inFlight
    BY <1>2 DEF Interpret, HandPlaces, AddPlaces, ReplyPlaces
  <2>3. Owned'
    BY <2>1, <2>2, TakeUp
  <2>4. SlotsConserved'
    BY <2>1, <2>2, SlotKept
  <2> QED
    BY <2>3, <2>4
<1>3. ASSUME NEW t \in Threads, AddReq(t) PROVE Owned' /\ SlotsConserved'
  <2> DEFINE place == IF pc[t] = "add_write" THEN "send_read" ELSE "relist"
  <2>1. req[t] \in Exts /\ rpc[req[t]].st = "built"
    BY <1>3 DEF AddReq, Owned, AddPlaces
  <2>2. /\ rpc'[req[t]].st = "wire" /\ rpc'[req[t]].cmd = rpc[req[t]].cmd
        /\ \A s \in Exts \ {req[t]} : rpc'[s] = rpc[s]
    BY <1>3, <2>1, Restate DEF AddReq, TypeOK, RpcStates
  <2>3. /\ pc[t] \in HandPlaces /\ place \notin HandPlaces /\ inFlight' = inFlight
        /\ pc' = [pc EXCEPT ![t] = place] /\ req' = [req EXCEPT ![t] = None]
    BY <1>3 DEF AddReq, HandPlaces, AddPlaces, ReplyPlaces
  <2> HIDE DEF place
  <2>4. Owned'
    BY <2>2, <2>3, LetGo
  <2>5. SlotsConserved'
    BY <2>1, <2>2, <2>3, SlotKept
  <2> QED
    BY <2>4, <2>5
<1>4. ASSUME NEW p \in Ptlrpcds, Redo(p) PROVE Owned' /\ SlotsConserved'
  <2>1. req[p] \in Exts /\ rpc[req[p]].st = "reply"
    BY <1>4 DEF Redo, Owned, ReplyPlaces
  <2>2. /\ rpc'[req[p]] = [rpc[req[p]] EXCEPT !.st = "wire", !.resends = @ + 1]
        /\ \A s \in Exts \ {req[p]} : rpc'[s] = rpc[s]
    <3>1. rpc' = [rpc EXCEPT ![req[p]] = [rpc[req[p]] EXCEPT !.st = "wire", !.resends = @ + 1]]
      BY <1>4, SentAgain
    <3>2. rpc \in [Exts -> Requests]
      BY DEF TypeOK
    <3> QED
      BY <2>1, <3>1, <3>2
  <2>3. rpc'[req[p]].st = "wire" /\ rpc'[req[p]].cmd = rpc[req[p]].cmd
    <3>1. PICK q \in Requests : q = rpc[req[p]]
      BY <2>1 DEF TypeOK
    <3>2. rpc'[req[p]] = [q EXCEPT !.st = "wire", !.resends = @ + 1]
      BY <2>2, <3>1
    <3> QED
      BY <3>1, <3>2 DEF Requests
  <2>4. /\ pc[p] \in HandPlaces /\ "idle" \notin HandPlaces /\ inFlight' = inFlight
        /\ pc' = [pc EXCEPT ![p] = "idle"] /\ req' = [req EXCEPT ![p] = None]
    BY <1>4 DEF Redo, HandPlaces, AddPlaces, ReplyPlaces
  <2>5. Owned'
    BY <2>2, <2>3, <2>4, LetGo
  <2>6. SlotsConserved'
    BY <2>1, <2>2, <2>3, <2>4, SlotKept
  <2> QED
    BY <2>5, <2>6
<1>5. ASSUME NEW p \in Ptlrpcds, ReleaseSlot(p) PROVE Owned' /\ SlotsConserved'
  <2>1. req[p] \in Exts /\ rpc[req[p]].st = "reply"
    BY <1>5 DEF ReleaseSlot, Owned, ReplyPlaces
  <2>2. /\ rpc'[req[p]].st = "free"
        /\ \A s \in Exts \ {req[p]} : rpc'[s] = rpc[s]
    BY <1>5, <2>1 DEF ReleaseSlot, TypeOK, FreeRpc
  <2>3. /\ pc[p] \in HandPlaces /\ "check" \notin HandPlaces
        /\ pc' = [pc EXCEPT ![p] = "check"] /\ req' = [req EXCEPT ![p] = None]
        /\ inFlight' = [inFlight EXCEPT ![rpc[req[p]].cmd] = @ - 1]
    BY <1>5 DEF ReleaseSlot, HandPlaces, AddPlaces, ReplyPlaces
  <2>4. Owned'
    BY <2>2, <2>3, LetGo
  <2>5. SlotsConserved'
    BY <2>1, <2>2, <2>3, SlotGivenBack
  <2> QED
    BY <2>4, <2>5
<1>6. CASE Quiet
  BY <1>6, QuietOwned
<1> QED
  BY <1>1, <1>2, <1>3, <1>4, <1>5, <1>6, OtherStepsQuiet DEF Requesting

----------------------------------------------------------------------------
(* The counters raised after the window was checked: every turn is one     *)
(* osc_build_rpc a thread may still reach before it checks again.          *)
WriteTurns == {t \in Threads : pc[t] \in {"send_write", "build_write"}}
ReadTurns == WriteTurns \cup {t \in Threads : pc[t] \in {"add_write", "send_read", "build_read"}}
Turns == (WriteTurns \X {"write"}) \cup (ReadTurns \X {"read"})
Budget == InFlight + Cardinality(Turns) <= MaxRif + 2 * Cardinality(Threads)

(* Each thread is past the check of the window for at most one write and   *)
(* one read.                                                               *)
LEMMA TurnsBound ==
    ASSUME NEW S \in SUBSET (Threads \X Cmds)
    PROVE  /\ IsFiniteSet(S) /\ Cardinality(S) \in Nat
           /\ Cardinality(Threads) \in Nat
           /\ Cardinality(S) <= 2 * Cardinality(Threads)
<1>1. IsFiniteSet(Cmds) /\ Cardinality(Cmds) = 2
  <2>1. Cmds = {"read"} \cup {"write"} /\ "write" \notin {"read"}
    BY DEF Cmds
  <2>2. IsFiniteSet({"read"}) /\ Cardinality({"read"}) = 1
    BY FS_Singleton
  <2> QED
    BY <2>1, <2>2, FS_AddElement
<1>2. Cardinality(Threads) \in Nat
  BY ThreadsAssumption, FS_CardinalityType
<1>3. /\ IsFiniteSet(Threads \X Cmds)
      /\ Cardinality(Threads \X Cmds) = Cardinality(Threads) * 2
  BY <1>1, ThreadsAssumption, FS_Product
<1>4. /\ IsFiniteSet(S) /\ Cardinality(S) <= Cardinality(Threads \X Cmds)
  BY <1>3, FS_Subset
<1> QED
  BY <1>2, <1>3, <1>4, FS_CardinalityType

(* Turns are pairs of a thread and a command, before and after a step. *)
LEMMA TurnsType == Turns \in SUBSET (Threads \X Cmds) /\ Turns' \in SUBSET (Threads \X Cmds)
BY DEF Turns, WriteTurns, ReadTurns, Cmds

(* Steps that neither pass the window check nor build a request. *)
Passing == \E t \in Threads : CheckNext(t) \/ BuildRpc(t)

(* Only passing the check of the window adds a turn, and only building     *)
(* turns it into a slot.                                                   *)
LEMMA OtherStepsPassNothing ==
    TypeOK /\ [Next]_vars => Passing \/ (InFlight' <= InFlight /\ Turns' \subseteq Turns)
<1> SUFFICES ASSUME TypeOK, [Next]_vars, ~Passing
             PROVE  InFlight' <= InFlight /\ Turns' \subseteq Turns
  OBVIOUS
<1> DEFINE Fewer == /\ \A t \in Threads : pc'[t] \in {"send_write", "build_write"}
                            => pc[t] \in {"send_write", "build_write"}
                    /\ \A t \in Threads :
                          pc'[t] \in {"send_write", "build_write", "add_write", "send_read", "build_read"}
                       => pc[t] \in {"send_write", "build_write", "add_write", "send_read", "build_read"}
<1> USE DEF Threads, Goto
<1>1. ASSUME NEW a \in Apps, NEW e \in Exts, EnterCache(a, e) PROVE inFlight' = inFlight /\ Fewer
  BY <1>1 DEF TypeOK, EnterCache, EnterLoop, ForceSync, Reserve
<1>2. ASSUME NEW a \in Apps, NEW e \in Exts, SubmitSync(a, e) PROVE inFlight' = inFlight /\ Fewer
  BY <1>2 DEF TypeOK, SubmitSync, QueueSync
<1>3. ASSUME NEW a \in Apps, NEW e \in Exts, FlushPage(a, e) PROVE inFlight' = inFlight /\ Fewer
  BY <1>3 DEF TypeOK, FlushPage
<1>4. ASSUME NEW a \in Apps, NEW e \in Exts, WritebackRange(a, e) PROVE inFlight' = inFlight /\ Fewer
  BY <1>4 DEF TypeOK, WritebackRange
<1>5. ASSUME NEW a \in Apps, NEW e \in Exts, DiscardRange(a, e) PROVE inFlight' = inFlight /\ Fewer
  BY <1>5 DEF TypeOK, DiscardRange
<1>6. ASSUME NEW a \in Apps, Invalidate(a) PROVE inFlight' = inFlight /\ Fewer
  BY <1>6 DEF TypeOK, Invalidate
<1>7. ASSUME NEW a \in Apps, PlugForSpace(a) PROVE inFlight' = inFlight /\ Fewer
  BY <1>7 DEF TypeOK, PlugForSpace
<1>8. ASSUME NEW a \in Apps, Resume(a) PROVE inFlight' = inFlight /\ Fewer
  BY <1>8 DEF TypeOK, Resume, EnterLoop, Reserve
<1>9. ASSUME NEW a \in Apps, GiveUp(a) PROVE inFlight' = inFlight /\ Fewer
  BY <1>9 DEF TypeOK, GiveUp
<1>9a. ASSUME NEW a \in Apps, Interrupted(a) PROVE inFlight' = inFlight /\ Fewer
  BY <1>9a DEF TypeOK, Interrupted
<1>10. ASSUME NEW a \in Apps, ReleaseExtent(a) PROVE inFlight' = inFlight /\ Fewer
  BY <1>10 DEF TypeOK, ReleaseExtent
<1>11. ASSUME NEW a \in Apps, ExitCache(a) PROVE inFlight' = inFlight /\ Fewer
  BY <1>11 DEF TypeOK, ExitCache
<1>12. ASSUME NEW a \in Apps, UnreserveGrant(a) PROVE inFlight' = inFlight /\ Fewer
  BY <1>12 DEF TypeOK, UnreserveGrant
<1>13. ASSUME NEW a \in Apps, FallBackToSync(a) PROVE inFlight' = inFlight /\ Fewer
  BY <1>13 DEF TypeOK, FallBackToSync, QueueSync
<1>14. ASSUME NEW a \in Apps, PlugMaint(a) PROVE inFlight' = inFlight /\ Fewer
  BY <1>14 DEF TypeOK, PlugMaint
<1>15. ASSUME NEW a \in Apps, QueueWork(a) PROVE inFlight' = inFlight /\ Fewer
  BY <1>15 DEF TypeOK, QueueWork
<1>16. ASSUME NEW a \in Apps, DiscardMaint(a) PROVE inFlight' = inFlight /\ Fewer
  BY <1>16 DEF TypeOK, DiscardMaint
<1>17. ASSUME NEW a \in Apps, DiscardFinish(a) PROVE inFlight' = inFlight /\ Fewer
  BY <1>17 DEF TypeOK, DiscardFinish
<1>18. ASSUME NEW a \in Apps, WaitTimesOut(a) PROVE inFlight' = inFlight /\ Fewer
  BY <1>18 DEF TypeOK, WaitTimesOut
<1>19. ASSUME NEW p \in Ptlrpcds, RunWork(p) PROVE inFlight' = inFlight /\ Fewer
  BY <1>19 DEF TypeOK, RunWork
<1>20. ASSUME NEW p \in Ptlrpcds, NEW r \in Exts, Interpret(p, r) PROVE inFlight' = inFlight /\ Fewer
  BY <1>20 DEF TypeOK, Interpret
<1>21. ASSUME NEW p \in Ptlrpcds, Adjust(p) PROVE inFlight' = inFlight /\ Fewer
  BY <1>21 DEF TypeOK, Adjust
<1>22. ASSUME NEW p \in Ptlrpcds, Redo(p) PROVE inFlight' = inFlight /\ Fewer
  BY <1>22 DEF TypeOK, Redo
<1>23. ASSUME NEW p \in Ptlrpcds, FinishRpc(p) PROVE inFlight' = inFlight /\ Fewer
  BY <1>23 DEF TypeOK, FinishRpc
<1>24. ASSUME NEW t \in Threads, CheckEmpty(t) PROVE inFlight' = inFlight /\ Fewer
  BY <1>24 DEF TypeOK, CheckEmpty, CheckDone
<1>25. ASSUME NEW t \in Threads, CheckFull(t) PROVE inFlight' = inFlight /\ Fewer
  BY <1>25 DEF TypeOK, CheckFull, CheckDone
<1>26. ASSUME NEW t \in Threads, SendWrite(t) PROVE inFlight' = inFlight /\ Fewer
  BY <1>26 DEF TypeOK, SendWrite, Take, Skip
<1>27. ASSUME NEW t \in Threads, SendRead(t) PROVE inFlight' = inFlight /\ Fewer
  BY <1>27 DEF TypeOK, SendRead, Take, Skip
<1>28. ASSUME NEW t \in Threads, NEW e \in Exts, MakeReadyFails(t, e) PROVE inFlight' = inFlight /\ Fewer
  BY <1>28 DEF TypeOK, MakeReadyFails
<1>29. ASSUME NEW t \in Threads, BuildFails(t) PROVE inFlight' = inFlight /\ Fewer
  BY <1>29 DEF TypeOK, BuildFails, AfterBuild
<1>30. ASSUME NEW t \in Threads, AddReq(t) PROVE inFlight' = inFlight /\ Fewer
  BY <1>30 DEF TypeOK, AddReq
<1>31. ASSUME NEW t \in Threads, Relist(t) PROVE inFlight' = inFlight /\ Fewer
  BY <1>31 DEF TypeOK, Relist
<1>32. ASSUME Reconnect PROVE inFlight' = inFlight /\ Fewer
  BY <1>32 DEF Reconnect
<1>33. ASSUME WriteMaxRpcs PROVE inFlight' = inFlight /\ Fewer
  BY <1>33 DEF WriteMaxRpcs
<1>34. ASSUME UNCHANGED vars PROVE inFlight' = inFlight /\ Fewer
  BY <1>34 DEF vars
<1>35. ASSUME NEW p \in Ptlrpcds, ReleaseSlot(p) PROVE InFlight' <= InFlight /\ Fewer
  <2>1. Fewer
    BY <1>35 DEF ReleaseSlot, TypeOK
  <2>2. InFlight' <= InFlight
    BY <1>35 DEF ReleaseSlot, TypeOK, InFlight, Cmds
  <2> QED
    BY <2>1, <2>2
<1>36. InFlight' <= InFlight /\ Fewer
  <2>1. inFlight' = inFlight => InFlight' <= InFlight
    BY DEF TypeOK, InFlight, Cmds
  <2> HIDE DEF Fewer
  <2> QED
    BY <2>1, <1>1, <1>2, <1>3, <1>4, <1>5, <1>6, <1>7, <1>8, <1>9, <1>9a, <1>10, <1>11, <1>12,
       <1>13, <1>14, <1>15, <1>16, <1>17, <1>18, <1>19, <1>20, <1>21, <1>22, <1>23,
       <1>24, <1>25, <1>26, <1>27, <1>28, <1>29, <1>30, <1>31, <1>32, <1>33, <1>34,
       <1>35
    DEF Next, AppBegin, AppStep, Serve, ReplyStep, CheckStep, Passing
<1> QED
  BY <1>36 DEF Turns, WriteTurns, ReadTurns

(* What is in flight or about to be stays within the window and the turns  *)
(* of all threads.                                                         *)
LEMMA BudgetStep == TypeOK /\ Budget /\ [Next]_vars => Budget'
<1> SUFFICES ASSUME TypeOK, Budget, [Next]_vars PROVE Budget'
  OBVIOUS
<1>1. InFlight \in Int /\ InFlight' \in Int
  BY TypeStep DEF TypeOK, InFlight, Cmds
<1>2. ASSUME NEW t \in Threads, CheckNext(t) PROVE Budget'
  <2>1. InFlight <= MaxRif
    <3>1. PICK o \in NextObjs : ~WindowFull(o)
      BY <1>2 DEF CheckNext
    <3>2. window \in Int /\ window <= MaxRif /\ MaxRif \in Int
      BY LimitsAssumption DEF TypeOK
    <3>3. InFlight < window + 1
      <4>1. CASE HasHp(o)
        BY <1>1, <3>1, <3>2, <4>1 DEF WindowFull
      <4>2. CASE ~HasHp(o)
        BY <1>1, <3>1, <3>2, <4>2 DEF WindowFull
      <4> QED
        BY <4>1, <4>2
    <3> QED
      BY <1>1, <3>2, <3>3
  <2>2. InFlight' = InFlight
    BY <1>2 DEF CheckNext, InFlight
  <2> QED
    BY <1>1, <2>1, <2>2, TurnsType, TurnsBound, LimitsAssumption DEF Budget
<1>3. ASSUME NEW t \in Threads, BuildRpc(t) PROVE Budget'
  <2> DEFINE cmd == IF pc[t] = "build_write" THEN "write" ELSE "read"
             place == IF pc[t] = "build_write" THEN "add_write" ELSE "add_read"
  <2>1. /\ pc[t] \in {"build_write", "build_read"}
        /\ pc' = [pc EXCEPT ![t] = place]
        /\ inFlight' = [inFlight EXCEPT ![cmd] = @ + 1]
    BY <1>3 DEF BuildRpc, Goto
  <2>2. InFlight' = InFlight + 1
    BY <2>1 DEF InFlight, TypeOK, Cmds
  <2>3. /\ WriteTurns' = WriteTurns \ {t}
        /\ ReadTurns' = IF pc[t] = "build_write" THEN ReadTurns ELSE ReadTurns \ {t}
        /\ t \in ReadTurns /\ (t \in WriteTurns <=> pc[t] = "build_write")
    BY <2>1 DEF WriteTurns, ReadTurns, TypeOK
  <2>4. Turns' = Turns \ {<<t, cmd>>} /\ <<t, cmd>> \in Turns
    BY <2>3 DEF Turns
  <2>5. Cardinality(Turns') = Cardinality(Turns) - 1
    BY <2>4, TurnsType, TurnsBound, FS_RemoveElement
  <2> QED
    BY <1>1, <2>2, <2>5, TurnsType, TurnsBound, LimitsAssumption DEF Budget
<1>4. CASE InFlight' <= InFlight /\ Turns' \subseteq Turns
  <2>1. Cardinality(Turns') <= Cardinality(Turns)
    BY <1>4, TurnsType, TurnsBound, FS_Subset
  <2> QED
    BY <1>1, <1>4, <2>1, TurnsType, TurnsBound, LimitsAssumption DEF Budget
<1> QED
  BY <1>2, <1>3, <1>4, OtherStepsPassNothing DEF Passing

(* No request is live initially. *)
LEMMA InitSlots == Init => Owned /\ SlotsConserved
<1> SUFFICES ASSUME Init PROVE Owned /\ SlotsConserved
  OBVIOUS
<1>1. \A r \in Exts : rpc[r].st = "free"
  BY DEF Init, FreeRpc
<1>2. \A c \in Cmds : LiveRpcs(c) = {}
  BY <1>1 DEF LiveRpcs
<1>3. SlotsConserved
  BY <1>2, FS_EmptySet DEF Init, SlotsConserved
<1>4. \A t \in Threads : pc[t] = "idle"
  BY DEF Init
<1> QED
  BY <1>1, <1>3, <1>4 DEF Owned, AddPlaces, ReplyPlaces

(* The in-flight counters count the requests that were built and whose     *)
(* slot was not given back (osc_build_rpc, brw_interpret).                 *)
THEOREM SlotsAreConserved == Spec => []SlotsConserved
<1>1. TypeOK /\ Owned /\ SlotsConserved /\ [Next]_vars => (Owned /\ SlotsConserved)'
  BY SlotsStep
<1> QED
  BY <1>1, InitSlots, TypeCorrect, PTL DEF Spec

(* The in-flight count never passes the largest window by more than one    *)
(* write and one read for every thread.                                    *)
THEOREM InFlightIsBounded == Spec => []InFlightBounded
<1>1. Init => Budget
  <2> SUFFICES ASSUME Init PROVE Budget
    OBVIOUS
  <2>1. InFlight = 0
    BY DEF Init, InFlight, Cmds
  <2> QED
    BY <2>1, TurnsType, TurnsBound, LimitsAssumption DEF Budget
<1>2. TypeOK /\ Budget => InFlightBounded
  <2> SUFFICES ASSUME TypeOK, Budget PROVE InFlightBounded
    OBVIOUS
  <2>1. InFlight \in Int
    BY DEF TypeOK, InFlight, Cmds
  <2> QED
    BY <2>1, TurnsType, TurnsBound, LimitsAssumption DEF Budget, InFlightBounded
<1> QED
  BY <1>1, <1>2, BudgetStep, TypeCorrect, PTL DEF Spec

----------------------------------------------------------------------------
(* What the queues of the objects say after a step.                        *)

(* Extents only leave the queues of their objects. *)
Shrinks == \A e \in Exts :
    est'[e] = est[e] \/ est'[e] \notin {"cache", "urgent", "hp", "reading"}

(* When extents leave the queues of an object, nothing becomes pressing. *)
LEMMA PressingShrinks ==
    ASSUME Shrinks, NEW o
    PROVE  /\ Writes(o)' \subseteq Writes(o)
           /\ Pressing(o)' => Pressing(o)
<1>1. Writes(o)' \subseteq Writes(o) /\ Reads(o)' \subseteq Reads(o)
  BY DEF Shrinks, Writes, Reads
<1>2. \A e \in Writes(o)' : est'[e] = est[e]
  BY DEF Shrinks, Writes
<1>3. IsFiniteSet(Writes(o))
  <2>1. Writes(o) \subseteq Exts
    BY DEF Writes
  <2> QED
    BY <2>1, WorkAssumption, FS_Subset
<1>4. /\ Cardinality(Writes(o)') <= Cardinality(Writes(o))
      /\ Cardinality(Writes(o)) \in Nat /\ Cardinality(Writes(o)') \in Nat
  BY <1>1, <1>3, FS_Subset, FS_CardinalityType
<1>5. Cardinality(Writes(o)') >= MaxPages => Cardinality(Writes(o)) >= MaxPages
  BY <1>4, LimitsAssumption
<1> QED
  BY <1>1, <1>2, <1>5 DEF Pressing, MakesRead

(* Steps on the extents of other objects leave an object as it is. *)
LEMMA PressingSame ==
    ASSUME NEW o, \A e \in Exts : ObjOf[e] = o => est'[e] = est[e]
    PROVE  Writes(o)' = Writes(o) /\ (Pressing(o)' <=> Pressing(o))
<1>1. Writes(o)' = Writes(o) /\ Reads(o)' = Reads(o)
  BY DEF Writes, Reads
<1>2. \A e \in Writes(o) : est'[e] = est[e]
  BY DEF Writes
<1> QED
  BY <1>1, <1>2 DEF Pressing, MakesRead

(* An object with something pressing has something to write or to read. *)
LEMMA PressingReady ==
    ASSUME NEW o, Pressing(o)
    PROVE  HasHp(o) \/ MakesWrite(o) \/ MakesRead(o)
<1>1. CASE \E e \in Writes(o) : est[e] \in {"urgent", "hp"}
  BY <1>1 DEF MakesWrite
<1>2. CASE Cardinality(Writes(o)) >= MaxPages
  <2>1. Writes(o) # {}
    BY <1>2, FS_EmptySet, LimitsAssumption
  <2> QED
    BY <1>2, <2>1 DEF MakesWrite
<1> QED
  BY <1>1, <1>2 DEF Pressing

(* The objects that are ready are pressing, or wait with the waiters or an *)
(* import that is gone.                                                    *)
LEMMA EligiblePressing ==
    ASSUME NEW o, Eligible(o)
    PROVE  Pressing(o) \/ (Writes(o) # {} /\ (waiters # {} \/ ~valid))
BY DEF Eligible, HasHp, MakesWrite, Pressing

(* A step that only takes extents off queues, and keeps lists and objects  *)
(* in hand, keeps the lists right.                                         *)
LEMMA ListsKept ==
    ASSUME Listed, Queued, Shrinks,
           UNCHANGED <<hpList, readyList, writeList>>,
           \A t \in Threads : pc[t] \in HandlingPlaces =>
               pc'[t] \in HandlingPlaces /\ obj'[t] = obj[t]
    PROVE  Listed' /\ Queued'
<1>1. \A o : InHand(o) => InHand(o)'
  BY DEF InHand
<1> QED
  BY <1>1, PressingShrinks DEF Listed, Queued

(* A thread changes the queues of an object and has it in hand then. *)
LEMMA ListsBrought ==
    ASSUME Listed, Queued, NEW x \in Objs, NEW a \in Threads, pc[a] \notin HandlingPlaces,
           pc'[a] \in HandlingPlaces, obj'[a] = x,
           \A u \in Threads \ {a} : pc'[u] = pc[u] /\ obj'[u] = obj[u],
           UNCHANGED <<hpList, readyList, writeList>>,
           \A e \in Exts : ObjOf[e] # x => est'[e] = est[e]
    PROVE  Listed' /\ Queued'
<1>1. \A o : InHand(o) => InHand(o)'
  BY DEF InHand
<1>2. InHand(x)'
  BY DEF InHand
<1>3. \A o \in Objs \ {x} :
          Writes(o)' = Writes(o) /\ (Pressing(o)' <=> Pressing(o))
  BY PressingSame
<1>4. ASSUME NEW o \in Objs, Pressing(o)' PROVE o \in (hpList \cup readyList)' \/ InHand(o)'
  BY <1>1, <1>2, <1>3, <1>4 DEF Listed
<1>5. ASSUME NEW o \in Objs, Writes(o)' # {} PROVE o \in writeList' \/ InHand(o)'
  BY <1>1, <1>2, <1>3, <1>5 DEF Queued
<1> QED
  BY <1>4, <1>5 DEF Listed, Queued

(* __osc_list_maint puts an object where its queues say. *)
LEMMA ListsMaintained ==
    ASSUME Listed, Queued, NEW x \in Objs, ListMaint(x), est' = est,
           \A t \in Threads : pc[t] \in HandlingPlaces /\ obj[t] # x =>
               pc'[t] \in HandlingPlaces /\ obj'[t] = obj[t]
    PROVE  Listed' /\ Queued'
<1>1. \A o \in Objs \ {x} : InHand(o) => InHand(o)'
  BY DEF InHand
<1>2. \A o : Writes(o)' = Writes(o) /\ (Pressing(o)' <=> Pressing(o))
  BY PressingSame
<1>3. Pressing(x) => x \in hpList' \cup readyList'
  BY PressingReady DEF ListMaint, OnList
<1>4. Writes(x) # {} => x \in writeList'
  BY DEF ListMaint, OnList
<1>5. \A o \in Objs \ {x} : /\ o \in hpList => o \in hpList'
                            /\ o \in readyList => o \in readyList'
                            /\ o \in writeList => o \in writeList'
  BY DEF ListMaint, OnList
<1>6. ASSUME NEW o \in Objs, Pressing(o)' PROVE o \in (hpList \cup readyList)' \/ InHand(o)'
  BY <1>1, <1>2, <1>3, <1>5, <1>6 DEF Listed
<1>7. ASSUME NEW o \in Objs, Writes(o)' # {} PROVE o \in writeList' \/ InHand(o)'
  BY <1>1, <1>2, <1>4, <1>5, <1>7 DEF Queued
<1> QED
  BY <1>6, <1>7 DEF Listed, Queued

(* A thread takes an object off a list and has it in hand then. *)
LEMMA ListsTakenOff ==
    ASSUME Listed, Queued, NEW x \in Objs, TakeOff(x), est' = est,
           NEW a \in Threads, pc[a] \notin HandlingPlaces,
           pc'[a] \in HandlingPlaces, obj'[a] = x,
           \A u \in Threads \ {a} : pc'[u] = pc[u] /\ obj'[u] = obj[u]
    PROVE  Listed' /\ Queued'
<1>1. \A o : InHand(o) => InHand(o)'
  BY DEF InHand
<1>2. \A o : Writes(o)' = Writes(o) /\ (Pressing(o)' <=> Pressing(o))
  BY PressingSame
<1>3. InHand(x)'
  BY DEF InHand
<1>4. \A o \in Objs \ {x} : /\ o \in hpList => o \in hpList'
                            /\ o \in readyList => o \in readyList'
                            /\ o \in writeList => o \in writeList'
  BY DEF TakeOff
<1>5. ASSUME NEW o \in Objs, Pressing(o)' PROVE o \in (hpList \cup readyList)' \/ InHand(o)'
  BY <1>1, <1>2, <1>3, <1>4, <1>5 DEF Listed
<1>6. ASSUME NEW o \in Objs, Writes(o)' # {} PROVE o \in writeList' \/ InHand(o)'
  BY <1>1, <1>2, <1>3, <1>4, <1>6 DEF Queued
<1> QED
  BY <1>5, <1>6 DEF Listed, Queued

Moving ==
    \/ \E a \in Apps :
          \/ ReleaseExtent(a) \/ FallBackToSync(a) \/ PlugMaint(a) \/ DiscardMaint(a)
          \/ \E e \in Exts : SubmitSync(a, e) \/ FlushPage(a, e) \/ WritebackRange(a, e)
    \/ \E t \in Threads : CheckFull(t) \/ CheckNext(t) \/ Relist(t)

(* Every step other than those of Moving leaves lists and hands alone and  *)
(* only takes extents off queues.                                          *)
LEMMA OtherStepsMoveNothing ==
    ASSUME TypeOK, [Next]_vars, ~Moving
    PROVE  /\ Shrinks /\ UNCHANGED <<hpList, readyList, writeList>>
           /\ \A t \in Threads : pc[t] \in HandlingPlaces =>
                  pc'[t] \in HandlingPlaces /\ obj'[t] = obj[t]
<1> DEFINE Hands == \A t \in Threads : pc[t] \in HandlingPlaces =>
                        pc'[t] \in HandlingPlaces /\ obj'[t] = obj[t]
           Still == Shrinks /\ UNCHANGED <<hpList, readyList, writeList>> /\ Hands
<1> USE DEF Threads, Goto, HandlingPlaces, CheckPlaces, Shrinks, listVars, localVars
<1>1. ASSUME NEW a \in Apps, NEW e \in Exts, EnterCache(a, e) PROVE Still
  BY <1>1 DEF TypeOK, EnterCache, EnterLoop, ForceSync, Reserve
<1>2. ASSUME NEW a \in Apps, NEW e \in Exts, DiscardRange(a, e) PROVE Still
  BY <1>2 DEF TypeOK, DiscardRange
<1>3. ASSUME NEW a \in Apps, Invalidate(a) PROVE Still
  BY <1>3 DEF TypeOK, Invalidate
<1>4. ASSUME NEW a \in Apps, PlugForSpace(a) PROVE Still
  BY <1>4 DEF TypeOK, PlugForSpace
<1>5. ASSUME NEW a \in Apps, Resume(a) PROVE Still
  BY <1>5 DEF TypeOK, Resume, EnterLoop, Reserve
<1>6. ASSUME NEW a \in Apps, GiveUp(a) PROVE Still
  BY <1>6 DEF TypeOK, GiveUp
<1>6a. ASSUME NEW a \in Apps, Interrupted(a) PROVE Still
  BY <1>6a DEF TypeOK, Interrupted
<1>7. ASSUME NEW a \in Apps, ExitCache(a) PROVE Still
  BY <1>7 DEF TypeOK, ExitCache
<1>8. ASSUME NEW a \in Apps, UnreserveGrant(a) PROVE Still
  BY <1>8 DEF TypeOK, UnreserveGrant
<1>9. ASSUME NEW a \in Apps, QueueWork(a) PROVE Still
  BY <1>9 DEF TypeOK, QueueWork
<1>10. ASSUME NEW a \in Apps, DiscardFinish(a) PROVE Still
  BY <1>10 DEF TypeOK, DiscardFinish, FinishExtents
<1>11. ASSUME NEW a \in Apps, WaitTimesOut(a) PROVE Still
  BY <1>11 DEF TypeOK, WaitTimesOut
<1>12. ASSUME NEW p \in Ptlrpcds, RunWork(p) PROVE Still
  BY <1>12 DEF TypeOK, RunWork
<1>13. ASSUME NEW p \in Ptlrpcds, NEW r \in Exts, Interpret(p, r) PROVE Still
  BY <1>13 DEF TypeOK, Interpret
<1>14. ASSUME NEW p \in Ptlrpcds, Adjust(p) PROVE Still
  BY <1>14 DEF TypeOK, Adjust
<1>15. ASSUME NEW p \in Ptlrpcds, Redo(p) PROVE Still
  BY <1>15 DEF TypeOK, Redo
<1>16. ASSUME NEW p \in Ptlrpcds, FinishRpc(p) PROVE Still
  BY <1>16 DEF TypeOK, FinishRpc, FinishExtents
<1>17. ASSUME NEW p \in Ptlrpcds, ReleaseSlot(p) PROVE Still
  BY <1>17 DEF TypeOK, ReleaseSlot
<1>18. ASSUME NEW t \in Threads, CheckEmpty(t) PROVE Still
  BY <1>18 DEF TypeOK, CheckEmpty, CheckDone
<1>19. ASSUME NEW t \in Threads, SendWrite(t) PROVE Still
  BY <1>19 DEF TypeOK, SendWrite, Take, Skip
<1>20. ASSUME NEW t \in Threads, SendRead(t) PROVE Still
  BY <1>20 DEF TypeOK, SendRead, Take, Skip
<1>21. ASSUME NEW t \in Threads, NEW e \in Exts, MakeReadyFails(t, e) PROVE Still
  BY <1>21 DEF TypeOK, MakeReadyFails, FinishExtents
<1>22. ASSUME NEW t \in Threads, BuildFails(t) PROVE Still
  BY <1>22 DEF TypeOK, BuildFails, FinishExtents, AfterBuild
<1>23. ASSUME NEW t \in Threads, BuildRpc(t) PROVE Still
  BY <1>23 DEF TypeOK, BuildRpc
<1>24. ASSUME NEW t \in Threads, AddReq(t) PROVE Still
  BY <1>24 DEF TypeOK, AddReq
<1>25. ASSUME Reconnect PROVE Still
  BY <1>25 DEF Reconnect
<1>26. ASSUME WriteMaxRpcs PROVE Still
  BY <1>26 DEF WriteMaxRpcs
<1>27. ASSUME UNCHANGED vars PROVE Still
  BY <1>27 DEF vars
<1>28. Still
  <2> HIDE DEF Still
  <2> QED
    BY <1>1, <1>2, <1>3, <1>4, <1>5, <1>6, <1>6a, <1>7, <1>8, <1>9, <1>10, <1>11, <1>12, <1>13,
       <1>14, <1>15, <1>16, <1>17, <1>18, <1>19, <1>20, <1>21, <1>22, <1>23, <1>24,
       <1>25, <1>26, <1>27
    DEF Next, AppBegin, AppStep, Serve, ReplyStep, CheckStep, Moving
<1> QED
  BY <1>28

(* Every step keeps pressing objects on their lists or in somebody's hand. *)
LEMMA ListsStep ==
    TypeOK /\ Places /\ Listed /\ Queued /\ [Next]_vars => Listed' /\ Queued'
<1> SUFFICES ASSUME TypeOK, Places, Listed, Queued, [Next]_vars
             PROVE  Listed' /\ Queued'
  OBVIOUS
<1> USE ThreadsAssumption, WorkAssumption
    DEF Threads, Goto, HandlingPlaces, CheckPlaces, TypeOK, listVars, localVars
<1>1. ASSUME NEW a \in Apps, NEW e \in Exts, SubmitSync(a, e) PROVE Listed' /\ Queued'
  <2>1. ObjOf[e] \in Objs
    OBVIOUS
  <2>2. /\ pc[a] \notin HandlingPlaces /\ pc'[a] \in HandlingPlaces /\ obj'[a] = ObjOf[e]
        /\ \A u \in Threads \ {a} : pc'[u] = pc[u] /\ obj'[u] = obj[u]
        /\ UNCHANGED <<hpList, readyList, writeList>>
        /\ \A f \in Exts : ObjOf[f] # ObjOf[e] => est'[f] = est[f]
    BY <1>1, <2>1 DEF SubmitSync, QueueSync
  <2> QED
    BY <2>1, <2>2, ListsBrought
<1>2. ASSUME NEW a \in Apps, NEW e \in Exts, FlushPage(a, e) PROVE Listed' /\ Queued'
  <2>1. ObjOf[e] \in Objs
    OBVIOUS
  <2>2. /\ pc[a] \notin HandlingPlaces /\ pc'[a] \in HandlingPlaces /\ obj'[a] = ObjOf[e]
        /\ \A u \in Threads \ {a} : pc'[u] = pc[u] /\ obj'[u] = obj[u]
        /\ UNCHANGED <<hpList, readyList, writeList>>
        /\ \A f \in Exts : ObjOf[f] # ObjOf[e] => est'[f] = est[f]
    BY <1>2, <2>1 DEF FlushPage
  <2> QED
    BY <2>1, <2>2, ListsBrought
<1>3. ASSUME NEW a \in Apps, NEW e \in Exts, WritebackRange(a, e) PROVE Listed' /\ Queued'
  <2>1. ObjOf[e] \in Objs
    OBVIOUS
  <2>2. /\ pc[a] \notin HandlingPlaces /\ pc'[a] \in HandlingPlaces /\ obj'[a] = ObjOf[e]
        /\ \A u \in Threads \ {a} : pc'[u] = pc[u] /\ obj'[u] = obj[u]
        /\ UNCHANGED <<hpList, readyList, writeList>>
        /\ \A f \in Exts : ObjOf[f] # ObjOf[e] => est'[f] = est[f]
    BY <1>3, <2>1 DEF WritebackRange
  <2> QED
    BY <2>1, <2>2, ListsBrought
<1>4. ASSUME NEW a \in Apps, FallBackToSync(a) PROVE Listed' /\ Queued'
  <2>1. PICK e \in Exts : ObjOf[e] \in Objs /\ QueueSync(a, e)
    BY <1>4 DEF FallBackToSync
  <2>2. /\ pc[a] \notin HandlingPlaces /\ pc'[a] \in HandlingPlaces /\ obj'[a] = ObjOf[e]
        /\ \A u \in Threads \ {a} : pc'[u] = pc[u] /\ obj'[u] = obj[u]
        /\ UNCHANGED <<hpList, readyList, writeList>>
        /\ \A f \in Exts : ObjOf[f] # ObjOf[e] => est'[f] = est[f]
    BY <1>4, <2>1 DEF FallBackToSync, QueueSync
  <2> QED
    BY <2>1, <2>2, ListsBrought
<1>5. ASSUME NEW a \in Apps, ReleaseExtent(a) PROVE Listed' /\ Queued'
  <2>1. PICK x \in Objs : x = obj[a] /\ \A e \in hold[a] : ObjOf[e] = x
    BY <1>5 DEF ReleaseExtent, Places
  <2>2. /\ pc[a] \notin HandlingPlaces /\ pc'[a] \in HandlingPlaces /\ obj'[a] = x
        /\ \A u \in Threads \ {a} : pc'[u] = pc[u] /\ obj'[u] = obj[u]
        /\ UNCHANGED <<hpList, readyList, writeList>>
        /\ \A f \in Exts : ObjOf[f] # x => est'[f] = est[f]
    BY <1>5, <2>1 DEF ReleaseExtent
  <2> QED
    BY <2>1, <2>2, ListsBrought
<1>6. ASSUME NEW a \in Apps, PlugMaint(a) PROVE Listed' /\ Queued'
  <2>1. PICK x \in Objs : x = obj[a] /\ ListMaint(x)
    BY <1>6 DEF PlugMaint, Places
  <2>2. /\ est' = est
        /\ \A t \in Threads : pc[t] \in HandlingPlaces /\ obj[t] # x =>
               pc'[t] \in HandlingPlaces /\ obj'[t] = obj[t]
    BY <1>6, <2>1 DEF PlugMaint
  <2> QED
    BY <2>1, <2>2, ListsMaintained
<1>7. ASSUME NEW a \in Apps, DiscardMaint(a) PROVE Listed' /\ Queued'
  <2>1. PICK x \in Objs : x = obj[a] /\ ListMaint(x)
    BY <1>7 DEF DiscardMaint, Places
  <2>2. /\ est' = est
        /\ \A t \in Threads : pc[t] \in HandlingPlaces /\ obj[t] # x =>
               pc'[t] \in HandlingPlaces /\ obj'[t] = obj[t]
    BY <1>7, <2>1 DEF DiscardMaint
  <2> QED
    BY <2>1, <2>2, ListsMaintained
<1>8. ASSUME NEW t \in Threads, Relist(t) PROVE Listed' /\ Queued'
  <2>1. PICK x \in Objs : x = obj[t] /\ ListMaint(x)
    BY <1>8 DEF Relist, Places
  <2>2. /\ est' = est
        /\ \A u \in Threads : pc[u] \in HandlingPlaces /\ obj[u] # x =>
               pc'[u] \in HandlingPlaces /\ obj'[u] = obj[u]
    BY <1>8, <2>1 DEF Relist
  <2> QED
    BY <2>1, <2>2, ListsMaintained
<1>9. ASSUME NEW t \in Threads, CheckFull(t) PROVE Listed' /\ Queued'
  <2>1. PICK x \in Objs : ListMaint(x)
    BY <1>9 DEF CheckFull, NextObjs
  <2>2. /\ est' = est
        /\ \A u \in Threads : pc[u] \in HandlingPlaces =>
               pc'[u] \in HandlingPlaces /\ obj'[u] = obj[u]
    BY <1>9 DEF CheckFull, CheckDone
  <2> QED
    BY <2>1, <2>2, ListsMaintained
<1>10. ASSUME NEW t \in Threads, CheckNext(t) PROVE Listed' /\ Queued'
  <2>1. PICK x \in Objs : TakeOff(x) /\ obj' = [obj EXCEPT ![t] = x]
    BY <1>10 DEF CheckNext, NextObjs
  <2>2. /\ est' = est /\ pc[t] \notin HandlingPlaces
        /\ pc'[t] \in HandlingPlaces /\ obj'[t] = x
        /\ \A u \in Threads \ {t} : pc'[u] = pc[u] /\ obj'[u] = obj[u]
    BY <1>10, <2>1 DEF CheckNext
  <2> QED
    BY <2>1, <2>2, ListsTakenOff
<1>11. CASE ~Moving
  BY <1>11, OtherStepsMoveNothing, ListsKept
<1> QED
  BY <1>1, <1>2, <1>3, <1>4, <1>5, <1>6, <1>7, <1>8, <1>9, <1>10, <1>11 DEF Moving

----------------------------------------------------------------------------
(* Somebody looks at whatever osc_next_obj would return.                   *)
WillPlaces == {"plug", "queue"} \cup CheckPlaces \cup ReplyPlaces

(* Steps after which nobody is less bound to look at nothing more. *)
Calm ==
    /\ Candidates' \subseteq Candidates
    /\ work' = work /\ rpc' = rpc
    /\ \A t \in Threads : pc[t] \in WillPlaces => pc'[t] \in WillPlaces
    /\ \A a \in Apps : pc[a] \in {"maint", "flush"} => pc'[a] = pc[a] /\ obj'[a] = obj[a]

(* While nothing new is to be sent and no watcher leaves, somebody still   *)
(* watches.                                                                *)
LEMMA WatchKept == ASSUME Watched, Calm PROVE Watched'
<1>1. WillCheck => WillCheck'
  BY DEF Calm, WillCheck, WillPlaces
<1>2. \A o : Bringing(o) => Bringing(o)'
  BY DEF Calm, Bringing
<1> QED
  BY <1>1, <1>2 DEF Watched, Calm

(* A thread on its way to osc_check_rpcs watches. *)
LEMMA WatchGained == ASSUME NEW t \in Threads, pc'[t] \in WillPlaces PROVE WillCheck'
BY DEF WillCheck, WillPlaces

(* The lists and the watch together leave no object stranded. *)
LEMMA NothingStranded ==
    ASSUME TypeOK, Places, Listed, Queued, Watched
    PROVE  NoStrandedWork
<1> SUFFICES ASSUME NEW o \in Objs, Eligible(o)
             PROVE  WillCheck \/ Bringing(o)
  BY DEF NoStrandedWork, Bringing
<1>1. InHand(o) => WillCheck \/ Bringing(o)
  BY DEF InHand, HandlingPlaces, Places, WillCheck, Bringing, AppPlaces
<1>2. o \in Candidates \/ InHand(o)
  BY EligiblePressing DEF Candidates, Listed, Queued
<1> QED
  BY <1>1, <1>2 DEF Watched

(* A window that is full is full of requests whose replies will be seen.   *)
LEMMA LiveRequestWatched ==
    ASSUME TypeOK, Owned, SlotsConserved, InFlight >= 1
    PROVE  \/ \E r \in Exts : rpc[r].st = "wire"
           \/ \E t \in Threads : pc[t] \in HandPlaces
<1>1. PICK c \in Cmds : inFlight[c] # 0
  BY DEF InFlight, TypeOK, Cmds
<1>2. LiveRpcs(c) # {}
  BY <1>1, FS_EmptySet DEF SlotsConserved
<1>3. PICK r \in Exts : rpc[r].st # "free"
  BY <1>2 DEF LiveRpcs
<1>4. rpc[r].st \in RpcStates
  BY DEF TypeOK, Requests
<1> QED
  BY <1>3, <1>4 DEF RpcStates, Owned, HandPlaces

Finding ==
    \/ \E a \in Apps : PlugMaint(a) \/ DiscardMaint(a)
    \/ \E t \in Threads : CheckEmpty(t) \/ CheckFull(t)

(* Every step other than those of Finding brings a thread that will check, *)
(* or changes nothing for the watch.                                       *)
LEMMA OtherStepsWatch ==
    ASSUME TypeOK, Places, Owned, [Next]_vars, ~Finding
    PROVE  WillCheck' \/ Calm
<1> USE DEF Threads, Goto, TypeOK
<1>1. ASSUME NEW a \in Apps, NEW e \in Exts, EnterCache(a, e) PROVE WillCheck' \/ Calm
  <2>1. CASE pc'[a] = "plug"
    BY <2>1, WatchGained DEF WillPlaces
  <2>2. CASE pc'[a] # "plug"
    <3>1. waiters' = waiters
      BY <1>1, <2>2 DEF EnterCache, EnterLoop, ForceSync, Reserve
    <3>2. Candidates' = Candidates
      BY <1>1, <3>1 DEF EnterCache, Candidates, listVars
    <3> QED
      BY <1>1, <3>2 DEF Calm, EnterCache, WillPlaces, CheckPlaces, ReplyPlaces,
         workVars, localVars, EnterLoop, ForceSync, Reserve
  <2> QED
    BY <2>1, <2>2
<1>2. ASSUME NEW a \in Apps, NEW e \in Exts, SubmitSync(a, e) PROVE Calm
  BY <1>2 DEF Calm, Candidates, SubmitSync, QueueSync, WillPlaces, CheckPlaces,
     ReplyPlaces, cacheVars, listVars, workVars, localVars
<1>3. ASSUME NEW a \in Apps, NEW e \in Exts, FlushPage(a, e) PROVE Calm
  BY <1>3 DEF Calm, Candidates, FlushPage, WillPlaces, CheckPlaces, ReplyPlaces,
     cacheVars, listVars, workVars, localVars
<1>4. ASSUME NEW a \in Apps, NEW e \in Exts, WritebackRange(a, e) PROVE Calm
  BY <1>4 DEF Calm, Candidates, WritebackRange, WillPlaces, CheckPlaces, ReplyPlaces,
     cacheVars, listVars, workVars, localVars
<1>5. ASSUME NEW a \in Apps, NEW e \in Exts, DiscardRange(a, e) PROVE Calm
  BY <1>5 DEF Calm, Candidates, DiscardRange, WillPlaces, CheckPlaces, ReplyPlaces,
     cacheVars, listVars, workVars, localVars
<1>6. ASSUME NEW a \in Apps, Invalidate(a) PROVE WillCheck'
  BY <1>6, WatchGained DEF Invalidate, WillPlaces, CheckPlaces, ReplyPlaces
<1>7. ASSUME NEW a \in Apps, PlugForSpace(a) PROVE WillCheck'
  BY <1>7 DEF PlugForSpace, WillCheck
<1>8. ASSUME NEW a \in Apps, Resume(a) PROVE WillCheck' \/ Calm
  <2>1. CASE pc'[a] = "plug"
    BY <2>1, WatchGained DEF WillPlaces
  <2>2. CASE pc'[a] # "plug"
    <3>1. waiters' = waiters
      BY <1>8, <2>2 DEF Resume, EnterLoop, Reserve
    <3>2. Candidates' = Candidates
      BY <1>8, <3>1 DEF Resume, Candidates, listVars
    <3> QED
      BY <1>8, <3>2 DEF Calm, Resume, WillPlaces, CheckPlaces, ReplyPlaces, workVars,
         localVars, EnterLoop, Reserve
  <2> QED
    BY <2>1, <2>2
<1>9. ASSUME NEW a \in Apps, GiveUp(a) PROVE Calm
  BY <1>9 DEF Calm, Candidates, GiveUp, WillPlaces, CheckPlaces, ReplyPlaces, cacheVars,
     listVars, workVars, localVars
<1>9a. ASSUME NEW a \in Apps, Interrupted(a) PROVE Calm
  BY <1>9a DEF Calm, Candidates, Interrupted, WillPlaces, CheckPlaces, ReplyPlaces, cacheVars,
     listVars, workVars, localVars
<1>10. ASSUME NEW a \in Apps, ReleaseExtent(a) PROVE Calm
  BY <1>10 DEF Calm, Candidates, ReleaseExtent, WillPlaces, CheckPlaces, ReplyPlaces,
     cacheVars, listVars, workVars, localVars
<1>11. ASSUME NEW a \in Apps, ExitCache(a) PROVE Calm
  BY <1>11 DEF Calm, Candidates, ExitCache, WillPlaces, CheckPlaces, ReplyPlaces,
     cacheVars, listVars, workVars, localVars
<1>12. ASSUME NEW a \in Apps, UnreserveGrant(a) PROVE Calm
  BY <1>12 DEF Calm, Candidates, UnreserveGrant, WakeWaiters, WillPlaces, CheckPlaces,
     ReplyPlaces, cacheVars, listVars, workVars, localVars
<1>13. ASSUME NEW a \in Apps, FallBackToSync(a) PROVE Calm
  BY <1>13 DEF Calm, Candidates, FallBackToSync, QueueSync, WillPlaces, CheckPlaces,
     ReplyPlaces, cacheVars, listVars, workVars, localVars
<1>14. ASSUME NEW a \in Apps, QueueWork(a) PROVE WillCheck'
  BY <1>14 DEF QueueWork, WillCheck
<1>15. ASSUME NEW a \in Apps, DiscardFinish(a) PROVE Calm
  BY <1>15 DEF Calm, Candidates, DiscardFinish, FinishExtents, WakeWaiters, WillPlaces,
     CheckPlaces, ReplyPlaces, cacheVars, listVars, workVars, localVars
<1>16. ASSUME NEW a \in Apps, WaitTimesOut(a) PROVE Calm
  BY <1>16 DEF Calm, Candidates, WaitTimesOut, WillPlaces, CheckPlaces, ReplyPlaces,
     cacheVars, listVars, workVars, localVars
<1>17. ASSUME NEW p \in Ptlrpcds, RunWork(p) PROVE WillCheck'
  BY <1>17, WatchGained DEF RunWork, WillPlaces, CheckPlaces, ReplyPlaces
<1>18. ASSUME NEW p \in Ptlrpcds, NEW r \in Exts, Interpret(p, r) PROVE WillCheck'
  BY <1>18, WatchGained DEF Interpret, WillPlaces, CheckPlaces, ReplyPlaces
<1>19. ASSUME NEW p \in Ptlrpcds, Adjust(p) PROVE WillCheck'
  BY <1>19, WatchGained DEF Adjust, WillPlaces, CheckPlaces, ReplyPlaces
<1>20. ASSUME NEW p \in Ptlrpcds, Redo(p) PROVE WillCheck'
  <2>1. req[p] \in Exts /\ rpc[req[p]] \in Requests
    BY <1>20 DEF Redo, Owned, ReplyPlaces
  <2>2. rpc'[req[p]] = [rpc[req[p]] EXCEPT !.st = "wire", !.resends = @ + 1]
    BY <1>20, <2>1 DEF Redo
  <2>3. rpc'[req[p]].st = "wire"
    BY <2>1, <2>2, Resent
  <2> QED
    BY <2>1, <2>3 DEF WillCheck
<1>21. ASSUME NEW p \in Ptlrpcds, FinishRpc(p) PROVE WillCheck'
  BY <1>21, WatchGained DEF FinishRpc, WillPlaces, CheckPlaces, ReplyPlaces
<1>22. ASSUME NEW p \in Ptlrpcds, ReleaseSlot(p) PROVE WillCheck'
  BY <1>22, WatchGained DEF ReleaseSlot, WillPlaces, CheckPlaces, ReplyPlaces
<1>23. ASSUME NEW t \in Threads, CheckNext(t) PROVE WillCheck'
  BY <1>23, WatchGained DEF CheckNext, WillPlaces, CheckPlaces, ReplyPlaces
<1>24. ASSUME NEW t \in Threads, SendWrite(t) PROVE WillCheck'
  BY <1>24, WatchGained DEF SendWrite, Take, Skip, WillPlaces, CheckPlaces, ReplyPlaces
<1>25. ASSUME NEW t \in Threads, SendRead(t) PROVE WillCheck'
  BY <1>25, WatchGained DEF SendRead, Take, Skip, WillPlaces, CheckPlaces, ReplyPlaces
<1>26. ASSUME NEW t \in Threads, NEW e \in Exts, MakeReadyFails(t, e) PROVE WillCheck'
  BY <1>26, WatchGained DEF MakeReadyFails, WillPlaces, CheckPlaces, ReplyPlaces
<1>27. ASSUME NEW t \in Threads, BuildFails(t) PROVE WillCheck'
  BY <1>27, WatchGained DEF BuildFails, AfterBuild, WillPlaces, CheckPlaces, ReplyPlaces
<1>28. ASSUME NEW t \in Threads, BuildRpc(t) PROVE WillCheck'
  BY <1>28, WatchGained DEF BuildRpc, WillPlaces, CheckPlaces, ReplyPlaces
<1>29. ASSUME NEW t \in Threads, AddReq(t) PROVE WillCheck'
  BY <1>29, WatchGained DEF AddReq, WillPlaces, CheckPlaces
<1>30. ASSUME NEW t \in Threads, Relist(t) PROVE WillCheck'
  BY <1>30, WatchGained DEF Relist, WillPlaces, CheckPlaces, ReplyPlaces
<1>31. ASSUME Reconnect PROVE Calm
  BY <1>31 DEF Calm, Candidates, Reconnect, listVars, workVars, localVars, cacheVars
<1>32. ASSUME WriteMaxRpcs PROVE Calm
  BY <1>32 DEF Calm, Candidates, WriteMaxRpcs, listVars, workVars, localVars, cacheVars
<1>33. ASSUME UNCHANGED vars PROVE Calm
  BY <1>33 DEF Calm, Candidates, vars, cacheVars, listVars, workVars, localVars, cacheVars
<1> QED
  BY <1>1, <1>2, <1>3, <1>4, <1>5, <1>6, <1>7, <1>8, <1>9, <1>9a, <1>10, <1>11, <1>12, <1>13,
     <1>14, <1>15, <1>16, <1>17, <1>18, <1>19, <1>20, <1>21, <1>22, <1>23, <1>24, <1>25,
     <1>26, <1>27, <1>28, <1>29, <1>30, <1>31, <1>32, <1>33
  DEF Next, AppBegin, AppStep, Serve, ReplyStep, CheckStep, Finding

(* Every step keeps the watch. *)
LEMMA WatchStep == IInv /\ [Next]_vars => Watched'
<1> SUFFICES ASSUME IInv, [Next]_vars PROVE Watched'
  OBVIOUS
<1> USE ThreadsAssumption DEF IInv, Threads, Goto
<1>1. ASSUME NEW a \in Apps, PlugMaint(a) PROVE Watched'
  <2>1. PICK x \in Objs : x = obj[a] /\ ListMaint(x)
    BY <1>1 DEF PlugMaint, Places, CheckPlaces
  <2>2. CASE x \in hpList' \cup readyList'
    <3>1. pc'[a] \in {"queue", "check"}
      BY <1>1, <2>1, <2>2 DEF PlugMaint, TypeOK
    <3> QED
      BY <3>1, WatchGained DEF Watched, WillPlaces, CheckPlaces
  <2>3. CASE x \notin hpList' \cup readyList'
    <3>1. ~MakesWrite(x) /\ ~MakesRead(x)
      BY <2>1, <2>3 DEF ListMaint, OnList
    <3>2. /\ waiters' = waiters /\ valid' = valid /\ work' = work /\ rpc' = rpc
          /\ obj[a] = x /\ pc[a] \in {"maint", "flush"} /\ pc' = [pc EXCEPT ![a] = "idle"]
          /\ \A b \in Apps \ {a} : obj'[b] = obj[b]
      BY <1>1, <2>1, <2>3 DEF PlugMaint, TypeOK, cacheVars, workVars
    <3>3. x \notin Candidates'
      BY <2>1, <2>3, <3>1, <3>2 DEF ListMaint, OnList, Candidates, MakesWrite, MakesRead
    <3>4. \A o \in Candidates' : o \in Candidates /\ o # x
      BY <2>1, <3>2, <3>3 DEF ListMaint, OnList, Candidates
    <3>5. WillCheck => WillCheck'
      BY <3>2 DEF WillCheck, TypeOK, CheckPlaces, ReplyPlaces
    <3>6. \A o : o # x /\ Bringing(o) => Bringing(o)'
      BY <3>2 DEF Bringing, TypeOK
    <3> QED
      BY <3>4, <3>5, <3>6 DEF Watched
  <2> QED
    BY <2>2, <2>3
<1>2. ASSUME NEW a \in Apps, DiscardMaint(a) PROVE Watched'
  <2>1. PICK x \in Objs : x = obj[a] /\ ListMaint(x)
    BY <1>2 DEF DiscardMaint, Places
  <2>2. /\ UNCHANGED <<waiters, valid, work, rpc, est>>
        /\ pc[a] = "discard" /\ pc' = [pc EXCEPT ![a] = "drop"]
        /\ \A b \in Apps \ {a} : obj'[b] = obj[b]
    BY <1>2 DEF DiscardMaint, TypeOK, cacheVars, workVars
  <2>3. WillCheck => WillCheck'
    BY <2>2 DEF WillCheck, TypeOK, CheckPlaces, ReplyPlaces
  <2>4. \A o : Bringing(o) => Bringing(o)'
    BY <2>2 DEF Bringing, TypeOK
  <2>5. x \in Candidates' => Eligible(x)
    BY <2>1, <2>2 DEF ListMaint, OnList, Candidates, Eligible, MakesWrite, MakesRead
  <2>6. \A o \in Candidates' \ {x} : o \in Candidates
    BY <2>1, <2>2 DEF ListMaint, OnList, Candidates
  <2>7. Eligible(x) => WillCheck \/ Bringing(x)
    BY NothingStranded DEF NoStrandedWork, Bringing
  <2> QED
    BY <2>3, <2>4, <2>5, <2>6, <2>7 DEF Watched
<1>3. ASSUME NEW t \in Threads, CheckEmpty(t) PROVE Watched'
  <2>1. Candidates = {}
    BY <1>3 DEF CheckEmpty, NextObjs, Candidates
  <2>2. Candidates' = Candidates
    BY <1>3 DEF CheckEmpty, Candidates, cacheVars, listVars
  <2> QED
    BY <2>1, <2>2 DEF Watched
<1>4. ASSUME NEW t \in Threads, CheckFull(t) PROVE Watched'
  <2>1. InFlight >= 1
    <3>1. PICK o \in NextObjs : WindowFull(o)
      BY <1>4 DEF CheckFull
    <3>2. window \in Int /\ window >= 1 /\ InFlight \in Int
      BY LimitsAssumption DEF TypeOK, InFlight, Cmds
    <3>3. InFlight >= window
      <4>1. CASE HasHp(o)
        BY <3>1, <3>2, <4>1 DEF WindowFull
      <4>2. CASE ~HasHp(o)
        BY <3>1, <3>2, <4>2 DEF WindowFull
      <4> QED
        BY <4>1, <4>2
    <3> QED
      BY <3>2, <3>3
  <2>2. /\ rpc' = rpc /\ pc[t] \notin HandPlaces
        /\ \A u \in Threads \ {t} : pc'[u] = pc[u]
    BY <1>4 DEF CheckFull, CheckDone, HandPlaces, AddPlaces, ReplyPlaces, TypeOK
  <2>3. WillCheck'
    BY <2>1, <2>2, LiveRequestWatched
    DEF WillCheck, HandPlaces, AddPlaces, ReplyPlaces, CheckPlaces
  <2> QED
    BY <2>3 DEF Watched
<1>5. CASE ~Finding
  <2>1. WillCheck' \/ Calm
    BY <1>5, OtherStepsWatch
  <2> QED
    BY <2>1, WatchKept DEF Watched
<1> QED
  BY <1>1, <1>2, <1>3, <1>4, <1>5 DEF Finding

(* The inductive invariant.                                                *)
LEMMA EngineInvariance == Spec => []IInv
<1>1. Init => IInv
  <2> SUFFICES ASSUME Init PROVE IInv
    OBVIOUS
  <2>1. TypeOK /\ Owned /\ SlotsConserved
    BY InitTypes, InitSlots
  <2>2. \A t \in Threads : pc[t] = "idle"
    BY DEF Init
  <2>3. Places
    BY <2>2 DEF Places, AppPlaces, CheckPlaces, ReplyPlaces
  <2>4. \A o : Writes(o) = {} /\ ~Pressing(o)
    <3>1. \A o : Writes(o) = {} /\ Reads(o) = {}
      BY DEF Init, Writes, Reads
    <3> QED
      BY <3>1, FS_EmptySet, LimitsAssumption DEF Pressing, MakesRead
  <2>5. Candidates = {}
    BY DEF Init, Candidates
  <2> QED
    BY <2>1, <2>3, <2>4, <2>5 DEF IInv, Listed, Queued, Watched
<1>2. IInv /\ [Next]_vars => IInv'
  BY TypeStep, PlacesStep, SlotsStep, ListsStep, WatchStep DEF IInv
<1> QED
  BY <1>1, <1>2, PTL DEF Spec

(* An object that could make an RPC is never left behind.                  *)
THEOREM NothingIsStranded == Spec => []NoStrandedWork
<1>1. IInv => NoStrandedWork
  BY NothingStranded DEF IInv
<1> QED
  BY <1>1, EngineInvariance, PTL

----------------------------------------------------------------------------
(***************************************************************************)
(* The engine and the controller.  WindowUpdate implements WindowRegister; *)
(* what the engine sees of its window is that register, for a single       *)
(* client and a cap on the dirty pages that no window reaches.             *)
(***************************************************************************)
Cap == InitDirtyMax + MaxRif * MaxPages
Register == INSTANCE WindowRegister
    WITH Devs <- {"osc"}, DirtyCap <- Cap,
         window <- [d \in {"osc"} |-> window], dirtyMax <- [d \in {"osc"} |-> dirtyMax]

\* No window asks for more than the cap.
LEMMA BelowCap ==
    /\ Cap \in Nat /\ InitDirtyMax <= Cap
    /\ \A w \in 1 .. MaxRif : w * MaxPages \in Nat /\ w * MaxPages <= Cap
<1>1. MaxPages \in Nat /\ MaxRif \in Nat /\ InitDirtyMax \in Nat /\ MaxRif * MaxPages \in Nat
  BY LimitsAssumption
<1>2. ASSUME NEW w \in 1 .. MaxRif PROVE w * MaxPages \in Nat /\ w * MaxPages <= Cap
  <2>1. w \in Nat /\ w <= MaxRif /\ w * MaxPages \in Nat
    BY <1>1, WindowPages
  <2>2. w * MaxPages <= MaxRif * MaxPages
    BY <1>1, <2>1, Z3
  <2> QED
    BY <1>1, <2>1, <2>2 DEF Cap
<1> QED
  BY <1>1, <1>2 DEF Cap

(* A write of the register is any step by which the engine lets qos_adjust *)
(* or the procfs handler set the window, and the other way round: what is  *)
(* proved of the engine holds whatever the controller writes.              *)
LEMMA WritesAreSetWindow ==
    ASSUME TypeOK
    PROVE  Register!Write("osc") <=> \E w \in 1 .. MaxRif : SetWindow(w)
<1> DEFINE W == [d \in {"osc"} |-> window]
           D == [d \in {"osc"} |-> dirtyMax]
<1>1. /\ \A v : W' = [W EXCEPT !["osc"] = v] <=> window' = v
      /\ \A v : D' = [D EXCEPT !["osc"] = v] <=> dirtyMax' = v
      /\ D["osc"] = dirtyMax /\ (D' = D <=> dirtyMax' = dirtyMax)
  OBVIOUS
<1>2. dirtyMax \in Nat
  BY DEF TypeOK
<1>3. ASSUME NEW w \in 1 .. MaxRif PROVE Register!Needed(w) = w * MaxPages
  BY BelowCap DEF Register!Needed
<1>4. Register!Write("osc") <=> \E w \in 1 .. MaxRif :
          /\ W' = [W EXCEPT !["osc"] = w]
          /\ \/ D["osc"] < w * MaxPages /\ D' = [D EXCEPT !["osc"] = w * MaxPages]
             \/ D["osc"] >= w * MaxPages /\ D' = D
  BY <1>3 DEF Register!Write
<1> HIDE DEF W, D
<1>5. ASSUME NEW w \in 1 .. MaxRif
      PROVE  (/\ W' = [W EXCEPT !["osc"] = w]
              /\ \/ D["osc"] < w * MaxPages /\ D' = [D EXCEPT !["osc"] = w * MaxPages]
                 \/ D["osc"] >= w * MaxPages /\ D' = D) <=> SetWindow(w)
  BY <1>1, <1>2, BelowCap DEF SetWindow
<1> QED
  BY <1>4, <1>5

(* Nothing in the engine moves the window or the dirty limit but such a    *)
(* write: the promise that the controller keeps (WindowImplementsRegister) *)
(* is all that the engine takes from it.                                   *)
THEOREM EngineReadsRegister == Spec => Register!Spec
<1>1. Init => Register!Init
  BY BelowCap, LimitsAssumption DEF Init, Register!Init
<1>2. TypeOK /\ [Next]_vars => [Register!Next]_<<[d \in {"osc"} |-> window], [d \in {"osc"} |-> dirtyMax]>>
  <2> SUFFICES ASSUME TypeOK, [Next]_vars
               PROVE  [Register!Next]_<<[d \in {"osc"} |-> window], [d \in {"osc"} |-> dirtyMax]>>
    OBVIOUS
  <2>1. UNCHANGED <<window, dirtyMax>> \/ \E w \in 1 .. MaxRif : SetWindow(w)
    <3>1. CASE UNCHANGED vars
      BY <3>1 DEF vars, cacheVars
    <3>2. ASSUME NEW a \in Apps, AppBegin(a) \/ AppStep(a) \/ WaitTimesOut(a)
          PROVE  UNCHANGED <<window, dirtyMax>>
      <4>1. ASSUME NEW e \in Exts,
                   \/ EnterCache(a, e) \/ SubmitSync(a, e) \/ FlushPage(a, e)
                   \/ WritebackRange(a, e) \/ DiscardRange(a, e)
            PROVE  UNCHANGED <<window, dirtyMax>>
        BY <4>1 DEF EnterCache, SubmitSync, QueueSync, FlushPage, WritebackRange, DiscardRange,
                    cacheVars
      <4>2. ASSUME AppStep(a) PROVE UNCHANGED <<window, dirtyMax>>
        BY <4>2 DEF AppStep, PlugForSpace, Resume, GiveUp, Interrupted, ReleaseExtent, ExitCache,
                    UnreserveGrant, FallBackToSync, QueueSync, PlugMaint, QueueWork, DiscardMaint,
                    DiscardFinish, cacheVars
      <4> QED
        BY <3>2, <4>1, <4>2 DEF AppBegin, Invalidate, WaitTimesOut, cacheVars
    <3>3. ASSUME NEW p \in Ptlrpcds, Serve(p) \/ ReplyStep(p)
          PROVE  UNCHANGED <<window, dirtyMax>> \/ \E w \in 1 .. MaxRif : SetWindow(w)
      BY <3>3 DEF Serve, ReplyStep, RunWork, Interpret, Adjust, Redo, FinishRpc, ReleaseSlot,
                  cacheVars
    <3>4. ASSUME NEW t \in Threads, CheckStep(t)
          PROVE  UNCHANGED <<window, dirtyMax>>
      BY <3>4 DEF CheckStep, CheckEmpty, CheckFull, CheckNext, SendWrite, SendRead, Take, Skip,
                  MakeReadyFails, BuildFails, BuildRpc, AddReq, Relist, cacheVars
    <3>5. CASE Reconnect
      BY <3>5 DEF Reconnect, cacheVars
    <3>6. CASE WriteMaxRpcs
      BY <3>6 DEF WriteMaxRpcs
    <3> QED
      BY <3>1, <3>2, <3>3, <3>4, <3>5, <3>6 DEF Next
  <2>2. CASE UNCHANGED <<window, dirtyMax>>
    BY <2>2
  <2>3. CASE \E w \in 1 .. MaxRif : SetWindow(w)
    BY <2>3, WritesAreSetWindow DEF Register!Next
  <2> QED
    BY <2>1, <2>2, <2>3
<1> QED
  BY <1>1, <1>2, TypeCorrect, PTL DEF Spec, Register!Spec
=============================================================================
