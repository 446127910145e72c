--------------------------- MODULE OscPages_proofs ---------------------------
(***************************************************************************)
(* What OscWindow does with pages, for any number of threads, objects and  *)
(* extents: an extent off the queues is in one hand only, a slot is freed  *)
(* when its extents are finished, the dirty limit holds, and a waiter for  *)
(* cache space is not forgotten unless a granted page was lost.            *)
(***************************************************************************)
EXTENDS OscWindow_proofs

(* Where a thread has reserved a page, and where it has taken extents.     *)
Waiting == {"plug", "wait", "timedout", "granted", "sync"}
Carrying == {"build_write", "build_read", "discard", "drop"}

(* A held extent is held by one thread, in a place where extents are held,  *)
(* and its state says so; what a request carries is its own and not held;  *)
(* what is off the queues is found again; replies release finished extents.*)
Apart == \A t, u \in Threads : t # u => hold[t] \cap hold[u] = {}
InPlace == \A t \in Threads : hold[t] # {} => pc[t] \in Waiting \cup Carrying
Reserved ==
    \A t \in Threads : pc[t] \in Waiting =>
        \A e \in hold[t] : est[e] = "active" /\ \A f \in hold[t] : f = e
Carried ==
    \A t \in Threads : pc[t] \in Carrying => \A e \in hold[t] : est[e] = "rpc"
Sent ==
    \A r \in Exts : \A e \in rpc[r].exts :
        /\ rpc[r].st # "free" /\ est[e] \in {"rpc", "done"}
        /\ \A s \in Exts : e \in rpc[s].exts => s = r
        /\ \A t \in Threads : e \notin hold[t]
Found ==
    \A e \in Exts : est[e] = "rpc" =>
        \/ \E t \in Threads : pc[t] \in Carrying /\ e \in hold[t]
        \/ \E r \in Exts : e \in rpc[r].exts
Finished ==
    \A p \in Threads : pc[p] = "release" =>
        \A e \in rpc[req[p]].exts : est[e] = "done"
Pages == Apart /\ InPlace /\ Reserved /\ Carried /\ Sent /\ Found /\ Finished

(* Steps that change nothing of this.                                      *)
PagesQuiet ==
    /\ est' = est /\ hold' = hold
    /\ \A r \in Exts : /\ rpc'[r].exts = rpc[r].exts
                       /\ rpc'[r].st = "free" <=> rpc[r].st = "free"
    /\ \A t \in Threads :
          /\ pc'[t] \in Waiting <=> pc[t] \in Waiting
          /\ pc'[t] \in Carrying <=> pc[t] \in Carrying
          /\ pc'[t] = "release" => pc[t] = "release" /\ req'[t] = req[t]

(* Such steps keep every part of Pages.                                    *)
LEMMA QuietPages ==
    ASSUME TypeOK, Owned, Pages, PagesQuiet PROVE Pages'
<1>1. \A t \in Threads : pc[t] = "release" => req[t] \in Exts
  BY DEF Owned, ReplyPlaces
<1> QED
  BY <1>1 DEF Pages, PagesQuiet, Apart, InPlace, Reserved, Carried, Sent, Found, Finished

(* The steps that take extents up, move them or finish them.               *)
PagesMove ==
    \/ \E a \in Apps :
        \/ \E e \in Exts :
            \/ EnterCache(a, e) \/ SubmitSync(a, e) \/ FlushPage(a, e)
            \/ WritebackRange(a, e) \/ DiscardRange(a, e)
        \/ Interrupted(a) \/ ReleaseExtent(a) \/ ExitCache(a)
        \/ FallBackToSync(a) \/ DiscardFinish(a)
    \/ \E p \in Ptlrpcds : FinishRpc(p) \/ ReleaseSlot(p)
    \/ \E t \in Threads :
        \/ SendWrite(t) \/ SendRead(t) \/ BuildFails(t) \/ BuildRpc(t)
        \/ \E e \in Exts : MakeReadyFails(t, e)

(* All other steps are quiet.                                              *)
LEMMA OtherStepsMoveNoPage ==
    ASSUME TypeOK, Owned, [Next]_vars, ~PagesMove PROVE PagesQuiet
<1> USE ThreadsAssumption
    DEF Goto, Threads, Waiting, Carrying, localVars, workVars, cacheVars, listVars
<1>1. ASSUME NEW a \in Apps, PlugForSpace(a) PROVE PagesQuiet
  BY <1>1 DEF PagesQuiet, PlugForSpace, TypeOK
<1>2. ASSUME NEW a \in Apps, Resume(a) PROVE PagesQuiet
  BY <1>2 DEF PagesQuiet, Resume, EnterLoop, Reserve, TypeOK
<1>3. ASSUME NEW a \in Apps, GiveUp(a) PROVE PagesQuiet
  BY <1>3 DEF PagesQuiet, GiveUp, TypeOK
<1>4. ASSUME NEW a \in Apps, UnreserveGrant(a) PROVE PagesQuiet
  BY <1>4 DEF PagesQuiet, UnreserveGrant, TypeOK
<1>5. ASSUME NEW a \in Apps, PlugMaint(a) PROVE PagesQuiet
  BY <1>5 DEF PagesQuiet, PlugMaint, TypeOK
<1>6. ASSUME NEW a \in Apps, QueueWork(a) PROVE PagesQuiet
  BY <1>6 DEF PagesQuiet, QueueWork, TypeOK
<1>7. ASSUME NEW a \in Apps, DiscardMaint(a) PROVE PagesQuiet
  BY <1>7 DEF PagesQuiet, DiscardMaint, TypeOK
<1>8. ASSUME NEW a \in Apps, WaitTimesOut(a) PROVE PagesQuiet
  BY <1>8 DEF PagesQuiet, WaitTimesOut, TypeOK
<1>9. ASSUME NEW a \in Apps, Invalidate(a) PROVE PagesQuiet
  BY <1>9 DEF PagesQuiet, Invalidate, TypeOK
<1>10. ASSUME NEW p \in Ptlrpcds, RunWork(p) PROVE PagesQuiet
  BY <1>10 DEF PagesQuiet, RunWork, TypeOK
<1>11. ASSUME NEW p \in Ptlrpcds, NEW r \in Exts, Interpret(p, r) PROVE PagesQuiet
  <2> DEFINE y == [rpc[r] EXCEPT !.st = "reply"]
  <2>1. rpc' = [rpc EXCEPT ![r] = y] /\ rpc[r].st = "wire"
    BY <1>11 DEF Interpret, TypeOK
  <2>2. y.st = "reply" /\ y.exts = rpc[r].exts
    BY Restate DEF TypeOK, RpcStates
  <2> HIDE DEF y
  <2>3. \A s \in Exts : /\ rpc'[s].exts = rpc[s].exts
                        /\ rpc'[s].st = "free" <=> rpc[s].st = "free"
    BY <2>1, <2>2 DEF TypeOK
  <2> QED
    BY <1>11, <2>3 DEF PagesQuiet, Interpret, TypeOK
<1>12. ASSUME NEW p \in Ptlrpcds, Adjust(p) PROVE PagesQuiet
  BY <1>12 DEF PagesQuiet, Adjust, TypeOK
<1>13. ASSUME NEW p \in Ptlrpcds, Redo(p) PROVE PagesQuiet
  <2>1. req[p] \in Exts /\ rpc[req[p]].st = "reply"
    BY <1>13 DEF Redo, Owned, ReplyPlaces
  <2>2. rpc' = [rpc EXCEPT ![req[p]] = [rpc[req[p]] EXCEPT !.st = "wire", !.resends = @ + 1]]
    BY <1>13 DEF Redo, TypeOK
  <2>3. \A r \in Exts : /\ rpc'[r].exts = rpc[r].exts
                        /\ rpc'[r].st = "free" <=> rpc[r].st = "free"
    BY <2>1, <2>2, Resent DEF TypeOK
  <2> QED
    BY <1>13, <2>3 DEF PagesQuiet, Redo, TypeOK
<1>14. ASSUME NEW t \in Threads, CheckEmpty(t) PROVE PagesQuiet
  BY <1>14 DEF PagesQuiet, CheckEmpty, CheckDone, TypeOK
<1>15. ASSUME NEW t \in Threads, CheckFull(t) PROVE PagesQuiet
  BY <1>15 DEF PagesQuiet, CheckFull, CheckDone, TypeOK
<1>16. ASSUME NEW t \in Threads, CheckNext(t) PROVE PagesQuiet
  BY <1>16 DEF PagesQuiet, CheckNext, TypeOK
<1>17. ASSUME NEW t \in Threads, AddReq(t) PROVE PagesQuiet
  <2>1. req[t] \in Exts /\ rpc[req[t]].st = "built"
    BY <1>17 DEF AddReq, Owned, AddPlaces
  <2> DEFINE y == [rpc[req[t]] EXCEPT !.st = "wire"]
  <2>2. rpc' = [rpc EXCEPT ![req[t]] = y]
    BY <1>17, <2>1 DEF AddReq, TypeOK
  <2>3. y.st = "wire" /\ y.exts = rpc[req[t]].exts
    BY <2>1, Restate DEF TypeOK, RpcStates
  <2> HIDE DEF y
  <2>4. \A r \in Exts : /\ rpc'[r].exts = rpc[r].exts
                        /\ rpc'[r].st = "free" <=> rpc[r].st = "free"
    BY <2>1, <2>2, <2>3 DEF TypeOK
  <2> QED
    BY <1>17, <2>4 DEF PagesQuiet, AddReq, TypeOK
<1>18. ASSUME NEW t \in Threads, Relist(t) PROVE PagesQuiet
  BY <1>18 DEF PagesQuiet, Relist, TypeOK
<1>19. CASE Reconnect \/ WriteMaxRpcs \/ UNCHANGED vars
  BY <1>19 DEF PagesQuiet, Reconnect, WriteMaxRpcs, vars
<1>20. CASE \E a \in Apps : AppBegin(a) \/ AppStep(a) \/ WaitTimesOut(a)
  <2>1. PICK a \in Apps : AppBegin(a) \/ AppStep(a) \/ WaitTimesOut(a)
    BY <1>20
  <2> QED
    BY <1>1, <1>2, <1>3, <1>4, <1>5, <1>6, <1>7, <1>8, <1>9, <2>1
    DEF AppBegin, AppStep, PagesMove
<1>21. CASE \E p \in Ptlrpcds : Serve(p) \/ ReplyStep(p)
  BY <1>10, <1>11, <1>12, <1>13, <1>21 DEF Serve, ReplyStep, PagesMove
<1>22. CASE \E t \in Threads : CheckStep(t)
  BY <1>14, <1>15, <1>16, <1>17, <1>18, <1>22 DEF CheckStep, PagesMove
<1> QED
  BY <1>19, <1>20, <1>21, <1>22 DEF Next

(* osc_extent_finish and the states of extents.                            *)
LEMMA FinishDone ==
    ASSUME NEW F, FinishExtents(F)
    PROVE  est' = [e \in Exts |-> IF e \in F THEN "done" ELSE est[e]]
BY DEF FinishExtents

(* Requests keep their extents when no request changes, no extent comes    *)
(* back from its RPC, and threads take up extents from the queues only.    *)
LEMMA SentKept ==
    ASSUME TypeOK, Owned, Pages, rpc' = rpc, req' = req,
           \A e \in Exts : /\ est[e] = "rpc" => est'[e] \in {"rpc", "done"}
                           /\ est[e] = "done" => est'[e] = "done",
           \A t \in Threads :
               /\ pc'[t] = "release" => pc[t] = "release"
               /\ \A e \in hold'[t] : e \in hold[t] \/ est[e] \notin {"rpc", "done"}
    PROVE  Sent' /\ Finished'
<1>1. \A r \in Exts : rpc[r].exts \subseteq Exts
  BY DEF TypeOK, Requests
<1>2. \A t \in Threads : pc[t] = "release" => req[t] \in Exts
  BY DEF Owned, ReplyPlaces
<1> QED
  BY <1>1, <1>2 DEF Pages, Sent, Finished

(* Every step keeps Pages, action by action.                               *)
LEMMA PagesStep == TypeOK /\ Places /\ Owned /\ Pages /\ [Next]_vars => Pages'
<1> SUFFICES ASSUME TypeOK, Places, Owned, Pages, [Next]_vars PROVE Pages'
    OBVIOUS
<1> USE ThreadsAssumption
    DEF Goto, Threads, Waiting, Carrying, localVars, workVars, cacheVars, listVars
<1>1. ASSUME NEW a \in Apps, NEW e \in Exts, EnterCache(a, e) PROVE Pages'
  <2>1. Apart'
    BY <1>1
    DEF Pages, Apart, InPlace, Reserved, Carried, EnterCache, EnterLoop, ForceSync, Reserve,
        TypeOK
  <2>2. InPlace'
    BY <1>1 DEF Pages, InPlace, EnterCache, EnterLoop, ForceSync, Reserve, TypeOK
  <2>3. Reserved'
    BY <1>1 DEF Pages, Reserved, EnterCache, EnterLoop, ForceSync, Reserve, TypeOK
  <2>4. Carried'
    BY <1>1 DEF Pages, Carried, EnterCache, EnterLoop, ForceSync, Reserve, TypeOK
  <2>5. Found'
    BY <1>1 DEF Pages, Found, EnterCache, EnterLoop, ForceSync, Reserve, TypeOK
  <2>6. /\ rpc' = rpc /\ req' = req
        /\ \A u \in Threads : pc'[u] = "release" => pc[u] = "release"
    BY <1>1 DEF EnterCache, EnterLoop, ForceSync, Reserve, TypeOK
  <2>7. \A f \in Exts : /\ est[f] = "rpc" => est'[f] \in {"rpc", "done"}
                        /\ est[f] = "done" => est'[f] = "done"
    BY <1>1, FinishDone DEF EnterCache, EnterLoop, ForceSync, Reserve, TypeOK, Pages, Reserved
  <2>8. \A u \in Threads : \A f \in hold'[u] :
            f \in hold[u] \/ est[f] \notin {"rpc", "done"}
    BY <1>1 DEF EnterCache, EnterLoop, ForceSync, Reserve, TypeOK
  <2>9. Sent' /\ Finished'
    BY <2>6, <2>7, <2>8, SentKept
  <2> QED
    BY <2>1, <2>2, <2>3, <2>4, <2>5, <2>9 DEF Pages
<1>2. ASSUME NEW a \in Apps, NEW e \in Exts, SubmitSync(a, e) PROVE Pages'
  <2>1. Apart'
    BY <1>2 DEF Pages, Apart, SubmitSync, QueueSync, TypeOK
  <2>2. InPlace'
    BY <1>2 DEF Pages, InPlace, SubmitSync, QueueSync, TypeOK
  <2>3. Reserved'
    BY <1>2 DEF Pages, Reserved, SubmitSync, QueueSync, TypeOK
  <2>4. Carried'
    BY <1>2 DEF Pages, Carried, SubmitSync, QueueSync, TypeOK
  <2>5. Found'
    BY <1>2 DEF Pages, Found, SubmitSync, QueueSync, TypeOK
  <2>6. /\ rpc' = rpc /\ req' = req
        /\ \A u \in Threads : pc'[u] = "release" => pc[u] = "release"
    BY <1>2 DEF SubmitSync, QueueSync, TypeOK
  <2>7. \A f \in Exts : /\ est[f] = "rpc" => est'[f] \in {"rpc", "done"}
                        /\ est[f] = "done" => est'[f] = "done"
    BY <1>2, FinishDone DEF SubmitSync, QueueSync, TypeOK, Pages, Reserved
  <2>8. \A u \in Threads : \A f \in hold'[u] :
            f \in hold[u] \/ est[f] \notin {"rpc", "done"}
    BY <1>2 DEF SubmitSync, QueueSync, TypeOK
  <2>9. Sent' /\ Finished'
    BY <2>6, <2>7, <2>8, SentKept
  <2> QED
    BY <2>1, <2>2, <2>3, <2>4, <2>5, <2>9 DEF Pages
<1>3. ASSUME NEW a \in Apps, NEW e \in Exts, FlushPage(a, e) PROVE Pages'
  <2>1. Apart'
    BY <1>3 DEF Pages, Apart, FlushPage, TypeOK
  <2>2. InPlace'
    BY <1>3 DEF Pages, InPlace, FlushPage, TypeOK
  <2>3. Reserved'
    BY <1>3 DEF Pages, Reserved, FlushPage, TypeOK
  <2>4. Carried'
    BY <1>3 DEF Pages, Carried, FlushPage, TypeOK
  <2>5. Found'
    BY <1>3 DEF Pages, Found, FlushPage, TypeOK
  <2>6. /\ rpc' = rpc /\ req' = req
        /\ \A u \in Threads : pc'[u] = "release" => pc[u] = "release"
    BY <1>3 DEF FlushPage, TypeOK
  <2>7. \A f \in Exts : /\ est[f] = "rpc" => est'[f] \in {"rpc", "done"}
                        /\ est[f] = "done" => est'[f] = "done"
    BY <1>3, FinishDone DEF FlushPage, TypeOK, Pages, Reserved
  <2>8. \A u \in Threads : \A f \in hold'[u] :
            f \in hold[u] \/ est[f] \notin {"rpc", "done"}
    BY <1>3 DEF FlushPage, TypeOK
  <2>9. Sent' /\ Finished'
    BY <2>6, <2>7, <2>8, SentKept
  <2> QED
    BY <2>1, <2>2, <2>3, <2>4, <2>5, <2>9 DEF Pages
<1>4. ASSUME NEW a \in Apps, NEW e \in Exts, WritebackRange(a, e) PROVE Pages'
  <2>1. Apart'
    BY <1>4 DEF Pages, Apart, WritebackRange, TypeOK
  <2>2. InPlace'
    BY <1>4 DEF Pages, InPlace, WritebackRange, TypeOK
  <2>3. Reserved'
    BY <1>4 DEF Pages, Reserved, WritebackRange, TypeOK
  <2>4. Carried'
    BY <1>4 DEF Pages, Carried, WritebackRange, TypeOK
  <2>5. Found'
    BY <1>4 DEF Pages, Found, WritebackRange, TypeOK
  <2>6. /\ rpc' = rpc /\ req' = req
        /\ \A u \in Threads : pc'[u] = "release" => pc[u] = "release"
    BY <1>4 DEF WritebackRange, TypeOK
  <2>7. \A f \in Exts : /\ est[f] = "rpc" => est'[f] \in {"rpc", "done"}
                        /\ est[f] = "done" => est'[f] = "done"
    BY <1>4, FinishDone DEF WritebackRange, TypeOK, Pages, Reserved
  <2>8. \A u \in Threads : \A f \in hold'[u] :
            f \in hold[u] \/ est[f] \notin {"rpc", "done"}
    BY <1>4 DEF WritebackRange, TypeOK
  <2>9. Sent' /\ Finished'
    BY <2>6, <2>7, <2>8, SentKept
  <2> QED
    BY <2>1, <2>2, <2>3, <2>4, <2>5, <2>9 DEF Pages
<1>5. ASSUME NEW a \in Apps, NEW e \in Exts, DiscardRange(a, e) PROVE Pages'
  <2>1. Apart'
    BY <1>5 DEF Pages, Apart, InPlace, Reserved, Carried, DiscardRange, TypeOK
  <2>2. InPlace'
    BY <1>5 DEF Pages, InPlace, DiscardRange, TypeOK
  <2>3. Reserved'
    BY <1>5 DEF Pages, Reserved, DiscardRange, TypeOK
  <2>4. Carried'
    BY <1>5 DEF Pages, Carried, DiscardRange, TypeOK
  <2>5. Found'
    BY <1>5 DEF Pages, Found, DiscardRange, TypeOK
  <2>6. /\ rpc' = rpc /\ req' = req
        /\ \A u \in Threads : pc'[u] = "release" => pc[u] = "release"
    BY <1>5 DEF DiscardRange, TypeOK
  <2>7. \A f \in Exts : /\ est[f] = "rpc" => est'[f] \in {"rpc", "done"}
                        /\ est[f] = "done" => est'[f] = "done"
    BY <1>5, FinishDone DEF DiscardRange, TypeOK, Pages, Reserved
  <2>8. \A u \in Threads : \A f \in hold'[u] :
            f \in hold[u] \/ est[f] \notin {"rpc", "done"}
    BY <1>5 DEF DiscardRange, TypeOK
  <2>9. Sent' /\ Finished'
    BY <2>6, <2>7, <2>8, SentKept
  <2> QED
    BY <2>1, <2>2, <2>3, <2>4, <2>5, <2>9 DEF Pages
<1>6. ASSUME NEW a \in Apps, Interrupted(a) PROVE Pages'
  <2>1. Apart'
    BY <1>6 DEF Pages, Apart, Interrupted, TypeOK
  <2>2. InPlace'
    BY <1>6 DEF Pages, InPlace, Interrupted, TypeOK
  <2>3. Reserved'
    BY <1>6 DEF Pages, Apart, Reserved, Interrupted, TypeOK
  <2>4. Carried'
    BY <1>6 DEF Pages, Apart, Carried, Interrupted, TypeOK
  <2>5. Found'
    BY <1>6 DEF Pages, Found, Interrupted, TypeOK
  <2>6. /\ rpc' = rpc /\ req' = req
        /\ \A u \in Threads : pc'[u] = "release" => pc[u] = "release"
    BY <1>6 DEF Interrupted, TypeOK
  <2>7. \A f \in Exts : /\ est[f] = "rpc" => est'[f] \in {"rpc", "done"}
                        /\ est[f] = "done" => est'[f] = "done"
    BY <1>6, FinishDone DEF Interrupted, TypeOK, Pages, Reserved
  <2>8. \A u \in Threads : \A f \in hold'[u] :
            f \in hold[u] \/ est[f] \notin {"rpc", "done"}
    BY <1>6 DEF Interrupted, TypeOK
  <2>9. Sent' /\ Finished'
    BY <2>6, <2>7, <2>8, SentKept
  <2> QED
    BY <2>1, <2>2, <2>3, <2>4, <2>5, <2>9 DEF Pages
<1>7. ASSUME NEW a \in Apps, ReleaseExtent(a) PROVE Pages'
  <2>1. Apart'
    BY <1>7 DEF Pages, Apart, ReleaseExtent, TypeOK
  <2>2. InPlace'
    BY <1>7 DEF Pages, InPlace, ReleaseExtent, TypeOK
  <2>3. Reserved'
    BY <1>7 DEF Pages, Apart, Reserved, ReleaseExtent, TypeOK
  <2>4. Carried'
    BY <1>7 DEF Pages, Apart, Carried, ReleaseExtent, TypeOK
  <2>5. Found'
    BY <1>7 DEF Pages, Found, ReleaseExtent, TypeOK
  <2>6. /\ rpc' = rpc /\ req' = req
        /\ \A u \in Threads : pc'[u] = "release" => pc[u] = "release"
    BY <1>7 DEF ReleaseExtent, TypeOK
  <2>7. \A f \in Exts : /\ est[f] = "rpc" => est'[f] \in {"rpc", "done"}
                        /\ est[f] = "done" => est'[f] = "done"
    BY <1>7, FinishDone DEF ReleaseExtent, TypeOK, Pages, Reserved
  <2>8. \A u \in Threads : \A f \in hold'[u] :
            f \in hold[u] \/ est[f] \notin {"rpc", "done"}
    BY <1>7 DEF ReleaseExtent, TypeOK
  <2>9. Sent' /\ Finished'
    BY <2>6, <2>7, <2>8, SentKept
  <2> QED
    BY <2>1, <2>2, <2>3, <2>4, <2>5, <2>9 DEF Pages
<1>8. ASSUME NEW a \in Apps, ExitCache(a) PROVE Pages'
  <2>1. Apart'
    BY <1>8 DEF Pages, Apart, ExitCache, TypeOK
  <2>2. InPlace'
    BY <1>8 DEF Pages, InPlace, ExitCache, TypeOK
  <2>3. Reserved'
    BY <1>8 DEF Pages, Apart, Reserved, ExitCache, TypeOK
  <2>4. Carried'
    BY <1>8 DEF Pages, Apart, Carried, ExitCache, TypeOK
  <2>5. Found'
    BY <1>8 DEF Pages, Found, ExitCache, TypeOK
  <2>6. /\ rpc' = rpc /\ req' = req
        /\ \A u \in Threads : pc'[u] = "release" => pc[u] = "release"
    BY <1>8 DEF ExitCache, TypeOK
  <2>7. \A f \in Exts : /\ est[f] = "rpc" => est'[f] \in {"rpc", "done"}
                        /\ est[f] = "done" => est'[f] = "done"
    BY <1>8, FinishDone DEF ExitCache, TypeOK, Pages, Reserved
  <2>8. \A u \in Threads : \A f \in hold'[u] :
            f \in hold[u] \/ est[f] \notin {"rpc", "done"}
    BY <1>8 DEF ExitCache, TypeOK
  <2>9. Sent' /\ Finished'
    BY <2>6, <2>7, <2>8, SentKept
  <2> QED
    BY <2>1, <2>2, <2>3, <2>4, <2>5, <2>9 DEF Pages
<1>9. ASSUME NEW a \in Apps, FallBackToSync(a) PROVE Pages'
  <2>1. Apart'
    BY <1>9 DEF Pages, Apart, FallBackToSync, QueueSync, TypeOK
  <2>2. InPlace'
    BY <1>9 DEF Pages, InPlace, FallBackToSync, QueueSync, TypeOK
  <2>3. Reserved'
    BY <1>9 DEF Pages, Apart, Reserved, FallBackToSync, QueueSync, TypeOK
  <2>4. Carried'
    BY <1>9 DEF Pages, Apart, Carried, FallBackToSync, QueueSync, TypeOK
  <2>5. Found'
    BY <1>9 DEF Pages, Found, FallBackToSync, QueueSync, TypeOK
  <2>6. /\ rpc' = rpc /\ req' = req
        /\ \A u \in Threads : pc'[u] = "release" => pc[u] = "release"
    BY <1>9 DEF FallBackToSync, QueueSync, TypeOK
  <2>7. \A f \in Exts : /\ est[f] = "rpc" => est'[f] \in {"rpc", "done"}
                        /\ est[f] = "done" => est'[f] = "done"
    BY <1>9, FinishDone DEF FallBackToSync, QueueSync, TypeOK, Pages, Reserved
  <2>8. \A u \in Threads : \A f \in hold'[u] :
            f \in hold[u] \/ est[f] \notin {"rpc", "done"}
    BY <1>9 DEF FallBackToSync, QueueSync, TypeOK
  <2>9. Sent' /\ Finished'
    BY <2>6, <2>7, <2>8, SentKept
  <2> QED
    BY <2>1, <2>2, <2>3, <2>4, <2>5, <2>9 DEF Pages
<1>10. ASSUME NEW a \in Apps, DiscardFinish(a) PROVE Pages'
  <2>1. Apart'
    BY <1>10, FinishDone DEF Pages, Apart, DiscardFinish, TypeOK
  <2>2. InPlace'
    BY <1>10, FinishDone DEF Pages, InPlace, DiscardFinish, TypeOK
  <2>3. Reserved'
    BY <1>10, FinishDone DEF Pages, Apart, Reserved, DiscardFinish, TypeOK
  <2>4. Carried'
    BY <1>10, FinishDone DEF Pages, Apart, Carried, DiscardFinish, TypeOK
  <2>5. Found'
    BY <1>10, FinishDone DEF Pages, Found, DiscardFinish, TypeOK
  <2>6. /\ rpc' = rpc /\ req' = req
        /\ \A u \in Threads : pc'[u] = "release" => pc[u] = "release"
    BY <1>10 DEF DiscardFinish, TypeOK
  <2>7. \A f \in Exts : /\ est[f] = "rpc" => est'[f] \in {"rpc", "done"}
                        /\ est[f] = "done" => est'[f] = "done"
    BY <1>10, FinishDone DEF DiscardFinish, TypeOK, Pages, Reserved
  <2>8. \A u \in Threads : \A f \in hold'[u] :
            f \in hold[u] \/ est[f] \notin {"rpc", "done"}
    BY <1>10 DEF DiscardFinish, TypeOK
  <2>9. Sent' /\ Finished'
    BY <2>6, <2>7, <2>8, SentKept
  <2> QED
    BY <2>1, <2>2, <2>3, <2>4, <2>5, <2>9 DEF Pages
<1>11. ASSUME NEW p \in Ptlrpcds, FinishRpc(p) PROVE Pages'
  <2>1. Apart'
    BY <1>11, FinishDone DEF Pages, Apart, FinishRpc, TypeOK
  <2>2. InPlace'
    BY <1>11, FinishDone DEF Pages, InPlace, FinishRpc, TypeOK
  <2>3. Reserved'
    BY <1>11, FinishDone
    DEF Pages, Reserved, Sent, FinishRpc, TypeOK, Owned, AddPlaces, ReplyPlaces
  <2>4. Carried'
    BY <1>11, FinishDone
    DEF Pages, Carried, Sent, FinishRpc, TypeOK, Owned, AddPlaces, ReplyPlaces
  <2>0. /\ rpc' = rpc /\ hold' = hold
        /\ \A r \in Exts : rpc[r].exts \subseteq Exts
        /\ \A e \in Exts : est'[e] = est[e] \/ est'[e] = "done"
    BY <1>11, FinishDone DEF FinishRpc, TypeOK, Requests
  <2>5. Sent'
    BY <2>0 DEF Pages, Sent
  <2>6. Found'
    BY <1>11, FinishDone DEF Pages, Found, FinishRpc, TypeOK
  <2>8. /\ req' = req /\ pc' = [pc EXCEPT ![p] = "release"]
        /\ pc \in [Threads -> {"idle"} \cup AppPlaces \cup CheckPlaces \cup ReplyPlaces]
        /\ \A e \in rpc[req[p]].exts : est'[e] = "done"
        /\ pc[p] \in ReplyPlaces
    <3>1. req[p] \in Exts
      BY <1>11 DEF FinishRpc, Owned, ReplyPlaces
    <3> QED
      BY <1>11, <2>0, <3>1, FinishDone DEF FinishRpc, TypeOK, ReplyPlaces
  <2>9. \A u \in Threads : pc[u] = "release" => req[u] \in Exts
    BY DEF Owned, ReplyPlaces
  <2>7. Finished'
    <3> SUFFICES ASSUME NEW u \in Threads, pc'[u] = "release", NEW e \in rpc[req[u]].exts
                 PROVE  est'[e] = "done"
      BY <2>0, <2>8 DEF Finished
    <3>1. CASE u = p
      BY <2>8, <3>1
    <3>2. CASE u # p
      BY <2>0, <2>8, <2>9, <3>2 DEF Pages, Finished
    <3> QED
      BY <3>1, <3>2
  <2> QED
    BY <2>1, <2>2, <2>3, <2>4, <2>5, <2>6, <2>7 DEF Pages
<1>12. ASSUME NEW p \in Ptlrpcds, ReleaseSlot(p) PROVE Pages'
  <2>1. Apart'
    BY <1>12 DEF Pages, Apart, ReleaseSlot, TypeOK
  <2>2. InPlace'
    BY <1>12 DEF Pages, InPlace, ReleaseSlot, TypeOK
  <2>3. Reserved'
    BY <1>12 DEF Pages, Reserved, ReleaseSlot, TypeOK
  <2>4. Carried'
    BY <1>12 DEF Pages, Carried, ReleaseSlot, TypeOK
  <2>0. /\ est' = est /\ hold' = hold
        /\ \A r \in Exts : rpc'[r] = rpc[r] \/ rpc'[r].exts = {}
    BY <1>12 DEF ReleaseSlot, TypeOK, FreeRpc
  <2>5. Sent'
    BY <2>0 DEF Pages, Sent
  <2>6. Found'
    BY <1>12 DEF Pages, Found, Finished, ReleaseSlot, TypeOK, Owned, AddPlaces, ReplyPlaces
  <2>7. Finished'
    BY <1>12 DEF Pages, Finished, Sent, ReleaseSlot, TypeOK, Owned, AddPlaces, ReplyPlaces
  <2> QED
    BY <2>1, <2>2, <2>3, <2>4, <2>5, <2>6, <2>7 DEF Pages
<1>13. ASSUME NEW t \in Threads, SendWrite(t) PROVE Pages'
  <2>1. Apart'
    BY <1>13
    DEF Pages, Apart, InPlace, Reserved, Carried, SendWrite, WriteBatches, Batches, Writes,
        Take, Skip, TypeOK
  <2>2. InPlace'
    BY <1>13 DEF Pages, InPlace, SendWrite, WriteBatches, Batches, Writes, Take, Skip, TypeOK
  <2>3. Reserved'
    BY <1>13 DEF Pages, Reserved, SendWrite, WriteBatches, Batches, Writes, Take, Skip, TypeOK
  <2>4. Carried'
    BY <1>13 DEF Pages, Carried, SendWrite, WriteBatches, Batches, Writes, Take, Skip, TypeOK
  <2>5. Found'
    BY <1>13 DEF Pages, Found, SendWrite, WriteBatches, Batches, Writes, Take, Skip, TypeOK
  <2>6. /\ rpc' = rpc /\ req' = req
        /\ \A u \in Threads : pc'[u] = "release" => pc[u] = "release"
    BY <1>13 DEF SendWrite, WriteBatches, Batches, Writes, Take, Skip, TypeOK
  <2>7. \A f \in Exts : /\ est[f] = "rpc" => est'[f] \in {"rpc", "done"}
                        /\ est[f] = "done" => est'[f] = "done"
    BY <1>13, FinishDone
    DEF SendWrite, WriteBatches, Batches, Writes, Take, Skip, TypeOK, Pages, Reserved
  <2>8. \A u \in Threads : \A f \in hold'[u] :
            f \in hold[u] \/ est[f] \notin {"rpc", "done"}
    BY <1>13 DEF SendWrite, WriteBatches, Batches, Writes, Take, Skip, TypeOK
  <2>9. Sent' /\ Finished'
    BY <2>6, <2>7, <2>8, SentKept
  <2> QED
    BY <2>1, <2>2, <2>3, <2>4, <2>5, <2>9 DEF Pages
<1>14. ASSUME NEW t \in Threads, SendRead(t) PROVE Pages'
  <2>1. Apart'
    BY <1>14
    DEF Pages, Apart, InPlace, Reserved, Carried, SendRead, Batches, Reads, Take, Skip, TypeOK
  <2>2. InPlace'
    BY <1>14 DEF Pages, InPlace, SendRead, Batches, Reads, Take, Skip, TypeOK
  <2>3. Reserved'
    BY <1>14 DEF Pages, Reserved, SendRead, Batches, Reads, Take, Skip, TypeOK
  <2>4. Carried'
    BY <1>14 DEF Pages, Carried, SendRead, Batches, Reads, Take, Skip, TypeOK
  <2>5. Found'
    BY <1>14 DEF Pages, Found, SendRead, Batches, Reads, Take, Skip, TypeOK
  <2>6. /\ rpc' = rpc /\ req' = req
        /\ \A u \in Threads : pc'[u] = "release" => pc[u] = "release"
    BY <1>14 DEF SendRead, Batches, Reads, Take, Skip, TypeOK
  <2>7. \A f \in Exts : /\ est[f] = "rpc" => est'[f] \in {"rpc", "done"}
                        /\ est[f] = "done" => est'[f] = "done"
    BY <1>14, FinishDone DEF SendRead, Batches, Reads, Take, Skip, TypeOK, Pages, Reserved
  <2>8. \A u \in Threads : \A f \in hold'[u] :
            f \in hold[u] \/ est[f] \notin {"rpc", "done"}
    BY <1>14 DEF SendRead, Batches, Reads, Take, Skip, TypeOK
  <2>9. Sent' /\ Finished'
    BY <2>6, <2>7, <2>8, SentKept
  <2> QED
    BY <2>1, <2>2, <2>3, <2>4, <2>5, <2>9 DEF Pages
<1>15. ASSUME NEW t \in Threads, BuildFails(t) PROVE Pages'
  <2>1. Apart'
    BY <1>15, FinishDone DEF Pages, Apart, BuildFails, AfterBuild, TypeOK
  <2>2. InPlace'
    BY <1>15, FinishDone DEF Pages, InPlace, BuildFails, AfterBuild, TypeOK
  <2>3. Reserved'
    BY <1>15, FinishDone DEF Pages, Apart, Reserved, BuildFails, AfterBuild, TypeOK
  <2>4. Carried'
    BY <1>15, FinishDone DEF Pages, Apart, Carried, BuildFails, AfterBuild, TypeOK
  <2>5. Found'
    BY <1>15, FinishDone DEF Pages, Found, BuildFails, AfterBuild, TypeOK
  <2>6. /\ rpc' = rpc /\ req' = req
        /\ \A u \in Threads : pc'[u] = "release" => pc[u] = "release"
    BY <1>15 DEF BuildFails, AfterBuild, TypeOK
  <2>7. \A f \in Exts : /\ est[f] = "rpc" => est'[f] \in {"rpc", "done"}
                        /\ est[f] = "done" => est'[f] = "done"
    BY <1>15, FinishDone DEF BuildFails, AfterBuild, TypeOK, Pages, Reserved
  <2>8. \A u \in Threads : \A f \in hold'[u] :
            f \in hold[u] \/ est[f] \notin {"rpc", "done"}
    BY <1>15 DEF BuildFails, AfterBuild, TypeOK
  <2>9. Sent' /\ Finished'
    BY <2>6, <2>7, <2>8, SentKept
  <2> QED
    BY <2>1, <2>2, <2>3, <2>4, <2>5, <2>9 DEF Pages
<1>16. ASSUME NEW t \in Threads, BuildRpc(t) PROVE Pages'
  <2>1. Apart'
    BY <1>16 DEF Pages, Apart, BuildRpc, TypeOK
  <2>2. InPlace'
    BY <1>16 DEF Pages, InPlace, BuildRpc, TypeOK
  <2>3. Reserved'
    BY <1>16 DEF Pages, Reserved, BuildRpc, TypeOK
  <2>4. Carried'
    BY <1>16 DEF Pages, Carried, BuildRpc, TypeOK
  <2>5. Sent'
    BY <1>16
    DEF Pages, Apart, InPlace, Reserved, Carried, Sent, Found, Finished, BuildRpc, TypeOK,
        Owned, AddPlaces, ReplyPlaces
  <2>6. Found'
    BY <1>16 DEF Pages, Found, InPlace, Sent, BuildRpc, TypeOK, Owned, AddPlaces, ReplyPlaces
  <2>7. Finished'
    BY <1>16 DEF Pages, Finished, Sent, BuildRpc, TypeOK, Owned, AddPlaces, ReplyPlaces
  <2> QED
    BY <2>1, <2>2, <2>3, <2>4, <2>5, <2>6, <2>7 DEF Pages
<1>17. ASSUME NEW t \in Threads, NEW e \in Exts, MakeReadyFails(t, e) PROVE Pages'
  <2>1. Apart'
    BY <1>17, FinishDone DEF Pages, Apart, MakeReadyFails, TypeOK
  <2>2. InPlace'
    BY <1>17, FinishDone DEF Pages, InPlace, MakeReadyFails, TypeOK
  <2>3. Reserved'
    BY <1>17, FinishDone DEF Pages, Apart, Reserved, MakeReadyFails, TypeOK
  <2>4. Carried'
    BY <1>17, FinishDone DEF Pages, Apart, Carried, MakeReadyFails, TypeOK
  <2>5. Found'
    BY <1>17, FinishDone DEF Pages, Found, MakeReadyFails, TypeOK
  <2>6. /\ rpc' = rpc /\ req' = req
        /\ \A u \in Threads : pc'[u] = "release" => pc[u] = "release"
    BY <1>17 DEF MakeReadyFails, TypeOK
  <2>7. \A f \in Exts : /\ est[f] = "rpc" => est'[f] \in {"rpc", "done"}
                        /\ est[f] = "done" => est'[f] = "done"
    BY <1>17, FinishDone DEF MakeReadyFails, TypeOK, Pages, Reserved
  <2>8. \A u \in Threads : \A f \in hold'[u] :
            f \in hold[u] \/ est[f] \notin {"rpc", "done"}
    BY <1>17 DEF MakeReadyFails, TypeOK
  <2>9. Sent' /\ Finished'
    BY <2>6, <2>7, <2>8, SentKept
  <2> QED
    BY <2>1, <2>2, <2>3, <2>4, <2>5, <2>9 DEF Pages
<1>18. CASE ~PagesMove
  BY <1>18, OtherStepsMoveNoPage, QuietPages
<1> QED
  BY <1>1, <1>2, <1>3, <1>4, <1>5, <1>6, <1>7, <1>8, <1>9, <1>10, <1>11, <1>12, <1>13, <1>14, <1>15, <1>16, <1>17, <1>18
  DEF PagesMove

(* With the ownership of requests, which says whose extents a reply has.   *)
PInv == TypeOK /\ Places /\ Owned /\ SlotsConserved /\ Pages

(* Pages is kept from the first state on.                                  *)
LEMMA PagesInvariance == Spec => []PInv
<1>1. Init => PInv
  <2> SUFFICES ASSUME Init PROVE PInv
    OBVIOUS
  <2>1. TypeOK /\ Owned /\ SlotsConserved
    BY InitTypes, InitSlots
  <2>2. /\ \A t \in Threads : pc[t] = "idle" /\ hold[t] = {}
        /\ \A e \in Exts : est[e] = "new" /\ rpc[e].exts = {}
    BY DEF Init, FreeRpc
  <2>3. Places
    BY <2>2 DEF Places, AppPlaces, CheckPlaces, ReplyPlaces
  <2>4. Pages
    BY <2>2 DEF Pages, Apart, InPlace, Reserved, Carried, Sent, Found, Finished
  <2> QED
    BY <2>1, <2>3, <2>4 DEF PInv
<1>2. PInv /\ [Next]_vars => PInv'
  <2> SUFFICES ASSUME PInv, [Next]_vars PROVE PInv'
    OBVIOUS
  <2>1. TypeOK' /\ Places' /\ Pages'
    BY TypeStep, PlacesStep, PagesStep DEF PInv
  <2>2. Owned' /\ SlotsConserved'
    BY SlotsStep DEF PInv
  <2> QED
    BY <2>1, <2>2 DEF PInv
<1> QED
  BY <1>1, <1>2, PTL DEF Spec

(* An extent off the queues has one carrier.                               *)
LEMMA OneCarrier == PInv => ExtentsAccounted
<1> SUFFICES ASSUME PInv, NEW e \in Exts
             PROVE  Cardinality(Carriers(e)) <= 1 /\ (est[e] = "rpc" => Carriers(e) # {})
  BY DEF ExtentsAccounted
<1> USE DEF PInv, Pages
<1>1. \A x, y \in Carriers(e) : x = y
  BY DEF Carriers, Apart, Sent
<1>2. Cardinality(Carriers(e)) <= 1
  <2>1. CASE Carriers(e) = {}
    BY <2>1, FS_EmptySet
  <2>2. CASE Carriers(e) # {}
    <3>1. PICK x : Carriers(e) = {x}
      BY <1>1, <2>2
    <3> QED
      BY <3>1, FS_Singleton
  <2> QED
    BY <2>1, <2>2
<1>3. est[e] = "rpc" => Carriers(e) # {}
  BY DEF Found, Carriers, Carrying
<1> QED
  BY <1>2, <1>3

(* No extent is carried twice, and none that was taken is lost.            *)
THEOREM ExtentsAreAccounted == Spec => []ExtentsAccounted
BY PagesInvariance, OneCarrier, PTL

(* A step that frees a request finds its extents finished.                 *)
LEMMA FinishedFirst ==
    ASSUME PInv, [Next]_vars, NEW r \in Exts, rpc[r].st # "free"
    PROVE  /\ rpc'[r].st = "free" => \A e \in rpc[r].exts : est[e] = "done"
           /\ rpc'[r].st # "free" => rpc'[r].exts = rpc[r].exts
<1>1. CASE ~PagesMove
  BY <1>1, OtherStepsMoveNoPage DEF PInv, PagesQuiet
<1>2. ASSUME NEW p \in Ptlrpcds, ReleaseSlot(p)
      PROVE  /\ rpc'[r].st = "free" => \A e \in rpc[r].exts : est[e] = "done"
             /\ rpc'[r].st # "free" => rpc'[r].exts = rpc[r].exts
  <2>1. \A e \in rpc[req[p]].exts : est[e] = "done"
    BY <1>2 DEF ReleaseSlot, PInv, Pages, Finished, Threads
  <2>2. r # req[p] => rpc'[r] = rpc[r]
    BY <1>2 DEF ReleaseSlot, PInv, TypeOK
  <2>3. r = req[p] => rpc'[r].st = "free"
    BY <1>2 DEF ReleaseSlot, PInv, TypeOK, FreeRpc
  <2> QED
    BY <2>1, <2>2, <2>3
<1>3. ASSUME NEW t \in Threads, BuildRpc(t) PROVE rpc'[r] = rpc[r]
  BY <1>3 DEF BuildRpc, PInv, TypeOK
<1>4. CASE rpc' = rpc
  BY <1>4
<1>5. PagesMove => \/ rpc' = rpc \/ \E p \in Ptlrpcds : ReleaseSlot(p)
                  \/ \E t \in Threads : BuildRpc(t)
  <2>1. ASSUME NEW a \in Apps, NEW e \in Exts,
               \/ EnterCache(a, e) \/ SubmitSync(a, e) \/ FlushPage(a, e)
               \/ WritebackRange(a, e) \/ DiscardRange(a, e)
        PROVE  rpc' = rpc
    BY <2>1 DEF EnterCache, SubmitSync, QueueSync, FlushPage, WritebackRange, DiscardRange
  <2>2. ASSUME NEW a \in Apps,
               \/ Interrupted(a) \/ ReleaseExtent(a) \/ ExitCache(a)
               \/ FallBackToSync(a) \/ DiscardFinish(a)
        PROVE  rpc' = rpc
    BY <2>2 DEF Interrupted, ReleaseExtent, ExitCache, FallBackToSync, QueueSync,
                DiscardFinish
  <2>3. ASSUME NEW p \in Ptlrpcds, FinishRpc(p) PROVE rpc' = rpc
    BY <2>3 DEF FinishRpc
  <2>4. ASSUME NEW t \in Threads, SendWrite(t) \/ SendRead(t) \/ BuildFails(t)
        PROVE  rpc' = rpc
    BY <2>4 DEF SendWrite, SendRead, Take, Skip, BuildFails
  <2>5. ASSUME NEW t \in Threads, NEW e \in Exts, MakeReadyFails(t, e) PROVE rpc' = rpc
    BY <2>5 DEF MakeReadyFails
  <2> QED
    BY <2>1, <2>2, <2>3, <2>4, <2>5 DEF PagesMove
<1> QED
  BY <1>1, <1>2, <1>3, <1>4, <1>5

(* Only brw_interpret frees a slot, after the extents were finished.       *)
THEOREM ExtentsFinishFirst == Spec => FinishedBeforeRelease
<1>1. PInv /\ [Next]_vars =>
        [\A r \in Exts :
          /\ rpc[r].st # "free" /\ rpc'[r].st = "free" =>
                 \A e \in rpc[r].exts : est[e] = "done"
          /\ rpc[r].st # "free" /\ rpc'[r].st # "free" => rpc'[r].exts = rpc[r].exts]_vars
  BY FinishedFirst
<1> QED
  BY <1>1, PagesInvariance, PTL DEF FinishedBeforeRelease, Spec

(* Waiters are woken with room for what they are given.                    *)
LEMMA WakeWithinMax ==
    ASSUME TypeOK, NEW D \in SUBSET dirty, WakeWaiters(D), dirtyMax' = dirtyMax
    PROVE  dirty' \subseteq dirty \/ Cardinality(dirty') <= dirtyMax'
BY DEF WakeWaiters, HasRoom

(* Every step keeps the dirty pages, or checks the limit for more.         *)
LEMMA DirtyStep ==
    ASSUME TypeOK, [Next]_vars
    PROVE  \/ dirty' \subseteq dirty /\ dirtyMax' >= dirtyMax
           \/ Cardinality(dirty') <= dirtyMax'
<1> DEFINE Kept == \/ dirty' \subseteq dirty /\ dirtyMax' >= dirtyMax
                  \/ Cardinality(dirty') <= dirtyMax'
<1> USE DEF cacheVars
<1>0. dirtyMax \in Nat
  BY DEF TypeOK
<1>1. ASSUME NEW a \in Apps, NEW e \in Exts, EnterCache(a, e) PROVE Kept
  BY <1>0, <1>1 DEF EnterCache, EnterLoop, ForceSync, Reserve, HasRoom
<1>2. ASSUME NEW a \in Apps, Resume(a) PROVE Kept
  <2>1. CASE dirty' = dirty
    BY <1>0, <1>2, <2>1 DEF Resume
  <2>2. ASSUME NEW e, EnterLoop(a, e) PROVE dirty' = dirty \/ Reserve(a, e)
    BY <2>2 DEF EnterLoop
  <2>3. ASSUME NEW e, Reserve(a, e), dirtyMax' = dirtyMax PROVE Kept
    BY <2>3 DEF Reserve, HasRoom
  <2> QED
    BY <1>2, <2>1, <2>2, <2>3 DEF Resume
<1>3. ASSUME NEW a \in Apps, ExitCache(a) PROVE Kept
  BY <1>0, <1>3 DEF ExitCache
<1>4. ASSUME NEW a \in Apps, UnreserveGrant(a) PROVE Kept
  BY <1>0, <1>4, WakeWithinMax DEF UnreserveGrant
<1>5. ASSUME NEW p \in Ptlrpcds, ReleaseSlot(p) PROVE Kept
  BY <1>0, <1>5, WakeWithinMax DEF ReleaseSlot
<1>6. ASSUME NEW F, FinishExtents(F), dirtyMax' = dirtyMax PROVE Kept
  BY <1>0, <1>6, WakeWithinMax DEF FinishExtents
<1>7. ASSUME NEW w \in 1 .. MaxRif, SetWindow(w), dirty' = dirty PROVE Kept
  BY <1>0, <1>7, WindowPages DEF SetWindow
<1>8. CASE dirty' = dirty /\ dirtyMax' = dirtyMax
  BY <1>0, <1>8
<1>9. CASE \E a \in Apps : AppBegin(a) \/ AppStep(a) \/ WaitTimesOut(a)
  BY <1>1, <1>2, <1>3, <1>4, <1>6, <1>8, <1>9
  DEF AppBegin, AppStep, SubmitSync, FlushPage, WritebackRange, DiscardRange, Invalidate,
      PlugForSpace, GiveUp, Interrupted, ReleaseExtent, FallBackToSync, QueueSync, PlugMaint,
      QueueWork, DiscardMaint, DiscardFinish, WaitTimesOut
<1>10. CASE \E p \in Ptlrpcds : Serve(p) \/ ReplyStep(p)
  BY <1>5, <1>6, <1>7, <1>8, <1>10
  DEF Serve, ReplyStep, RunWork, Interpret, Adjust, Redo, FinishRpc
<1>11. CASE \E t \in Threads : CheckStep(t)
  BY <1>6, <1>8, <1>11
  DEF CheckStep, CheckEmpty, CheckFull, CheckNext, SendWrite, SendRead, Take, Skip,
      MakeReadyFails, BuildFails, BuildRpc, AddReq, Relist
<1>12. CASE Reconnect \/ WriteMaxRpcs \/ UNCHANGED vars
  BY <1>7, <1>8, <1>12 DEF Reconnect, WriteMaxRpcs, vars
<1> QED
  BY <1>9, <1>10, <1>11, <1>12 DEF Next

(* The dirty cache stays within cl_dirty_max_pages, which never falls.     *)
THEOREM DirtyStaysWithinMax == Spec => []DirtyWithinMax
<1>1. Init => TypeOK /\ DirtyWithinMax
  BY InitTypes, FS_EmptySet, LimitsAssumption DEF Init, DirtyWithinMax
<1>2. TypeOK /\ DirtyWithinMax /\ [Next]_vars => TypeOK' /\ DirtyWithinMax'
  <2> SUFFICES ASSUME TypeOK, DirtyWithinMax, [Next]_vars PROVE TypeOK' /\ DirtyWithinMax'
    OBVIOUS
  <2>1. TypeOK'
    BY TypeStep
  <2>2. /\ dirtyMax \in Nat /\ dirtyMax' \in Nat
        /\ IsFiniteSet(dirty) /\ Cardinality(dirty) \in Nat
        /\ IsFiniteSet(dirty') /\ Cardinality(dirty') \in Nat
    BY <2>1, WorkAssumption, FS_Subset, FS_CardinalityType DEF TypeOK
  <2>3. CASE Cardinality(dirty') <= dirtyMax'
    BY <2>1, <2>3 DEF DirtyWithinMax
  <2>4. CASE dirty' \subseteq dirty /\ dirtyMax' >= dirtyMax
    <3>1. Cardinality(dirty') <= Cardinality(dirty)
      BY <2>2, <2>4, FS_Subset
    <3> QED
      BY <2>1, <2>2, <2>4, <3>1 DEF DirtyWithinMax
  <2> QED
    BY <2>3, <2>4, DirtyStep
<1> QED
  BY <1>1, <1>2, PTL DEF Spec

(***************************************************************************)
(* Waiters for cache space.  Whoever is on the list waits for a page that  *)
(* is not counted yet, and has seen dirty pages or a write in flight; what *)
(* takes the last of these away wakes everybody (Expecting).               *)
(***************************************************************************)
Sleepers ==
    \A a \in waiters : /\ pc[a] \in {"plug", "wait", "timedout"}
                      /\ \A e \in hold[a] : e \notin dirty
NotNew == \A e \in dirty : est[e] # "new"
Expecting ==
    waiters # {} => \/ dirty # {} \/ inFlight["write"] > 0
                    \/ \E a \in Apps : pc[a] = "unreserve"
Waiters == Sleepers /\ NotNew /\ Expecting

(* Waking empties the list, and counts pages of waiters only.              *)
LEMMA WokenWaiters ==
    ASSUME TypeOK, Pages, Waiters, NEW D \in SUBSET dirty, WakeWaiters(D),
           \A e \in Exts : est[e] # "new" => est'[e] # "new"
    PROVE  Waiters'
<1>1. waiters' = {}
  BY DEF WakeWaiters
<1>2. PICK G \in SUBSET waiters : dirty' = D \cup UNION {hold[a] : a \in G}
  BY DEF WakeWaiters
<1>3. \A a \in G : \A e \in hold[a] : e \in Exts /\ est[e] = "active"
  BY DEF TypeOK, Threads, Pages, Waiters, Sleepers, Reserved, Waiting
<1>4. \A e \in dirty : e \in Exts /\ est[e] # "new"
  BY DEF TypeOK, Waiters, NotNew
<1>5. NotNew'
  BY <1>2, <1>3, <1>4 DEF NotNew
<1> QED
  BY <1>1, <1>5 DEF Waiters, Sleepers, Expecting

(* Steps that leave the list, the dirty pages and what is expected alone.  *)
WaitersQuiet ==
    /\ waiters' \subseteq waiters /\ dirty' = dirty /\ inFlight'["write"] >= inFlight["write"]
    /\ \A e \in Exts : est[e] # "new" => est'[e] # "new"
    /\ \A t \in Threads :
          /\ t \in waiters' => hold'[t] = hold[t] /\ pc'[t] \in {"plug", "wait", "timedout"}
          /\ pc[t] = "unreserve" => pc'[t] = "unreserve"

(* Such steps keep every part of Waiters.                                  *)
LEMMA QuietWaiters ==
    ASSUME TypeOK, TypeOK', Waiters, WaitersQuiet PROVE Waiters'
<1>1. inFlight["write"] \in Int /\ inFlight'["write"] \in Int /\ waiters \subseteq Threads /\ dirty \subseteq Exts
  BY DEF TypeOK, Cmds, Threads
<1>2. Sleepers' /\ NotNew'
  BY <1>1 DEF Waiters, WaitersQuiet, Sleepers, NotNew
<1>3. Expecting'
  <2>1. CASE dirty # {} \/ waiters = {}
    BY <2>1 DEF WaitersQuiet, Expecting
  <2>2. CASE inFlight["write"] > 0
    BY <1>1, <2>2 DEF WaitersQuiet, Expecting
  <2>3. CASE \E a \in Apps : pc[a] = "unreserve"
    BY <2>3 DEF WaitersQuiet, Expecting, Threads
  <2> QED
    BY <2>1, <2>2, <2>3 DEF Waiters, Expecting
<1> QED
  BY <1>2, <1>3 DEF Waiters

(* A page that nobody else holds is reserved, or its thread joins the list.*)
LEMMA LoopWaiters ==
    ASSUME TypeOK, Waiters, NEW a \in Apps, NEW e \in Exts, EnterLoop(a, e),
           a \notin waiters, hold'[a] = {e}, e \notin dirty, est'[e] # "new",
           inFlight' = inFlight,
           \A f \in Exts : est[f] # "new" => est'[f] # "new",
           \A t \in Threads \ {a} : hold'[t] = hold[t] /\ (t \in waiters => e \notin hold[t]),
           pc[a] # "unreserve"
    PROVE  Waiters'
<1>1. waiters \subseteq Threads /\ dirty \subseteq Exts /\ inFlight["write"] \in Int
      /\ pc \in [Threads -> {"idle"} \cup AppPlaces \cup CheckPlaces \cup ReplyPlaces]
      /\ a \in Threads
  BY DEF TypeOK, Threads, Cmds
<1>2. \A t \in Threads \ {a} : pc'[t] = pc[t]
  BY <1>1 DEF EnterLoop, Reserve, Goto
<1>3. CASE Reserve(a, e)
  <2>1. dirty' = dirty \cup {e} /\ waiters' = waiters
    BY <1>3 DEF Reserve
  <2> QED
    BY <1>1, <1>2, <2>1 DEF Waiters, Sleepers, NotNew, Expecting
<1>4. CASE /\ dirty # {} \/ inFlight["write"] > 0
           /\ waiters' = waiters \cup {a} /\ Goto(a, "plug") /\ UNCHANGED dirty
  <2>1. pc'[a] = "plug"
    BY <1>1, <1>4 DEF Goto
  <2> QED
    BY <1>1, <1>2, <1>4, <2>1 DEF Waiters, Sleepers, NotNew, Expecting
<1>5. CASE /\ dirty = {} /\ inFlight["write"] = 0
           /\ Goto(a, "sync") /\ UNCHANGED <<dirty, waiters>>
  BY <1>1, <1>2, <1>5, ThreadsAssumption DEF Waiters, Sleepers, NotNew, Expecting, Threads
<1> QED
  BY <1>3, <1>4, <1>5 DEF EnterLoop

(* Steps that may wake the waiters or change what they see.                *)
Stirring ==
    \/ \E a \in Apps :
        \/ \E e \in Exts : EnterCache(a, e)
        \/ Resume(a) \/ ExitCache(a) \/ UnreserveGrant(a) \/ DiscardFinish(a)
    \/ \E p \in Ptlrpcds : FinishRpc(p) \/ ReleaseSlot(p)
    \/ \E t \in Threads : BuildFails(t) \/ \E e \in Exts : MakeReadyFails(t, e)

(* All other steps are quiet for the waiters.                              *)
LEMMA OtherStepsCalm ==
    ASSUME TypeOK, Pages, Waiters, [Next]_vars, ~Stirring PROVE WaitersQuiet
<1> USE ThreadsAssumption
    DEF Goto, Threads, localVars, workVars, cacheVars, listVars, CheckPlaces, ReplyPlaces
<1>1. ASSUME NEW a \in Apps, NEW e \in Exts, SubmitSync(a, e) PROVE WaitersQuiet
  BY <1>1
  DEF WaitersQuiet, SubmitSync, QueueSync, TypeOK, Cmds, Waiters, Sleepers, Pages, Reserved,
      Waiting
<1>2. ASSUME NEW a \in Apps, NEW e \in Exts, FlushPage(a, e) PROVE WaitersQuiet
  BY <1>2 DEF WaitersQuiet, FlushPage, TypeOK, Cmds, Waiters, Sleepers, Pages, Reserved, Waiting
<1>3. ASSUME NEW a \in Apps, NEW e \in Exts, WritebackRange(a, e) PROVE WaitersQuiet
  BY <1>3
  DEF WaitersQuiet, WritebackRange, TypeOK, Cmds, Waiters, Sleepers, Pages, Reserved, Waiting
<1>4. ASSUME NEW a \in Apps, NEW e \in Exts, DiscardRange(a, e) PROVE WaitersQuiet
  BY <1>4
  DEF WaitersQuiet, DiscardRange, TypeOK, Cmds, Waiters, Sleepers, Pages, Reserved, Waiting
<1>5. ASSUME NEW a \in Apps, Invalidate(a) PROVE WaitersQuiet
  BY <1>5
  DEF WaitersQuiet, Invalidate, TypeOK, Cmds, Waiters, Sleepers, Pages, Reserved, Waiting
<1>6. ASSUME NEW a \in Apps, PlugForSpace(a) PROVE WaitersQuiet
  BY <1>6
  DEF WaitersQuiet, PlugForSpace, TypeOK, Cmds, Waiters, Sleepers, Pages, Reserved, Waiting
<1>7. ASSUME NEW a \in Apps, GiveUp(a) PROVE WaitersQuiet
  BY <1>7 DEF WaitersQuiet, GiveUp, TypeOK, Cmds, Waiters, Sleepers, Pages, Reserved, Waiting
<1>8. ASSUME NEW a \in Apps, Interrupted(a) PROVE WaitersQuiet
  BY <1>8
  DEF WaitersQuiet, Interrupted, TypeOK, Cmds, Waiters, Sleepers, Pages, Reserved, Waiting
<1>9. ASSUME NEW a \in Apps, ReleaseExtent(a) PROVE WaitersQuiet
  BY <1>9
  DEF WaitersQuiet, ReleaseExtent, TypeOK, Cmds, Waiters, Sleepers, Pages, Reserved, Waiting
<1>10. ASSUME NEW a \in Apps, FallBackToSync(a) PROVE WaitersQuiet
  BY <1>10
  DEF WaitersQuiet, FallBackToSync, QueueSync, TypeOK, Cmds, Waiters, Sleepers, Pages,
      Reserved, Waiting
<1>11. ASSUME NEW a \in Apps, PlugMaint(a) PROVE WaitersQuiet
  BY <1>11
  DEF WaitersQuiet, PlugMaint, TypeOK, Cmds, Waiters, Sleepers, Pages, Reserved, Waiting
<1>12. ASSUME NEW a \in Apps, QueueWork(a) PROVE WaitersQuiet
  BY <1>12
  DEF WaitersQuiet, QueueWork, TypeOK, Cmds, Waiters, Sleepers, Pages, Reserved, Waiting
<1>13. ASSUME NEW a \in Apps, DiscardMaint(a) PROVE WaitersQuiet
  BY <1>13
  DEF WaitersQuiet, DiscardMaint, TypeOK, Cmds, Waiters, Sleepers, Pages, Reserved, Waiting
<1>14. ASSUME NEW a \in Apps, WaitTimesOut(a) PROVE WaitersQuiet
  BY <1>14
  DEF WaitersQuiet, WaitTimesOut, TypeOK, Cmds, Waiters, Sleepers, Pages, Reserved, Waiting
<1>15. ASSUME NEW p \in Ptlrpcds, RunWork(p) PROVE WaitersQuiet
  BY <1>15 DEF WaitersQuiet, RunWork, TypeOK, Cmds, Waiters, Sleepers, Pages, Reserved, Waiting
<1>16. ASSUME NEW p \in Ptlrpcds, NEW r \in Exts, Interpret(p, r) PROVE WaitersQuiet
  BY <1>16
  DEF WaitersQuiet, Interpret, TypeOK, Cmds, Waiters, Sleepers, Pages, Reserved, Waiting
<1>17. ASSUME NEW p \in Ptlrpcds, Adjust(p) PROVE WaitersQuiet
  BY <1>17 DEF WaitersQuiet, Adjust, TypeOK, Cmds, Waiters, Sleepers, Pages, Reserved, Waiting
<1>18. ASSUME NEW p \in Ptlrpcds, Redo(p) PROVE WaitersQuiet
  BY <1>18 DEF WaitersQuiet, Redo, TypeOK, Cmds, Waiters, Sleepers, Pages, Reserved, Waiting
<1>19. ASSUME NEW t \in Threads, CheckEmpty(t) PROVE WaitersQuiet
  BY <1>19
  DEF WaitersQuiet, CheckEmpty, CheckDone, TypeOK, Cmds, Waiters, Sleepers, Pages, Reserved,
      Waiting
<1>20. ASSUME NEW t \in Threads, CheckFull(t) PROVE WaitersQuiet
  BY <1>20
  DEF WaitersQuiet, CheckFull, CheckDone, TypeOK, Cmds, Waiters, Sleepers, Pages, Reserved,
      Waiting
<1>21. ASSUME NEW t \in Threads, CheckNext(t) PROVE WaitersQuiet
  BY <1>21
  DEF WaitersQuiet, CheckNext, TypeOK, Cmds, Waiters, Sleepers, Pages, Reserved, Waiting
<1>22. ASSUME NEW t \in Threads, SendWrite(t) PROVE WaitersQuiet
  BY <1>22
  DEF WaitersQuiet, SendWrite, WriteBatches, Batches, Writes, Take, Skip, TypeOK, Cmds,
      Waiters, Sleepers, Pages, Reserved, Waiting
<1>23. ASSUME NEW t \in Threads, SendRead(t) PROVE WaitersQuiet
  BY <1>23
  DEF WaitersQuiet, SendRead, Batches, Reads, Take, Skip, TypeOK, Cmds, Waiters, Sleepers,
      Pages, Reserved, Waiting
<1>24. ASSUME NEW t \in Threads, BuildRpc(t) PROVE WaitersQuiet
  BY <1>24 DEF WaitersQuiet, BuildRpc, TypeOK, Cmds, Waiters, Sleepers, Pages, Reserved, Waiting
<1>25. ASSUME NEW t \in Threads, AddReq(t) PROVE WaitersQuiet
  BY <1>25 DEF WaitersQuiet, AddReq, TypeOK, Cmds, Waiters, Sleepers, Pages, Reserved, Waiting
<1>26. ASSUME NEW t \in Threads, Relist(t) PROVE WaitersQuiet
  BY <1>26 DEF WaitersQuiet, Relist, TypeOK, Cmds, Waiters, Sleepers, Pages, Reserved, Waiting
<1>27. CASE Reconnect \/ WriteMaxRpcs \/ UNCHANGED vars
  BY <1>27 DEF WaitersQuiet, Reconnect, WriteMaxRpcs, vars, Waiters, Sleepers, TypeOK, Cmds
<1>28. CASE \E a \in Apps : AppBegin(a) \/ AppStep(a) \/ WaitTimesOut(a)
  <2>1. PICK a \in Apps : AppBegin(a) \/ AppStep(a) \/ WaitTimesOut(a)
    BY <1>28
  <2> QED
    BY <1>1, <1>2, <1>3, <1>4, <1>5, <1>6, <1>7, <1>8, <1>9, <1>10, <1>11, <1>12, <1>13,
       <1>14, <2>1
    DEF AppBegin, AppStep, Stirring
<1>29. CASE \E p \in Ptlrpcds : Serve(p) \/ ReplyStep(p)
  BY <1>15, <1>16, <1>17, <1>18, <1>29 DEF Serve, ReplyStep, Stirring
<1>30. CASE \E t \in Threads : CheckStep(t)
  BY <1>19, <1>20, <1>21, <1>22, <1>23, <1>24, <1>25, <1>26, <1>30 DEF CheckStep, Stirring
<1> QED
  BY <1>27, <1>28, <1>29, <1>30 DEF Next

(* osc_extent_finish by a thread that does not wait.                       *)
LEMMA FinishWaiters ==
    ASSUME TypeOK, TypeOK', Pages, Waiters, NEW t \in Threads, NEW F, FinishExtents(F),
           pc[t] \notin Waiting, pc[t] # "unreserve", inFlight' = inFlight,
           \A u \in Threads \ {t} : hold'[u] = hold[u] /\ pc'[u] = pc[u]
    PROVE  Waiters'
<1>1. \A e \in Exts : est[e] # "new" => est'[e] # "new"
  BY FinishDone
<1>2. CASE WakeWaiters(dirty \ (F \ sync))
  <2>1. dirty \ (F \ sync) \in SUBSET dirty
    OBVIOUS
  <2> QED
    BY <1>1, <1>2, <2>1, WokenWaiters
<1>3. CASE UNCHANGED <<dirty, waiters>>
  <2>1. t \notin waiters
    BY DEF Waiters, Sleepers, Waiting
  <2>2. WaitersQuiet
    BY <1>1, <1>3, <2>1 DEF WaitersQuiet, Waiters, Sleepers, TypeOK, Cmds
  <2> QED
    BY <2>2, QuietWaiters
<1> QED
  BY <1>2, <1>3 DEF FinishExtents

(* Every step keeps Waiters, action by action.                             *)
LEMMA WaitersStep == TypeOK /\ Pages /\ Waiters /\ [Next]_vars => Waiters'
<1> SUFFICES ASSUME TypeOK, Pages, Waiters, [Next]_vars PROVE Waiters'
    OBVIOUS
<1>0. TypeOK'
  BY TypeStep
<1> USE ThreadsAssumption
    DEF Goto, Threads, localVars, workVars, cacheVars, listVars, Waiting
<1>1. ASSUME NEW a \in Apps, NEW e \in Exts, EnterCache(a, e) PROVE Waiters'
  <2>1. CASE ForceSync(a)
    <3>1. WaitersQuiet
      BY <1>1, <2>1 DEF EnterCache, ForceSync, WaitersQuiet, Waiters, Sleepers, TypeOK, Cmds
    <3> QED
      BY <1>0, <3>1, QuietWaiters
  <2>2. CASE EnterLoop(a, e)
    <3>1. /\ a \notin waiters /\ hold'[a] = {e} /\ e \notin dirty /\ est'[e] # "new"
          /\ inFlight' = inFlight /\ pc[a] # "unreserve"
          /\ \A f \in Exts : est[f] # "new" => est'[f] # "new"
      BY <1>1 DEF EnterCache, Waiters, Sleepers, NotNew, TypeOK
    <3>2. \A t \in Threads \ {a} : hold'[t] = hold[t] /\ (t \in waiters => e \notin hold[t])
      BY <1>1 DEF EnterCache, Waiters, Sleepers, Pages, Reserved, TypeOK
    <3> QED
      BY <2>2, <3>1, <3>2, LoopWaiters
  <2> QED
    BY <1>1, <2>1, <2>2 DEF EnterCache
<1>2. ASSUME NEW a \in Apps, Resume(a) PROVE Waiters'
  <2>1. CASE hold[a] \subseteq dirty
    <3>1. WaitersQuiet
      BY <1>2, <2>1 DEF Resume, WaitersQuiet, Waiters, Sleepers, TypeOK, Cmds
    <3> QED
      BY <1>0, <3>1, QuietWaiters
  <2>2. CASE ~(hold[a] \subseteq dirty)
    <3>1. PICK e \in hold[a] : EnterLoop(a, e)
      BY <1>2, <2>2 DEF Resume
    <3>2. /\ e \in Exts /\ hold[a] = {e} /\ est[e] = "active"
      BY <1>2, <3>1 DEF Resume, Pages, Reserved, TypeOK
    <3>3. /\ a \notin waiters /\ hold'[a] = {e} /\ e \notin dirty /\ est'[e] # "new"
          /\ inFlight' = inFlight /\ pc[a] # "unreserve"
          /\ \A f \in Exts : est[f] # "new" => est'[f] # "new"
      BY <1>2, <2>2, <3>2 DEF Resume
    <3>4. \A t \in Threads \ {a} : hold'[t] = hold[t] /\ (t \in waiters => e \notin hold[t])
      BY <1>2, <3>2 DEF Resume, Pages, Apart
    <3> QED
      BY <3>1, <3>2, <3>3, <3>4, LoopWaiters
  <2> QED
    BY <2>1, <2>2
<1>3. ASSUME NEW a \in Apps, ExitCache(a) PROVE Waiters'
  <2>1. /\ pc'[a] = "unreserve" /\ a \notin waiters /\ waiters' = waiters
        /\ dirty' \subseteq dirty
        /\ \A t \in Threads \ {a} : hold'[t] = hold[t] /\ pc'[t] = pc[t]
        /\ \A f \in Exts : est[f] # "new" => est'[f] # "new"
    BY <1>3 DEF ExitCache, Waiters, Sleepers, TypeOK
  <2>2. waiters \subseteq Threads /\ dirty \subseteq Exts
    BY DEF TypeOK
  <2> QED
    BY <2>1, <2>2 DEF Waiters, Sleepers, NotNew, Expecting
<1>4. ASSUME NEW a \in Apps, UnreserveGrant(a) PROVE Waiters'
  BY <1>4, WokenWaiters DEF UnreserveGrant
<1>5. ASSUME NEW a \in Apps, DiscardFinish(a) PROVE Waiters'
  <2>1. /\ pc[a] = "drop" /\ FinishExtents(hold[a]) /\ inFlight' = inFlight
        /\ \A u \in Threads \ {a} : hold'[u] = hold[u] /\ pc'[u] = pc[u]
    BY <1>5 DEF DiscardFinish, TypeOK
  <2> QED
    BY <1>0, <2>1, FinishWaiters
<1>6. ASSUME NEW p \in Ptlrpcds, FinishRpc(p) PROVE Waiters'
  <2>1. /\ pc[p] = "fini" /\ FinishExtents(rpc[req[p]].exts) /\ inFlight' = inFlight
        /\ \A u \in Threads \ {p} : hold'[u] = hold[u] /\ pc'[u] = pc[u]
    BY <1>6 DEF FinishRpc, TypeOK
  <2> QED
    BY <1>0, <2>1, FinishWaiters
<1>7. ASSUME NEW p \in Ptlrpcds, ReleaseSlot(p) PROVE Waiters'
  BY <1>7, WokenWaiters DEF ReleaseSlot
<1>8. ASSUME NEW t \in Threads, BuildFails(t) PROVE Waiters'
  <2>1. /\ pc[t] \in {"build_write", "build_read"} /\ FinishExtents(hold[t])
        /\ inFlight' = inFlight
        /\ \A u \in Threads \ {t} : hold'[u] = hold[u] /\ pc'[u] = pc[u]
    BY <1>8 DEF BuildFails, TypeOK
  <2> QED
    BY <1>0, <2>1, FinishWaiters
<1>9. ASSUME NEW t \in Threads, NEW e \in Exts, MakeReadyFails(t, e) PROVE Waiters'
  <2>1. /\ pc[t] = "build_write" /\ FinishExtents({e}) /\ inFlight' = inFlight
        /\ \A u \in Threads \ {t} : hold'[u] = hold[u] /\ pc'[u] = pc[u]
    BY <1>9 DEF MakeReadyFails, TypeOK
  <2> QED
    BY <1>0, <2>1, FinishWaiters
<1>10. CASE ~Stirring
  BY <1>0, <1>10, OtherStepsCalm, QuietWaiters
<1> QED
  BY <1>1, <1>2, <1>3, <1>4, <1>5, <1>6, <1>7, <1>8, <1>9, <1>10 DEF Stirring

(* Somebody wakes a waiter, wherever the pages are that it waits for.      *)
LEMMA WokenUp == IInv /\ Pages /\ Waiters => WaitersWillWake
<1> SUFFICES ASSUME IInv, Pages, Waiters, waiters # {}, ReservationFreed, ~WillCheck,
                    \A a \in Apps : pc[a] \notin {"granted", "unreserve", "maint", "flush",
                                                 "discard", "drop"},
                    \A a \in Apps \ waiters : pc[a] # "wait"
             PROVE  FALSE
  BY DEF WaitersWillWake
<1>1. \A t \in Threads : pc[t] \notin HandlingPlaces
  BY DEF IInv, Places, HandlingPlaces, AppPlaces, WillCheck, CheckPlaces, ReplyPlaces
<1>2. \A e \in Exts : est[e] \notin {"cache", "urgent", "hp"}
  <2> SUFFICES ASSUME NEW e \in Exts, est[e] \in {"cache", "urgent", "hp"} PROVE FALSE
    OBVIOUS
  <2>1. ObjOf[e] \in Objs /\ Writes(ObjOf[e]) # {}
    BY WorkAssumption DEF Writes
  <2>2. ObjOf[e] \in writeList
    BY <1>1, <2>1 DEF IInv, Queued, InHand
  <2>3. Bringing(ObjOf[e])
    BY <2>2 DEF IInv, Watched, Candidates
  <2> QED
    BY <2>3 DEF Bringing
<1>3. \A r \in Exts : rpc[r].st = "free"
  <2> SUFFICES ASSUME NEW r \in Exts, rpc[r].st # "free" PROVE FALSE
    OBVIOUS
  <2>1. rpc[r].st \in RpcStates
    BY DEF IInv, TypeOK, Requests
  <2> QED
    BY <2>1 DEF RpcStates, IInv, Owned, WillCheck, AddPlaces, CheckPlaces
<1>4. dirty = {}
  <2> SUFFICES ASSUME NEW e \in dirty PROVE FALSE
    OBVIOUS
  <2>1. e \in Exts /\ OnItsWay(e)
    BY DEF IInv, TypeOK, ReservationFreed
  <2>2. CASE est[e] = "rpc"
    <3>1. CASE \E r \in Exts : e \in rpc[r].exts
      BY <1>3, <3>1 DEF Pages, Sent
    <3>2. CASE \E t \in Threads : pc[t] \in Carrying
      BY <3>2 DEF Carrying, WillCheck, CheckPlaces, IInv, Places, AppPlaces
    <3> QED
      BY <2>1, <2>2, <3>1, <3>2 DEF Pages, Found
  <2>3. CASE \E a \in Apps : e \in hold[a] /\ pc[a] \in {"plug", "wait", "granted"}
    BY <2>3 DEF WillCheck, Waiters, Sleepers, Threads
  <2> QED
    BY <1>2, <2>1, <2>2, <2>3 DEF OnItsWay
<1>5. inFlight["write"] = 0
  <2>1. LiveRpcs("write") = {}
    BY <1>3 DEF LiveRpcs
  <2> QED
    BY <2>1, FS_EmptySet DEF IInv, SlotsConserved, Cmds
<1> QED
  BY <1>4, <1>5 DEF Waiters, Expecting

(* A waiter sleeps only while somebody is bound to wake it, whatever       *)
(* happens meanwhile, as long as no page that was granted is lost.         *)
THEOREM NoWaiterForgotten == Spec => []WaitersWillWake
<1>1. Init => Waiters
  BY DEF Init, Waiters, Sleepers, NotNew, Expecting
<1>2. TypeOK /\ Pages /\ Waiters /\ [Next]_vars => Waiters'
  BY WaitersStep
<1>3. PInv => TypeOK /\ Pages
  BY DEF PInv
<1>4. IInv /\ Pages /\ Waiters => WaitersWillWake
  BY WokenUp
<1> QED
  BY <1>1, <1>2, <1>3, <1>4, PagesInvariance, EngineInvariance, PTL DEF Spec

=============================================================================
