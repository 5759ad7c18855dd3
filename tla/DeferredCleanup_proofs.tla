------------------------ MODULE DeferredCleanup_proofs ------------------------
(***************************************************************************)
(* Proofs about DeferredCleanup for any number of threads and payloads:    *)
(*   - type correctness;                                                   *)
(*   - scheduled_ is a lock with one owner, so CPython's bounded queue     *)
(*     never holds two drain calls, even when stores are buffered;         *)
(*   - no queued payload is left without a drain to come, unless           *)
(*     Py_AddPendingCall was refused or a thread backed off on a value     *)
(*     that a store buffer was about to overwrite;                         *)
(*   - the links of the stack and of the detached list hold exactly the    *)
(*     retired payloads, so the queue implements PayloadReclamation.       *)
(* What is linked from a payload is computed by recursion; the facts about *)
(* it are proved by induction, which is done with the least number of      *)
(* links at which a fact would fail (LeastElement).                        *)
(***************************************************************************)
EXTENDS DeferredCleanup, FiniteSetTheorems, WellFoundedInduction, TLAPS

\* Every variable keeps its type: the typing invariant is inductive.
LEMMA TypeInit == Init => TypeOK
<1> SUFFICES ASSUME Init PROVE TypeOK
  OBVIOUS
<1> USE DEF Init
<1>1. Main \in Threads
  BY DEF Threads
<1>2. ~Deleting
  BY <1>1 DEF Deleting, ScheduleSteps
<1> QED
  BY <1>1, <1>2 DEF TypeOK, Owners, Steps

\* Every step keeps the type invariant.
LEMMA TypeNext == TypeOK /\ [Next]_vars => TypeOK'
<1> SUFFICES ASSUME TypeOK, [Next]_vars PROVE TypeOK'
  OBVIOUS
<1> USE DEF TypeOK, Deleting, ScheduleSteps, Goto, Return, StoreNotScheduled
<1>m. Main \in Threads BY DEF Threads
<1>p. /\ {"idle", "load", "push", "accepting?", "finalizing?", "head?", "claim",
            "add", "unclaim", "drain", "take", "delete", "deleting", "clear",
            "recheck"} \subseteq Steps
      /\ \A t \in Threads : ret[t] \in Steps /\ ret[t] \notin {"load", "push", "delete"}
  BY DEF Steps, ScheduleSteps, DrainSteps
\* Where schedule() returns: to no step that needs an item, and to the
\* drain's loop only when it was called from there.
<1>r. ASSUME NEW t \in Threads, pc[t] \in ScheduleSteps,
             pc' = [pc EXCEPT ![t] = ret[t]], UNCHANGED <<ret, item, list>>
      PROVE  /\ pc' \in [Threads -> Steps]
             /\ \A u \in Threads : pc'[u] \in {"load", "push"} => item[u] \in Items
             /\ Deleting' => list \in Items
  <2>1. CASE t = Main
    <3>1. pc'[Main] = ret[Main]
      BY <1>r, <2>1
    <3>2. ret[Main] = "deleting" => Deleting
      BY <1>r, <2>1
    <3> QED
      BY <1>r, <1>p, <2>1, <3>1, <3>2
  <2>2. CASE t # Main
    <3>1. pc'[Main] = pc[Main]
      BY <1>r, <1>m, <2>2
    <3>2. Deleting' => Deleting
      BY <1>r, <3>1
    <3> QED
      BY <1>r, <1>p, <3>2
  <2> QED
    BY <2>1, <2>2
\* The same for a step inside schedule().
<1>g. ASSUME NEW t \in Threads, NEW s \in ScheduleSteps, pc[t] \in ScheduleSteps,
             pc' = [pc EXCEPT ![t] = s], UNCHANGED <<ret, item, list>>
      PROVE  /\ pc' \in [Threads -> Steps]
             /\ \A u \in Threads : pc'[u] \in {"load", "push"} => item[u] \in Items
             /\ Deleting' => list \in Items
  <2>1. pc'[Main] = IF t = Main THEN s ELSE pc[Main]
    BY <1>g, <1>m
  <2>2. Deleting' => Deleting
    BY <1>g, <2>1
  <2>3. s \in Steps /\ s \notin {"load", "push"}
    BY <1>p
  <2> QED
    BY <1>g, <2>2, <2>3
<1>1. ASSUME NEW i \in Items, Allocate(i) PROVE TypeOK'
  BY <1>1 DEF Allocate, Owners
<1>2. ASSUME NEW t \in CudaThreads, NEW i \in Items, Retire(t, i) PROVE TypeOK'
  BY <1>2, <1>p DEF Retire, Owners, Threads
<1>3. ASSUME NEW t \in CudaThreads, LoadHead(t) PROVE TypeOK'
  BY <1>3, <1>p DEF LoadHead, Threads
<1>4. ASSUME NEW t \in CudaThreads, Push(t) PROVE TypeOK'
  BY <1>4, <1>p DEF Push, PushSucceeds, Owners, Threads
<1>5. ASSUME NEW t \in PyThreads \cup {Main}, Retry(t) PROVE TypeOK'
  BY <1>5, <1>p DEF Retry, Threads
<1>6. ASSUME NEW t \in Threads, CheckAccepting(t) PROVE TypeOK'
  <2>1. CASE accepting
    BY <1>6, <1>g, <2>1 DEF CheckAccepting
  <2>2. CASE ~accepting
    BY <1>6, <1>r, <2>2 DEF CheckAccepting
  <2> QED
    BY <2>1, <2>2
<1>7. ASSUME NEW t \in Threads, CheckFinalizing(t) PROVE TypeOK'
  <2>1. CASE finalizing
    BY <1>7, <1>r, <2>1 DEF CheckFinalizing
  <2>2. CASE ~finalizing
    BY <1>7, <1>g, <2>2 DEF CheckFinalizing
  <2> QED
    BY <2>1, <2>2
<1>8. ASSUME NEW t \in Threads, CheckHead(t) PROVE TypeOK'
  <2>1. CASE head = Null
    BY <1>8, <1>r, <2>1 DEF CheckHead
  <2>2. CASE head # Null
    BY <1>8, <1>g, <2>2 DEF CheckHead
  <2> QED
    BY <2>1, <2>2
<1>9. ASSUME NEW t \in Threads, Claim(t) PROVE TypeOK'
  <2>1. CASE MayClaim(t)
    BY <1>9, <1>g, <2>1 DEF Claim
  <2>2. CASE ~MayClaim(t)
    BY <1>9, <1>r, <2>2 DEF Claim
  <2> QED
    BY <2>1, <2>2
<1>10. ASSUME NEW t \in Threads, AddPendingCall(t) PROVE TypeOK'
  <2>1. pending' \in Nat
    BY <1>10 DEF AddPendingCall
  <2> QED
    BY <1>10, <1>r, <2>1 DEF AddPendingCall
<1>11. ASSUME NEW t \in Threads, RefusePendingCall(t) PROVE TypeOK'
  BY <1>11, <1>p DEF RefusePendingCall
<1>12. ASSUME NEW t \in Threads, Unclaim(t) PROVE TypeOK'
  BY <1>12, <1>p, <1>r DEF Unclaim
<1>13. ASSUME NEW t \in Threads, Flush(t) PROVE TypeOK'
  BY <1>13 DEF Flush
<1>14. CASE RunPendingCall
  BY <1>14, <1>p, <1>m DEF RunPendingCall
<1>15. CASE DrainCheck
  BY ZenonT(60), <1>15, <1>p, <1>m DEF DrainCheck
<1>16. CASE TakeAll
  BY <1>16, <1>p, <1>m DEF TakeAll
<1>17. CASE DeleteItem
  BY <1>17, <1>p, <1>m DEF DeleteItem, Rest, Last, Owners
<1>18. CASE DrainClear
  BY <1>18, <1>p, <1>m DEF DrainClear
<1>19. CASE DrainRecheck
  BY <1>19, <1>p, <1>m DEF DrainRecheck
<1>20. CASE NestedRetry
  BY <1>20, <1>p, <1>m DEF NestedRetry
<1>21. CASE Finalize
  BY <1>21 DEF Finalize
<1>22. CASE UNCHANGED vars
  BY <1>22 DEF vars
<1> QED
  BY <1>1, <1>2, <1>3, <1>4, <1>5, <1>6, <1>7, <1>8, <1>9, <1>10, <1>11,
     <1>12, <1>13, <1>14, <1>15, <1>16, <1>17, <1>18, <1>19, <1>20, <1>21,
     <1>22
  DEF Next, Enqueue, Schedule, Drain

\* Every reachable state is well typed, whatever the threads and payloads.
THEOREM TypeCorrect == Spec => []TypeOK
  BY TypeInit, TypeNext, PTL DEF Spec

-----------------------------------------------------------------------------
(* scheduled_ as a lock                                                    *)

\* A step that touches none of the owners keeps the lock's invariant.
LEMMA SameOwners ==
    ASSUME ScheduledIsOwned, UNCHANGED <<scheduled, storing, pending>>,
           Draining' <=> Draining,
           \A t \in Threads : Adding(t)' <=> Adding(t)
    PROVE  ScheduledIsOwned'
  BY DEF ScheduledIsOwned

\* How a step of thread t that goes to s moves the owners.
LEMMA Move ==
    ASSUME TypeOK, NEW t \in Threads, NEW s \in Steps,
           pc' = [pc EXCEPT ![t] = s], UNCHANGED ret
    PROVE  /\ \A u \in Threads : u # t => (Adding(u)' <=> Adding(u))
           /\ Adding(t)' <=> s \in {"add", "unclaim"}
           /\ t # Main => (Draining' <=> Draining)
           /\ t = Main => (Draining' <=>
                \/ s \in {"drain", "take", "clear", "delete", "deleting"}
                \/ s \in ScheduleSteps /\ ret[Main] = "deleting")
<1>m. Main \in Threads
  BY DEF Threads
<1>1. \A u \in Threads : pc'[u] = IF u = t THEN s ELSE pc[u]
  BY DEF TypeOK
<1> QED
  BY <1>m, <1>1 DEF Adding, Draining, Deleting

\* schedule() returning from a step where it owns nothing moves no owner.
LEMMA ReturnKeeps ==
    ASSUME TypeOK, NEW t \in Threads, pc[t] \in ScheduleSteps, ~Adding(t),
           Return(t), UNCHANGED ret
    PROVE  /\ Draining' <=> Draining
           /\ \A u \in Threads : Adding(u)' <=> Adding(u)
<1>1. ret[t] \in {"idle", "deleting"} /\ ret[t] \in Steps
  BY DEF TypeOK, Steps, DrainSteps
<1>2. /\ \A u \in Threads : u # t => (Adding(u)' <=> Adding(u))
      /\ Adding(t)' <=> ret[t] \in {"add", "unclaim"}
      /\ t # Main => (Draining' <=> Draining)
      /\ t = Main => (Draining' <=>
            \/ ret[t] \in {"drain", "take", "clear", "delete", "deleting"}
            \/ ret[t] \in ScheduleSteps /\ ret[Main] = "deleting")
  BY <1>1, Move DEF Return, Goto
<1>3. CASE t = Main
  <2>1. Draining <=> ret[Main] = "deleting"
    BY <1>3 DEF Draining, Deleting, ScheduleSteps
  <2> QED
    BY <1>1, <1>2, <1>3, <2>1 DEF ScheduleSteps
<1>4. CASE t # Main
  BY <1>1, <1>2, <1>4
<1> QED
  BY <1>3, <1>4

\* A step from one non-owning place of schedule() to another.
LEMMA WithinSchedule ==
    ASSUME TypeOK, NEW t \in Threads, NEW s \in ScheduleSteps \ {"add", "unclaim"},
           pc[t] \in ScheduleSteps, ~Adding(t), Goto(t, s), UNCHANGED ret
    PROVE  /\ Draining' <=> Draining
           /\ \A u \in Threads : Adding(u)' <=> Adding(u)
<1>1. s \in Steps
  BY DEF Steps
<1>2. /\ \A u \in Threads : u # t => (Adding(u)' <=> Adding(u))
      /\ Adding(t)' <=> s \in {"add", "unclaim"}
      /\ t # Main => (Draining' <=> Draining)
      /\ t = Main => (Draining' <=>
            \/ s \in {"drain", "take", "clear", "delete", "deleting"}
            \/ s \in ScheduleSteps /\ ret[Main] = "deleting")
  BY <1>1, Move DEF Goto
<1>3. t = Main => (Draining <=> ret[Main] = "deleting")
  BY DEF Draining, Deleting, ScheduleSteps
<1> QED
  BY <1>2, <1>3 DEF ScheduleSteps

\* scheduled_ is free at first.
LEMMA OwnedInit == Init => ScheduledIsOwned
<1> SUFFICES ASSUME Init PROVE ScheduledIsOwned
  OBVIOUS
<1>1. Main \in Threads
  BY DEF Threads
<1>2. ~Draining /\ \A t \in Threads : ~Adding(t)
  BY <1>1 DEF Init, Draining, Deleting, Adding, ScheduleSteps
<1> QED
  BY <1>2 DEF Init, ScheduledIsOwned

\* Every step passes scheduled_ on, or keeps it where it is.
LEMMA OwnedNext ==
    TypeOK /\ TypeOK' /\ ScheduledIsOwned /\ [Next]_vars => ScheduledIsOwned'
<1> SUFFICES ASSUME TypeOK, TypeOK', ScheduledIsOwned, [Next]_vars
             PROVE  ScheduledIsOwned'
  OBVIOUS
<1>m. Main \in Threads /\ CudaThreads \subseteq Threads /\ PyThreads \subseteq Threads
      /\ Main \notin CudaThreads
  BY DistinctThreads DEF Threads
<1>p. {"idle", "load", "push", "accepting?", "finalizing?", "head?", "claim",
        "add", "unclaim", "drain", "take", "delete", "deleting", "clear",
        "recheck"} \subseteq Steps
  BY DEF Steps, ScheduleSteps, DrainSteps
\* A step of the main thread from outside the drain and the adding steps.
<1>1. ASSUME NEW i \in Items, Allocate(i) PROVE ScheduledIsOwned'
  BY <1>1, SameOwners DEF Allocate, Draining, Deleting, Adding
<1>2. ASSUME NEW t \in CudaThreads, NEW i \in Items, Retire(t, i)
      PROVE  ScheduledIsOwned'
  <2>1. \A u \in Threads : Adding(u)' <=> Adding(u)
    BY <1>2, <1>m, <1>p, Move DEF Retire, Adding, Goto
  <2>2. Draining' <=> Draining
    BY <1>2, <1>m, <1>p, Move DEF Retire, Goto
  <2> QED
    BY <1>2, <2>1, <2>2, SameOwners DEF Retire
<1>3. ASSUME NEW t \in CudaThreads, LoadHead(t) PROVE ScheduledIsOwned'
  <2>1. \A u \in Threads : Adding(u)' <=> Adding(u)
    BY <1>3, <1>m, <1>p, Move DEF LoadHead, Adding, Goto
  <2>2. Draining' <=> Draining
    BY <1>3, <1>m, <1>p, Move DEF LoadHead, Goto
  <2> QED
    BY <1>3, <2>1, <2>2, SameOwners DEF LoadHead
<1>4. ASSUME NEW t \in CudaThreads, Push(t) PROVE ScheduledIsOwned'
  <2>1. \A u \in Threads : pc'[u] = pc[u] \/ (u = t /\ pc'[u] = "accepting?")
    BY <1>4 DEF Push, Goto, TypeOK
  <2>2. t # Main /\ pc'[Main] = pc[Main] /\ ret'[Main] = ret[Main]
    BY <1>4, <1>m, <2>1 DEF Push, TypeOK
  <2>3. Draining' <=> Draining
    BY <2>2 DEF Draining, Deleting
  <2>4. \A u \in Threads : Adding(u)' <=> Adding(u)
    BY <1>4, <2>1 DEF Adding, Push
  <2> QED
    BY <1>4, <2>3, <2>4, SameOwners DEF Push
<1>5. ASSUME NEW t \in PyThreads \cup {Main}, Retry(t) PROVE ScheduledIsOwned'
  <2>1. t \in Threads /\ \A u \in Threads :
           /\ pc'[u] = IF u = t THEN "accepting?" ELSE pc[u]
           /\ ret'[u] = IF u = t THEN "idle" ELSE ret[u]
    BY <1>5, <1>m DEF Retry, Goto, TypeOK
  <2>2. Draining' <=> Draining
    BY <1>5, <1>m, <2>1 DEF Draining, Deleting, Retry, ScheduleSteps
  <2>3. \A u \in Threads : Adding(u)' <=> Adding(u)
    BY <1>5, <2>1 DEF Adding, Retry
  <2> QED
    BY <1>5, <2>2, <2>3, SameOwners DEF Retry
<1>6. ASSUME NEW t \in Threads, CheckAccepting(t) PROVE ScheduledIsOwned'
  <2>1. pc[t] \in ScheduleSteps /\ ~Adding(t)
    BY <1>6 DEF CheckAccepting, ScheduleSteps, Adding
  <2>2. (Draining' <=> Draining) /\ \A u \in Threads : Adding(u)' <=> Adding(u)
    BY <1>6, <2>1, ReturnKeeps, WithinSchedule DEF CheckAccepting, ScheduleSteps
  <2> QED
    BY <1>6, <2>2, SameOwners DEF CheckAccepting
<1>7. ASSUME NEW t \in Threads, CheckFinalizing(t) PROVE ScheduledIsOwned'
  <2>1. pc[t] \in ScheduleSteps /\ ~Adding(t)
    BY <1>7 DEF CheckFinalizing, ScheduleSteps, Adding
  <2>2. (Draining' <=> Draining) /\ \A u \in Threads : Adding(u)' <=> Adding(u)
    BY <1>7, <2>1, ReturnKeeps, WithinSchedule DEF CheckFinalizing, ScheduleSteps
  <2> QED
    BY <1>7, <2>2, SameOwners DEF CheckFinalizing
<1>8. ASSUME NEW t \in Threads, CheckHead(t) PROVE ScheduledIsOwned'
  <2>1. pc[t] \in ScheduleSteps /\ ~Adding(t)
    BY <1>8 DEF CheckHead, ScheduleSteps, Adding
  <2>2. (Draining' <=> Draining) /\ \A u \in Threads : Adding(u)' <=> Adding(u)
    BY <1>8, <2>1, ReturnKeeps, WithinSchedule DEF CheckHead, ScheduleSteps
  <2> QED
    BY <1>8, <2>2, SameOwners DEF CheckHead
\* The claim is granted only when nobody owns scheduled_.
<1>9. ASSUME NEW t \in Threads, Claim(t) PROVE ScheduledIsOwned'
  <2>1. pc[t] \in ScheduleSteps /\ ~Adding(t)
    BY <1>9 DEF Claim, ScheduleSteps, Adding
  <2>2. CASE ~scheduled
    <3>1. Goto(t, "add") /\ scheduled' /\ UNCHANGED <<ret, storing, pending>>
      BY <1>9, <2>2 DEF Claim, MayClaim
    <3>2. pending # 1 /\ ~Draining /\ \A u \in Threads : ~Adding(u) /\ ~storing[u]
      BY <2>2 DEF ScheduledIsOwned
    <3>3. \A u \in Threads : Adding(u)' <=> u = t
      BY <1>p, <3>1, <3>2, Move DEF Goto
    <3>4. ~Draining'
      <4>1. t = Main => ret[Main] # "deleting"
        BY <2>1, <3>2 DEF Draining, Deleting
      <4>2. t # Main => (Draining' <=> Draining)
        BY <1>p, <3>1, Move DEF Goto
      <4>3. t = Main => (Draining' <=> ret[Main] = "deleting")
        <5>1. "add" \in ScheduleSteps
          BY DEF ScheduleSteps
        <5> QED
          BY <1>p, <3>1, <5>1, Move DEF Goto
      <4> QED
        BY <3>2, <4>1, <4>2, <4>3
    <3> QED
      BY <3>1, <3>2, <3>3, <3>4 DEF ScheduledIsOwned
  <2>3. CASE scheduled
    <3>1. Return(t) /\ UNCHANGED <<scheduled, ret, storing, pending>>
      BY <1>9, <2>3 DEF Claim, MayClaim
    <3> QED
      BY <2>1, <3>1, ReturnKeeps, SameOwners
  <2> QED
    BY <2>2, <2>3
\* The claim passes to the pending call ...
<1>10. ASSUME NEW t \in Threads, AddPendingCall(t) PROVE ScheduledIsOwned'
  <2>1. /\ scheduled /\ pending = 0 /\ ~Draining
        /\ \A u \in Threads : ~storing[u]
        /\ \A u \in Threads : u # t => ~Adding(u)
    BY <1>10 DEF AddPendingCall, Adding, ScheduledIsOwned
  <2>2. ret[t] \in {"idle", "deleting"} /\ ret[t] \in Steps
    BY <1>p DEF TypeOK
  <2>3. t = Main => ret[t] = "idle"
    BY <1>10, <2>1, <2>2 DEF AddPendingCall, Draining, Deleting, ScheduleSteps
  <2>4. \A u \in Threads : ~Adding(u)'
    BY <1>10, <2>1, <2>2, Move DEF AddPendingCall, Return, Goto
  <2>5. ~Draining'
    <3>1. CASE t = Main
      BY <1>10, <2>2, <2>3, <3>1, Move DEF AddPendingCall, Return, Goto, ScheduleSteps
    <3>2. CASE t # Main
      BY <1>10, <2>1, <2>2, <3>2, Move DEF AddPendingCall, Return, Goto
    <3> QED
      BY <3>1, <3>2
  <2>6. pending' = 1 /\ scheduled' /\ \A u \in Threads : ~storing'[u]
    BY <1>10, <2>1 DEF AddPendingCall
  <2> QED
    BY <2>4, <2>5, <2>6 DEF ScheduledIsOwned
<1>11. ASSUME NEW t \in Threads, RefusePendingCall(t) PROVE ScheduledIsOwned'
  <2>1. Adding(t) /\ ~Draining
    BY <1>11 DEF RefusePendingCall, Adding, ScheduledIsOwned
  <2>2. t = Main => ret[Main] # "deleting"
    BY <1>11, <2>1 DEF RefusePendingCall, Draining, Deleting, ScheduleSteps
  <2>3. \A u \in Threads : Adding(u)' <=> Adding(u)
    BY <1>11, <1>p, <2>1, Move DEF RefusePendingCall, Goto
  <2>4. ~Draining'
    BY <1>11, <1>p, <2>1, <2>2, Move DEF RefusePendingCall, Goto
  <2> QED
    BY <1>11, <2>1, <2>3, <2>4, SameOwners DEF RefusePendingCall
\* ... or is given back, at once or through the store buffer.
<1>12. ASSUME NEW t \in Threads, Unclaim(t) PROVE ScheduledIsOwned'
  <2>1. /\ scheduled /\ pending = 0 /\ ~Draining
        /\ \A u \in Threads : ~storing[u]
        /\ \A u \in Threads : u # t => ~Adding(u)
    BY <1>12 DEF Unclaim, Adding, ScheduledIsOwned
  <2>2. ret[t] \in {"idle", "deleting"} /\ ret[t] \in Steps
    BY <1>p DEF TypeOK
  <2>3. t = Main => ret[t] = "idle"
    BY <1>12, <2>1, <2>2 DEF Unclaim, Draining, Deleting, ScheduleSteps
  <2>4. \A u \in Threads : ~Adding(u)'
    BY <1>12, <2>1, <2>2, Move DEF Unclaim, Return, Goto
  <2>5. ~Draining'
    <3>1. CASE t = Main
      BY <1>12, <2>2, <2>3, <3>1, Move DEF Unclaim, Return, Goto, ScheduleSteps
    <3>2. CASE t # Main
      BY <1>12, <2>1, <2>2, <3>2, Move DEF Unclaim, Return, Goto
    <3> QED
      BY <3>1, <3>2
  <2>6. CASE StoreBuffers
    <3>1. /\ scheduled' /\ pending' = 0
          /\ \A u \in Threads : storing'[u] <=> u = t
      BY <1>12, <2>1, <2>6 DEF Unclaim, StoreNotScheduled, TypeOK
    <3> QED
      BY <2>4, <2>5, <3>1 DEF ScheduledIsOwned
  <2>7. CASE ~StoreBuffers
    <3>1. ~scheduled' /\ pending' = 0 /\ \A u \in Threads : ~storing'[u]
      BY <1>12, <2>1, <2>7 DEF Unclaim, StoreNotScheduled
    <3> QED
      BY <2>4, <2>5, <3>1 DEF ScheduledIsOwned
  <2> QED
    BY <2>6, <2>7
<1>13. ASSUME NEW t \in Threads, Flush(t) PROVE ScheduledIsOwned'
  <2>1. /\ pending = 0 /\ ~Draining
        /\ \A u \in Threads : ~Adding(u) /\ (storing[u] => u = t)
    BY <1>13 DEF Flush, ScheduledIsOwned
  <2>2. /\ ~Draining' /\ pending' = 0 /\ ~scheduled'
        /\ \A u \in Threads : ~Adding(u)' /\ ~storing'[u]
    BY <1>13, <2>1 DEF Flush, Draining, Deleting, Adding, TypeOK
  <2> QED
    BY <2>2 DEF ScheduledIsOwned
\* The pending call hands scheduled_ to the drain.
<1>14. CASE RunPendingCall
  <2>1. /\ scheduled /\ pending = 1
        /\ \A u \in Threads : ~Adding(u) /\ ~storing[u]
    BY <1>14 DEF RunPendingCall, ScheduledIsOwned
  <2>2. Draining' /\ \A u \in Threads : ~Adding(u)'
    BY <1>14, <1>m, <1>p, <2>1, Move DEF RunPendingCall, Goto
  <2> QED
    BY <1>14, <2>1, <2>2 DEF RunPendingCall, ScheduledIsOwned
<1>15. CASE DrainCheck
  <2>1. /\ Draining /\ scheduled /\ pending = 0
        /\ \A u \in Threads : ~Adding(u) /\ ~storing[u]
    BY <1>15 DEF DrainCheck, Draining, ScheduledIsOwned
  <2>2. CASE MustLeak
    <3>1. ~Draining' /\ \A u \in Threads : ~Adding(u)'
      BY <1>15, <1>m, <1>p, <2>1, <2>2, Move DEF DrainCheck, Goto, ScheduleSteps
    <3>2. CASE StoreBuffers
      <4>1. scheduled' /\ pending' = 0 /\ \A u \in Threads : storing'[u] <=> u = Main
        BY <1>15, <2>1, <2>2, <3>2 DEF DrainCheck, StoreNotScheduled, TypeOK
      <4> QED
        BY <1>m, <3>1, <4>1 DEF ScheduledIsOwned
    <3>3. CASE ~StoreBuffers
      <4>1. ~scheduled' /\ pending' = 0 /\ \A u \in Threads : ~storing'[u]
        BY <1>15, <2>1, <2>2, <3>3 DEF DrainCheck, StoreNotScheduled
      <4> QED
        BY <3>1, <4>1 DEF ScheduledIsOwned
    <3> QED
      BY <3>2, <3>3
  <2>3. CASE ~MustLeak
    <3>1. Draining' /\ \A u \in Threads : ~Adding(u)'
      BY <1>15, <1>m, <1>p, <2>1, <2>3, Move DEF DrainCheck, Goto
    <3> QED
      BY <1>15, <2>1, <2>3, <3>1, SameOwners DEF DrainCheck
  <2> QED
    BY <2>2, <2>3
<1>16. CASE TakeAll
  <2>1. Draining /\ \A u \in Threads : ~Adding(u)
    BY <1>16 DEF TakeAll, Draining, ScheduledIsOwned
  <2>2. Draining' /\ \A u \in Threads : ~Adding(u)'
    <3>1. CASE head = Null
      BY <1>16, <1>m, <1>p, <2>1, <3>1, Move DEF TakeAll, Goto
    <3>2. CASE head # Null
      BY <1>16, <1>m, <1>p, <2>1, <3>2, Move DEF TakeAll, Goto
    <3> QED
      BY <3>1, <3>2
  <2> QED
    BY <1>16, <2>1, <2>2, SameOwners DEF TakeAll
<1>17. CASE DeleteItem
  <2>1. Draining /\ \A u \in Threads : ~Adding(u)
    BY <1>17 DEF DeleteItem, Draining, Deleting, ScheduledIsOwned
  <2>2. Draining' /\ \A u \in Threads : ~Adding(u)'
    <3>1. CASE Last
      BY <1>17, <1>m, <1>p, <2>1, <3>1, Move DEF DeleteItem, Goto
    <3>2. CASE ~Last
      BY <1>17, <1>m, <1>p, <2>1, <3>2, Move DEF DeleteItem, Goto
    <3> QED
      BY <3>1, <3>2
  <2> QED
    BY <1>17, <2>1, <2>2, SameOwners DEF DeleteItem
<1>18. CASE DrainClear
  <2>1. /\ Draining /\ scheduled /\ pending = 0
        /\ \A u \in Threads : ~Adding(u) /\ ~storing[u]
    BY <1>18 DEF DrainClear, Draining, ScheduledIsOwned
  <2>2. ~Draining' /\ \A u \in Threads : ~Adding(u)'
    BY <1>18, <1>m, <1>p, <2>1, Move DEF DrainClear, Goto, ScheduleSteps
  <2>3. CASE StoreBuffers
    <3>1. scheduled' /\ pending' = 0 /\ \A u \in Threads : storing'[u] <=> u = Main
      BY <1>18, <2>1, <2>3 DEF DrainClear, StoreNotScheduled, TypeOK
    <3> QED
      BY <1>m, <2>2, <3>1 DEF ScheduledIsOwned
  <2>4. CASE ~StoreBuffers
    <3>1. ~scheduled' /\ pending' = 0 /\ \A u \in Threads : ~storing'[u]
      BY <1>18, <2>1, <2>4 DEF DrainClear, StoreNotScheduled
    <3> QED
      BY <2>2, <3>1 DEF ScheduledIsOwned
  <2> QED
    BY <2>3, <2>4
<1>19. CASE DrainRecheck
  <2>1. \A u \in Threads :
           /\ pc'[u] = IF u = Main THEN (IF MoreWork THEN "accepting?" ELSE "idle")
                       ELSE pc[u]
           /\ ret'[u] = IF u = Main THEN "idle" ELSE ret[u]
    BY <1>19, <1>m DEF DrainRecheck, Goto, TypeOK
  <2>2. Draining' <=> Draining
    BY <1>19, <1>m, <2>1 DEF Draining, Deleting, DrainRecheck, ScheduleSteps
  <2>3. \A u \in Threads : Adding(u)' <=> Adding(u)
    BY <1>19, <2>1 DEF Adding, DrainRecheck
  <2> QED
    BY <1>19, <2>2, <2>3, SameOwners DEF DrainRecheck
<1>20. CASE NestedRetry
  <2>1. \A u \in Threads :
           /\ pc'[u] = IF u = Main THEN "accepting?" ELSE pc[u]
           /\ ret'[u] = IF u = Main THEN "deleting" ELSE ret[u]
    BY <1>20, <1>m DEF NestedRetry, Goto, TypeOK
  <2>2. Draining' <=> Draining
    BY <1>20, <1>m, <2>1 DEF Draining, Deleting, NestedRetry, ScheduleSteps
  <2>3. \A u \in Threads : Adding(u)' <=> Adding(u)
    BY <1>20, <2>1 DEF Adding, NestedRetry
  <2> QED
    BY <1>20, <2>2, <2>3, SameOwners DEF NestedRetry
<1>21. CASE Finalize
  BY <1>21, SameOwners DEF Finalize, Draining, Deleting, Adding
<1>22. CASE UNCHANGED vars
  BY <1>22, SameOwners DEF vars, Draining, Deleting, Adding
<1> QED
  BY <1>1, <1>2, <1>3, <1>4, <1>5, <1>6, <1>7, <1>8, <1>9, <1>10, <1>11,
     <1>12, <1>13, <1>14, <1>15, <1>16, <1>17, <1>18, <1>19, <1>20, <1>21,
     <1>22
  DEF Next, Enqueue, Schedule, Drain

\* scheduled_ has one owner at a time, also when release stores are buffered.
THEOREM OneOwner == Spec => []ScheduledIsOwned
<1>1. Init => TypeOK /\ ScheduledIsOwned
  BY TypeInit, OwnedInit
<1>2. TypeOK /\ ScheduledIsOwned /\ [Next]_vars => (TypeOK /\ ScheduledIsOwned)'
  BY TypeNext, OwnedNext
<1> QED
  BY <1>1, <1>2, PTL DEF Spec

\* CPython's bounded pending-call queue never holds two drain calls of
\* cuda_core, nor one while a drain runs that still owns scheduled_.
THEOREM Coalesced == Spec => []AtMostOnePendingCall
<1>1. ScheduledIsOwned => AtMostOnePendingCall
  BY DEF ScheduledIsOwned, AtMostOnePendingCall
<1> QED
  BY <1>1, OneOwner, PTL

-----------------------------------------------------------------------------
(* No lost wake-up                                                         *)

\* The strengthening of QueuedWorkIsCovered that a step preserves: a thread
\* that gives scheduled_ back has been refused, and nobody stops the queue
\* before finalization.
CoverInv ==
    /\ QueuedWorkIsCovered
    /\ ~accepting => finalizing
    /\ \A t \in Threads : pc[t] = "unclaim" => refused

\* Nothing is queued at first.
LEMMA CoverInit == Init => CoverInv
  BY DEF Init, CoverInv, QueuedWorkIsCovered

\* Every step keeps queued payloads covered.
LEMMA CoverNext ==
    TypeOK /\ ScheduledIsOwned /\ ScheduledIsOwned' /\ CoverInv /\ [Next]_vars => CoverInv'
<1> SUFFICES ASSUME TypeOK, ScheduledIsOwned, ScheduledIsOwned', CoverInv, [Next]_vars
             PROVE  CoverInv'
  OBVIOUS
<1>m. Main \in Threads /\ CudaThreads \subseteq Threads /\ PyThreads \subseteq Threads
      /\ Main \notin CudaThreads
  BY DistinctThreads DEF Threads
<1>p. {"idle", "load", "push", "accepting?", "finalizing?", "head?", "claim",
        "add", "unclaim", "drain", "take", "delete", "deleting", "clear",
        "recheck"} \subseteq Steps
  BY DEF Steps, ScheduleSteps, DrainSteps
\* The conjuncts other than coverage.
<1>a. (~accepting => finalizing)'
  BY DEF CoverInv, Next, vars, Allocate, Retire, Enqueue, LoadHead, Push, Retry,
         Schedule, CheckAccepting, CheckFinalizing, CheckHead, Claim, AddPendingCall,
         RefusePendingCall, Unclaim, Flush, RunPendingCall, Drain, DrainCheck, MustLeak,
         TakeAll, DeleteItem, DrainClear, DrainRecheck, NestedRetry, Finalize
\* A thread is at "unclaim" only after its own call was refused, and it alone
\* is then past the claim.
<1>c. ASSUME NEW u \in Threads, pc'[u] = "unclaim" PROVE refused'
  <2>1. CASE pc[u] = "unclaim"
    <3>1. refused /\ \A t \in Threads : pc[t] # "add"
      BY <2>1 DEF CoverInv, ScheduledIsOwned, Adding
    <3> QED
      BY <3>1 DEF vars, Next, Allocate, Retire, Enqueue, LoadHead, Push, Retry,
         Schedule, CheckAccepting, CheckFinalizing, CheckHead, Claim, AddPendingCall,
         RefusePendingCall, Unclaim, Flush, RunPendingCall, Drain, DrainCheck,
         TakeAll, DeleteItem, DrainClear, DrainRecheck, NestedRetry, Finalize
  <2>2. CASE pc[u] # "unclaim"
    <3>1. \A t \in Threads, s \in Steps :
             pc' = [pc EXCEPT ![t] = s] => t = u /\ s = "unclaim"
      BY <1>c, <2>2 DEF TypeOK
    <3>2. \A t \in Threads : ret[t] # "unclaim" /\ ret[t] \in Steps
      BY <1>p DEF TypeOK
    <3>3. pc' # pc
      BY <1>c, <2>2
    <3>4. \E t \in Threads : RefusePendingCall(t)
      <4>1. ASSUME NEW t \in CudaThreads, NEW i \in Items, Retire(t, i) PROVE FALSE
        BY <1>m, <1>p, <3>1, <4>1 DEF Retire, Goto
      <4>2. ASSUME NEW t \in CudaThreads, Enqueue(t) PROVE FALSE
        BY <1>m, <1>p, <3>1, <3>3, <4>2 DEF Enqueue, LoadHead, Push, Goto
      <4>3. ASSUME NEW t \in PyThreads \cup {Main}, Retry(t) PROVE FALSE
        BY <1>m, <1>p, <3>1, <4>3 DEF Retry, Goto
      <4>4. ASSUME NEW t \in Threads, Schedule(t) PROVE RefusePendingCall(t)
        BY <1>p, <3>1, <3>2, <4>4 DEF Schedule, CheckAccepting, CheckFinalizing,
           CheckHead, Claim, AddPendingCall, Unclaim, Return, Goto
      <4>5. CASE RunPendingCall \/ Drain \/ NestedRetry
        BY <1>m, <1>p, <3>1, <4>5 DEF RunPendingCall, Drain, DrainCheck, TakeAll,
           DeleteItem, DrainClear, DrainRecheck, NestedRetry, Goto
      <4>6. (\E i \in Items : Allocate(i)) \/ (\E t \in Threads : Flush(t)) \/ Finalize
               \/ UNCHANGED vars => pc' = pc
        BY DEF Allocate, Flush, Finalize, vars
      <4> QED
        BY <3>3, <4>1, <4>2, <4>3, <4>4, <4>5, <4>6 DEF Next
    <3> QED
      BY <3>4 DEF RefusePendingCall
  <2> QED
    BY <2>1, <2>2
\* Coverage.  D: who covers the work before the step; a step of a thread that
\* does not cover it itself keeps whoever does.
<1>d. ASSUME head' # Null, ~refused', ~missed', ~finalizing'
      PROVE  pending' > 0 \/ Draining' \/ \E t \in Threads : WillLook(t)'
  <2> DEFINE D == pending > 0 \/ Draining \/ \E t \in Threads : WillLook(t)
  <2>0. ~finalizing /\ accepting
    BY <1>d DEF CoverInv, vars, Next, Allocate, Retire, Enqueue, LoadHead, Push, Retry,
         Schedule, CheckAccepting, CheckFinalizing, CheckHead, Claim, AddPendingCall,
         RefusePendingCall, Unclaim, Flush, RunPendingCall, Drain, DrainCheck,
         TakeAll, DeleteItem, DrainClear, DrainRecheck, NestedRetry, Finalize
  <2>1. head # Null /\ ~refused /\ ~missed => D
    BY <2>0 DEF CoverInv, QueuedWorkIsCovered
  \* Thread t moves to s and covered nothing before: the others still cover.
  <2>2. ASSUME NEW t \in Threads, NEW s \in Steps, pc' = [pc EXCEPT ![t] = s],
               UNCHANGED <<ret, pending>>, ~WillLook(t), t # Main \/ ~Draining, D
        PROVE  pending' > 0 \/ Draining' \/ \E u \in Threads : WillLook(u)'
    <3>1. \A u \in Threads : u # t => pc'[u] = pc[u]
      BY <2>2 DEF TypeOK
    <3>2. t # Main => (Draining' <=> Draining)
      BY <2>2, Move
    <3>3. ASSUME NEW u \in Threads, WillLook(u) PROVE WillLook(u)'
      BY <2>2, <3>1, <3>3 DEF WillLook
    <3> QED
      BY <2>2, <3>2, <3>3
  \* Thread t moves to a step that looks at head_ itself.
  <2>3. ASSUME NEW t \in Threads,
               NEW s \in {"accepting?", "finalizing?", "head?", "claim", "add"},
               pc' = [pc EXCEPT ![t] = s]
        PROVE  \E u \in Threads : WillLook(u)'
    <3>1. pc'[t] = s
      BY <2>3 DEF TypeOK
    <3> QED
      BY <3>1 DEF WillLook, ScheduleSteps
  \* The same owners, the same program counters.
  <2>4. ASSUME UNCHANGED <<pc, ret, pending>>, D
        PROVE  pending' > 0 \/ Draining' \/ \E u \in Threads : WillLook(u)'
    BY <2>4 DEF Draining, Deleting, WillLook
  <2>5. ASSUME NEW i \in Items, Allocate(i)
        PROVE  pending' > 0 \/ Draining' \/ \E u \in Threads : WillLook(u)'
    BY <1>d, <2>1, <2>4, <2>5 DEF Allocate
  <2>6. ASSUME NEW t \in CudaThreads, NEW i \in Items, Retire(t, i)
        PROVE  pending' > 0 \/ Draining' \/ \E u \in Threads : WillLook(u)'
    <3>1. ~WillLook(t)
      BY <1>m, <2>6 DEF Retire, WillLook, ScheduleSteps
    <3> QED
      BY <1>d, <1>m, <1>p, <2>1, <2>2, <2>6, <3>1 DEF Retire, Goto
  <2>7. ASSUME NEW t \in CudaThreads, LoadHead(t)
        PROVE  pending' > 0 \/ Draining' \/ \E u \in Threads : WillLook(u)'
    <3>1. ~WillLook(t)
      BY <1>m, <2>7 DEF LoadHead, WillLook, ScheduleSteps
    <3> QED
      BY <1>d, <1>m, <1>p, <2>1, <2>2, <2>7, <3>1 DEF LoadHead, Goto
  <2>8. ASSUME NEW t \in CudaThreads, Push(t)
        PROVE  pending' > 0 \/ Draining' \/ \E u \in Threads : WillLook(u)'
    <3>1. CASE PushSucceeds(t)
      BY <1>m, <2>3, <2>8, <3>1 DEF Push, Goto
    <3>2. CASE ~PushSucceeds(t)
      BY <1>d, <2>1, <2>4, <2>8, <3>2 DEF Push
    <3> QED
      BY <3>1, <3>2
  <2>9. ASSUME NEW t \in PyThreads \cup {Main}, Retry(t)
        PROVE  pending' > 0 \/ Draining' \/ \E u \in Threads : WillLook(u)'
    BY <1>m, <2>3, <2>9 DEF Retry, Goto
  <2>10. ASSUME NEW t \in Threads, CheckAccepting(t)
         PROVE  pending' > 0 \/ Draining' \/ \E u \in Threads : WillLook(u)'
    BY <2>0, <2>3, <2>10 DEF CheckAccepting, Goto
  <2>11. ASSUME NEW t \in Threads, CheckFinalizing(t)
         PROVE  pending' > 0 \/ Draining' \/ \E u \in Threads : WillLook(u)'
    BY <2>0, <2>3, <2>11 DEF CheckFinalizing, Goto
  <2>12. ASSUME NEW t \in Threads, CheckHead(t)
         PROVE  pending' > 0 \/ Draining' \/ \E u \in Threads : WillLook(u)'
    BY <1>d, <2>3, <2>12 DEF CheckHead, Goto
  \* Whoever makes the claim fail covers the work instead.
  <2>13. ASSUME NEW t \in Threads, Claim(t)
         PROVE  pending' > 0 \/ Draining' \/ \E u \in Threads : WillLook(u)'
    <3>1. CASE MayClaim(t)
      BY <2>3, <2>13, <3>1 DEF Claim, Goto
    <3>2. CASE ~MayClaim(t)
      \* The store of its owner is not about to overwrite it.
      <4>0. \A u \in Threads : ~storing[u]
        BY <1>d, <2>13, <3>2 DEF Claim
      <4>1. \/ pending = 1
            \/ Draining
            \/ \E u \in Threads : Adding(u)
        BY <3>2, <4>0 DEF MayClaim, ScheduledIsOwned
      <4>2. ~refused /\ ~Adding(t) /\ pc[t] \in ScheduleSteps
        BY <1>d, <2>13 DEF Claim, Adding, ScheduleSteps
      <4>3. (Draining' <=> Draining) /\ \A u \in Threads : Adding(u)' <=> Adding(u)
        BY <2>13, <3>2, <4>2, ReturnKeeps DEF Claim
      <4>4. ASSUME NEW u \in Threads, Adding(u) PROVE WillLook(u)'
        <5>1. u # t /\ pc[u] = "add"
          BY <4>2, <4>4 DEF Adding, CoverInv
        <5>2. pc'[u] = "add"
          BY <2>13, <3>2, <5>1 DEF Claim, Return, Goto, TypeOK
        <5> QED
          BY <5>2 DEF WillLook, ScheduleSteps
      <4> QED
        BY <2>13, <4>1, <4>3, <4>4 DEF Claim
    <3> QED
      BY <3>1, <3>2
  <2>14. ASSUME NEW t \in Threads, AddPendingCall(t)
         PROVE  pending' > 0 \/ Draining' \/ \E u \in Threads : WillLook(u)'
    <3>1. pending' > 0
      BY <2>14 DEF AddPendingCall, TypeOK
    <3> QED
      BY <3>1
  <2>15. ASSUME NEW t \in Threads, RefusePendingCall(t) PROVE FALSE
    BY <1>d, <2>15 DEF RefusePendingCall
  <2>16. ASSUME NEW t \in Threads, Unclaim(t) PROVE FALSE
    BY <1>d, <2>16 DEF Unclaim, CoverInv
  <2>17. ASSUME NEW t \in Threads, Flush(t)
         PROVE  pending' > 0 \/ Draining' \/ \E u \in Threads : WillLook(u)'
    BY <1>d, <2>1, <2>4, <2>17 DEF Flush
  <2>18. CASE RunPendingCall
    BY <1>m, <1>p, <2>18, Move DEF RunPendingCall, Goto
  <2>19. CASE DrainCheck
    BY <1>m, <1>p, <2>0, <2>19, Move DEF DrainCheck, MustLeak, Goto
  <2>20. CASE TakeAll
    BY <1>d, <2>20 DEF TakeAll
  <2>21. CASE DeleteItem
    <3>1. CASE Last
      BY <1>m, <1>p, <2>21, <3>1, Move DEF DeleteItem, Goto
    <3>2. CASE ~Last
      BY <1>m, <1>p, <2>21, <3>2, Move DEF DeleteItem, Goto
    <3> QED
      BY <3>1, <3>2
  \* Between the store that clears scheduled_ and the last look at head_ the
  \* drain still covers the work by that look.
  <2>22. CASE DrainClear
    <3>1. pc'[Main] = "recheck"
      BY <1>m, <2>22 DEF DrainClear, Goto, TypeOK
    <3> QED
      BY <1>m, <3>1 DEF WillLook
  <2>23. CASE DrainRecheck
    BY <1>d, <1>m, <2>3, <2>23 DEF DrainRecheck, MoreWork, Goto
  <2>24. CASE NestedRetry
    BY <1>m, <2>3, <2>24 DEF NestedRetry, Goto
  <2>25. CASE Finalize
    BY <1>d, <2>25 DEF Finalize
  <2>26. CASE UNCHANGED vars
    BY <1>d, <2>1, <2>4, <2>26 DEF vars
  <2> QED
    BY <2>5, <2>6, <2>7, <2>8, <2>9, <2>10, <2>11, <2>12, <2>13, <2>14, <2>15,
       <2>16, <2>17, <2>18, <2>19, <2>20, <2>21, <2>22, <2>23, <2>24, <2>25, <2>26
    DEF Next, Enqueue, Schedule, Drain
<1> QED
  BY <1>a, <1>c, <1>d DEF CoverInv, QueuedWorkIsCovered

\* No lost wake-up, whether or not release stores are buffered: with any number
\* of threads, queued payloads have a drain pending, running or about to be
\* requested, unless Py_AddPendingCall was refused, Python is finalizing, or a
\* thread backed off while the store that clears scheduled_ was on its way.
THEOREM NoLostWakeup == Spec => []QueuedWorkIsCovered
<1>1. Init => TypeOK /\ ScheduledIsOwned /\ CoverInv
  BY TypeInit, OwnedInit, CoverInit
<1>2. TypeOK /\ ScheduledIsOwned /\ CoverInv /\ [Next]_vars
        => (TypeOK /\ ScheduledIsOwned /\ CoverInv)'
  BY TypeNext, OwnedNext, CoverNext
<1>3. CoverInv => QueuedWorkIsCovered
  BY DEF CoverInv
<1> QED
  BY <1>1, <1>2, <1>3, PTL DEF Spec

-----------------------------------------------------------------------------
(* What is linked from a payload                                           *)

\* A non-empty set of naturals has a least element: the form of induction
\* that the lemmas on Linked use.
LEMMA LeastElement ==
    ASSUME NEW T, T \subseteq Nat, T # {}
    PROVE  \E n \in T : \A m \in T : n <= m
<1>1. IsWellFoundedOn(OpToRel(<, Nat), Nat)
  BY NatLessThanWellFounded
<1>2. PICK n \in T : \A m \in T : ~ (<<m, n>> \in OpToRel(<, Nat))
  BY <1>1, WFMin
<1>3. \A m \in T : ~ (m < n)
  BY <1>2 DEF OpToRel
<1> QED
  BY <1>3

\* The payloads one link further, and the table of those within n links.
Further(f, s) == s \cup ({f[i] : i \in s} \ {Null})
Table(f, p, m, g) ==
    g = [n \in 0 .. m |-> IF n = 0 THEN {p} \ {Null} ELSE Further(f, g[n-1])]

\* The recursion that defines Linked has a solution, of any length.
LEMMA TableExists ==
    ASSUME NEW f, NEW p, NEW m \in Nat
    PROVE  \E g : Table(f, p, m, g)
<1> DEFINE T == {n \in Nat : ~ \E g : Table(f, p, n, g)}
<1>1. SUFFICES ASSUME T # {} PROVE FALSE
  OBVIOUS
<1>2. PICK n \in T : \A k \in T : n <= k
  BY <1>1, LeastElement
<1>3. CASE n = 0
  <2>1. Table(f, p, 0, [k \in 0 .. 0 |-> {p} \ {Null}])
    BY DEF Table
  <2> QED
    BY <1>2, <1>3, <2>1
<1>4. CASE n # 0
  <2>1. n - 1 \in Nat /\ n - 1 \notin T
    BY <1>2, <1>4
  <2>2. PICK g : Table(f, p, n - 1, g)
    BY <2>1
  <2>3. \A k \in 0 .. n - 1 : g[k] = IF k = 0 THEN {p} \ {Null} ELSE Further(f, g[k-1])
    BY <2>2 DEF Table
  <2>4. PICK h : h = [k \in 0 .. n |-> IF k = 0 THEN {p} \ {Null} ELSE Further(f, g[k-1])]
    OBVIOUS
  <2>5. ASSUME NEW k \in 0 .. n - 1 PROVE h[k] = g[k]
    <3>1. k \in 0 .. n
      BY <1>2
    <3>2. h[k] = IF k = 0 THEN {p} \ {Null} ELSE Further(f, g[k-1])
      BY <2>4, <3>1
    <3> QED
      BY <2>3, <3>2
  <2>6. \A k \in 0 .. n : k # 0 => h[k-1] = g[k-1]
    BY <1>2, <2>5
  <2>7. h = [k \in 0 .. n |-> IF k = 0 THEN {p} \ {Null} ELSE Further(f, h[k-1])]
    BY <2>4, <2>6
  <2>8. Table(f, p, n, h)
    BY <2>7 DEF Table
  <2> QED
    BY <1>2, <2>8
<1> QED
  BY <1>3, <1>4

\* So Linked is the last entry of such a table.
LastOf(f, p, W) ==
    /\ Linked(f, p) = W[Cardinality(Items)]
    /\ W[0] = {p} \ {Null}
    /\ \A n \in 1 .. Cardinality(Items) : W[n] = Further(f, W[n-1])

LEMMA LinkedIsLast == ASSUME NEW f, NEW p PROVE \E W : LastOf(f, p, W)
<1> DEFINE N == Cardinality(Items)
           W == CHOOSE g : Table(f, p, N, g)
<1>1. N \in Nat
  BY ItemsAreFinite, FS_CardinalityType
<1>2. Linked(f, p) = W[N]
  BY DEF Linked, Table, Further
<1>3. Table(f, p, N, W)
  <2>1. \E g : Table(f, p, N, g)
    BY <1>1, TableExists
  <2> HIDE DEF N
  <2> QED
    BY <2>1
<1>4. \A n \in 0 .. N : W[n] = IF n = 0 THEN {p} \ {Null} ELSE Further(f, W[n-1])
  <2> HIDE DEF W, N
  <2>1. W = [n \in 0 .. N |-> IF n = 0 THEN {p} \ {Null} ELSE Further(f, W[n-1])]
    BY <1>3 DEF Table
  <2> QED
    BY <2>1
<1>5. W[0] = {p} \ {Null} /\ \A n \in 1 .. N : W[n] = Further(f, W[n-1])
  <2> HIDE DEF W, N
  <2> QED
    BY <1>1, <1>4
<1>6. LastOf(f, p, W)
  <2> HIDE DEF W
  <2> QED
    BY <1>2, <1>5 DEF LastOf
<1> QED
  BY <1>6

\* s is closed under the links f.
Closed(f, s) == \A i \in s : f[i] # Null => f[i] \in s

\* What next may be.
Links == [Items -> Items \cup {Null}]

\* Linked(f, p) holds payloads, p first, and is closed under the links: within
\* Cardinality(Items) links nothing new can appear.
LEMMA LinkedClosed ==
    ASSUME NEW f \in Links, NEW p \in Items \cup {Null}
    PROVE  /\ Linked(f, p) \subseteq Items
           /\ {p} \ {Null} \subseteq Linked(f, p)
           /\ Closed(f, Linked(f, p))
<1> DEFINE N == Cardinality(Items)
<1>1. N \in Nat
  BY ItemsAreFinite, FS_CardinalityType
<1>w. PICK W : LastOf(f, p, W)
  BY LinkedIsLast
<1>2. /\ Linked(f, p) = W[N]
      /\ W[0] = {p} \ {Null}
      /\ \A n \in 1 .. N : W[n] = Further(f, W[n-1])
  BY <1>w DEF LastOf
<1> DEFINE Good(n) == /\ W[n] \subseteq Items
                      /\ {p} \ {Null} \subseteq W[n]
                      /\ Closed(f, W[n]) \/ Cardinality(W[n]) >= n + 1
           T == {n \in 0 .. N : ~Good(n)}
<1> HIDE DEF N
<1>3. Good(0)
  <2>1. CASE p = Null
    BY <1>2, <2>1 DEF Closed
  <2>2. CASE p # Null
    <3>1. W[0] = {p}
      BY <1>2, <2>2
    <3> QED
      BY <2>2, <3>1, FS_Singleton
  <2> QED
    BY <2>1, <2>2
<1>4. ASSUME NEW n \in 1 .. N, Good(n-1) PROVE Good(n)
  <2> DEFINE s == W[n-1]
  <2>1. W[n] = Further(f, s)
    BY <1>2
  <2>2. s \subseteq Items /\ {p} \ {Null} \subseteq s /\ IsFiniteSet(s)
    BY <1>4, ItemsAreFinite, FS_Subset
  <2>3. W[n] \subseteq Items /\ {p} \ {Null} \subseteq W[n] /\ s \subseteq W[n]
    BY <2>1, <2>2 DEF Further, Links
  <2> HIDE DEF s
  <2>4. CASE Closed(f, s)
    <3>1. W[n] = s
      BY <2>1, <2>4 DEF Further, Closed
    <3> QED
      BY <2>3, <2>4, <3>1
  <2>5. CASE ~Closed(f, s)
    <3>1. PICK i \in s : f[i] # Null /\ f[i] \notin s
      BY <2>5 DEF Closed
    <3>2. s \cup {f[i]} \subseteq W[n]
      BY <2>1, <3>1 DEF Further
    <3>3. Cardinality(s) >= n /\ Cardinality(s) \in Nat
      BY <1>1, <1>4, <2>2, <2>5, FS_CardinalityType DEF s
    <3>4. Cardinality(s \cup {f[i]}) = Cardinality(s) + 1
      BY <2>2, <3>1, FS_AddElement
    <3>5. IsFiniteSet(W[n]) /\ Cardinality(W[n]) \in Nat
      BY <2>3, ItemsAreFinite, FS_Subset, FS_CardinalityType
    <3>6. Cardinality(s \cup {f[i]}) <= Cardinality(W[n])
      BY <3>2, <3>5, FS_Subset
    <3>7. Cardinality(W[n]) >= n + 1
      BY <3>3, <3>4, <3>5, <3>6
    <3> QED
      BY <2>3, <3>7
  <2> QED
    BY <2>4, <2>5
<1>5. \A n \in 0 .. N : Good(n)
  <2>1. SUFFICES ASSUME T # {} PROVE FALSE
    OBVIOUS
  <2>2. PICK n \in T : \A k \in T : n <= k
    <3>1. T \subseteq Nat
      OBVIOUS
    <3> HIDE DEF T
    <3> QED
      BY <2>1, <3>1, LeastElement
  <2>3. n # 0 /\ n \in 1 .. N
    BY <1>1, <1>3, <2>2
  <2>4. n - 1 \in 0 .. N /\ ~ (n <= n - 1)
    BY <1>1, <2>3
  <2>5. Good(n-1)
    BY <2>2, <2>4
  <2> HIDE DEF Good
  <2>6. Good(n)
    BY <1>4, <2>3, <2>5
  <2> QED
    BY <2>2, <2>6
<1>6. Good(N)
  <2> HIDE DEF Good
  <2> QED
    BY <1>1, <1>5
<1>7. Cardinality(W[N]) <= N
  BY <1>6, ItemsAreFinite, FS_Subset DEF N
<1>8. Cardinality(W[N]) \in Nat
  BY <1>6, ItemsAreFinite, FS_Subset, FS_CardinalityType
<1>9. Closed(f, W[N])
  BY <1>1, <1>6, <1>7, <1>8
<1> QED
  BY <1>2, <1>6, <1>9

\* It is the least such set.
LEMMA LinkedLeast ==
    ASSUME NEW f, NEW p, NEW s, {p} \ {Null} \subseteq s, Closed(f, s)
    PROVE  Linked(f, p) \subseteq s
<1> DEFINE N == Cardinality(Items)
<1>1. N \in Nat
  BY ItemsAreFinite, FS_CardinalityType
<1>w. PICK W : LastOf(f, p, W)
  BY LinkedIsLast
<1>2. /\ Linked(f, p) = W[N]
      /\ W[0] = {p} \ {Null}
      /\ \A n \in 1 .. N : W[n] = Further(f, W[n-1])
  BY <1>w DEF LastOf
<1> DEFINE T == {n \in 0 .. N : ~ (W[n] \subseteq s)}
<1> HIDE DEF N
<1>3. SUFFICES ASSUME T # {} PROVE FALSE
  BY <1>1, <1>2
<1>4. PICK n \in T : \A k \in T : n <= k
  <2>1. T \subseteq Nat
    OBVIOUS
  <2> HIDE DEF T
  <2> QED
    BY <1>3, <2>1, LeastElement
<1>5. n # 0 /\ n \in 1 .. N
  BY <1>1, <1>2, <1>4
<1>6. n - 1 \in 0 .. N /\ ~ (n <= n - 1)
  BY <1>1, <1>5
<1>7. W[n-1] \subseteq s
  BY <1>4, <1>6
<1>8. W[n] \subseteq s
  BY <1>2, <1>5, <1>7 DEF Further, Closed
<1> QED
  BY <1>4, <1>8

\* Nothing is linked from the null pointer.
LEMMA LinkedNull == ASSUME NEW f PROVE Linked(f, Null) = {}
  BY LinkedLeast DEF Closed

\* What is linked from a payload is itself and what is linked from the next.
LEMMA LinkedNext ==
    ASSUME NEW f \in Links, NEW p \in Items
    PROVE  Linked(f, p) = {p} \cup Linked(f, f[p])
<1>1. f[p] \in Items \cup {Null}
  BY DEF Links
<1>2. /\ Closed(f, Linked(f, p)) /\ p \in Linked(f, p)
      /\ Closed(f, Linked(f, f[p])) /\ {f[p]} \ {Null} \subseteq Linked(f, f[p])
  BY <1>1, LinkedClosed, NullIsNoItem
<1>3. Linked(f, p) \subseteq {p} \cup Linked(f, f[p])
  <2>1. Closed(f, {p} \cup Linked(f, f[p]))
    BY <1>2 DEF Closed
  <2> QED
    BY <2>1, LinkedLeast
<1>4. Linked(f, f[p]) \subseteq Linked(f, p)
  <2>1. {f[p]} \ {Null} \subseteq Linked(f, p)
    BY <1>2 DEF Closed
  <2> QED
    BY <1>2, <2>1, LinkedLeast
<1> QED
  BY <1>2, <1>3, <1>4

\* Links elsewhere do not matter.
LEMMA LinkedSame ==
    ASSUME NEW f \in Links, NEW g \in Links, NEW p \in Items \cup {Null},
           \A i \in Linked(f, p) : g[i] = f[i]
    PROVE  Linked(g, p) = Linked(f, p)
<1>1. /\ Closed(f, Linked(f, p)) /\ {p} \ {Null} \subseteq Linked(f, p)
      /\ Closed(g, Linked(g, p)) /\ {p} \ {Null} \subseteq Linked(g, p)
  BY LinkedClosed
<1>2. Linked(g, p) \subseteq Linked(f, p)
  <2>1. Closed(g, Linked(f, p))
    BY <1>1 DEF Closed
  <2> QED
    BY <1>1, <2>1, LinkedLeast
<1>3. Linked(f, p) \subseteq Linked(g, p)
  <2>1. Closed(f, Linked(g, p))
    BY <1>1, <1>2 DEF Closed
  <2> QED
    BY <1>1, <2>1, LinkedLeast
<1> QED
  BY <1>2, <1>3

-----------------------------------------------------------------------------
(* No payload is lost                                                      *)

\* Enqueuing: thread t has a payload in hand that is not linked yet.
Pushing(t) == pc[t] \in {"load", "push"}

\* The payloads that wait to be deleted.
Queued == {i \in Items : owner[i] = "queue"}

\* The drain may delete: it is in the loop, or about to detach the stack.
MayDelete == pc[Main] = "take" \/ Deleting

\* NoPayloadLost and what keeps it: the links have no cycle, the payload of a
\* push is one thread's own and not linked, and nothing stays on the detached
\* list when the drain's loop ends.
Chains ==
    /\ Linked(next, head) \cup Linked(next, list) = Queued
    /\ Linked(next, head) \cap Linked(next, list) = {}
    /\ \A i \in Queued : i \notin Linked(next, next[i])
    /\ \A t \in Threads : Pushing(t) => owner[item[t]] = "push"
    /\ \A t, u \in Threads : Pushing(t) /\ Pushing(u) /\ item[t] = item[u] => t = u
    /\ list # Null => Deleting
    /\ MayDelete => ~finalizing

\* Nothing is queued or being pushed at first.
LEMMA ChainsInit == Init => Chains
<1> SUFFICES ASSUME Init PROVE Chains
  OBVIOUS
<1>1. Main \in Threads
  BY DEF Threads
<1>2. Linked(next, Null) = {}
  BY LinkedNull
<1> QED
  BY <1>1, <1>2 DEF Init, Chains, Queued, Pushing, MayDelete, Deleting, ScheduleSteps

\* A step that leaves the links, the payloads and the place in the drain.
LEMMA ChainsSame ==
    ASSUME Chains, UNCHANGED <<head, next, list, owner, item, finalizing>>,
           \A t \in Threads : Pushing(t)' => Pushing(t),
           list # Null => Deleting', MayDelete' => MayDelete
    PROVE  Chains'
  BY DEF Chains, Queued

\* A step inside schedule(), or out of it, leaves them.
LEMMA ScheduleKeepsPlace ==
    ASSUME TypeOK, NEW t \in Threads, NEW s, pc[t] \in ScheduleSteps,
           s \in ScheduleSteps \/ s = ret[t],
           pc' = [pc EXCEPT ![t] = s], UNCHANGED ret
    PROVE  /\ \A u \in Threads : Pushing(u)' => Pushing(u)
           /\ Deleting => Deleting'
           /\ MayDelete' => MayDelete
<1>m. Main \in Threads
  BY DEF Threads
<1>1. \A u \in Threads : pc'[u] = IF u = t THEN s ELSE pc[u]
  BY DEF TypeOK
<1>2. s \notin {"load", "push", "take", "delete"} /\ (s = "deleting" => s = ret[t])
  BY DEF TypeOK, ScheduleSteps
<1>3. \A u \in Threads : Pushing(u)' => Pushing(u)
  BY <1>1, <1>2 DEF Pushing
<1>4. CASE t = Main
  <2>1. (Deleting <=> ret[Main] = "deleting") /\ pc[Main] # "take"
    BY <1>4 DEF Deleting, ScheduleSteps
  <2>2. Deleting' <=> ret[Main] = "deleting"
    <3>1. CASE s \in ScheduleSteps
      BY <1>m, <1>1, <1>4, <3>1 DEF Deleting, ScheduleSteps
    <3>2. CASE s = ret[t]
      BY <1>m, <1>1, <1>4, <3>2 DEF Deleting, ScheduleSteps, TypeOK
    <3> QED
      BY <3>1, <3>2
  <2>3. pc'[Main] # "take"
    BY <1>m, <1>1, <1>2, <1>4
  <2> QED
    BY <1>3, <2>1, <2>2, <2>3 DEF MayDelete
<1>5. CASE t # Main
  <2>1. pc'[Main] = pc[Main]
    BY <1>m, <1>1, <1>5
  <2> QED
    BY <1>3, <2>1 DEF MayDelete, Deleting
<1> QED
  BY <1>4, <1>5

\* Every step of schedule() keeps the chains.
LEMMA ScheduleKeepsChains ==
    ASSUME TypeOK, Chains, NEW t \in Threads, Schedule(t)
    PROVE  Chains'
<1>1. /\ pc[t] \in ScheduleSteps
      /\ UNCHANGED <<head, next, list, owner, item, finalizing, ret>>
  BY DEF Schedule, CheckAccepting, CheckFinalizing, CheckHead, Claim,
         AddPendingCall, RefusePendingCall, Unclaim, ScheduleSteps
<1>2. PICK s : (s \in ScheduleSteps \/ s = ret[t]) /\ pc' = [pc EXCEPT ![t] = s]
  BY DEF Schedule, CheckAccepting, CheckFinalizing, CheckHead, Claim,
         AddPendingCall, RefusePendingCall, Unclaim, ScheduleSteps, Return, Goto
<1>3. /\ \A u \in Threads : Pushing(u)' => Pushing(u)
      /\ Deleting => Deleting'
      /\ MayDelete' => MayDelete
  BY <1>1, <1>2, ScheduleKeepsPlace
<1>4. list # Null => Deleting'
  BY <1>3 DEF Chains
<1> QED
  BY <1>1, <1>3, <1>4, ChainsSame

\* What the chains hold, link by link.
LEMMA ChainFacts ==
    ASSUME TypeOK, Chains
    PROVE  /\ Queued \subseteq Items
           /\ next \in Links
           /\ \A i \in Queued : Linked(next, next[i]) \subseteq Queued
           /\ Linked(next, head) \subseteq Queued /\ Linked(next, list) \subseteq Queued
<1>1. Queued \subseteq Items /\ next \in Links
  BY DEF Queued, Links, TypeOK
<1>2. Linked(next, head) \subseteq Queued /\ Linked(next, list) \subseteq Queued
  BY DEF Chains
<1>3. Closed(next, Queued)
  <2>1. Closed(next, Linked(next, head)) /\ Closed(next, Linked(next, list))
    BY <1>1, LinkedClosed DEF TypeOK
  <2> QED
    BY <2>1 DEF Closed, Chains
<1>4. ASSUME NEW i \in Queued PROVE Linked(next, next[i]) \subseteq Queued
  <2>1. {next[i]} \ {Null} \subseteq Queued
    BY <1>3 DEF Closed
  <2> QED
    BY <1>3, <2>1, LinkedLeast
<1> QED
  BY <1>1, <1>2, <1>4

\* A link set in a payload that is not queued changes no chain.
LEMMA LinkElsewhere ==
    ASSUME TypeOK, Chains, NEW x \in Items, x \notin Queued,
           NEW h \in Items \cup {Null}, next' = [next EXCEPT ![x] = h]
    PROVE  /\ Linked(next', head) = Linked(next, head)
           /\ Linked(next', list) = Linked(next, list)
           /\ \A i \in Queued : Linked(next', next'[i]) = Linked(next, next[i])
<1>1. next' \in Links /\ next \in Links /\ \A i \in Queued : next'[i] = next[i]
  BY DEF Links, TypeOK, Queued
<1>2. ASSUME NEW p \in Items \cup {Null}, Linked(next, p) \subseteq Queued
      PROVE  Linked(next', p) = Linked(next, p)
  <2>1. \A i \in Linked(next, p) : next'[i] = next[i]
    BY <1>1, <1>2
  <2> QED
    BY <1>1, <1>2, <2>1, LinkedSame
<1>3. ASSUME NEW i \in Queued PROVE Linked(next', next'[i]) = Linked(next, next[i])
  <2>1. next[i] \in Items \cup {Null} /\ next'[i] = next[i]
    BY <1>1 DEF Queued, TypeOK
  <2> QED
    BY <1>2, <2>1, ChainFacts
<1> QED
  BY <1>2, <1>3, ChainFacts DEF TypeOK


\* Every step keeps the chains.
LEMMA ChainsNext == TypeOK /\ Chains /\ [Next]_vars => Chains'
<1> SUFFICES ASSUME TypeOK, Chains, [Next]_vars PROVE Chains'
  OBVIOUS
<1>m. /\ Main \in Threads /\ CudaThreads \subseteq Threads /\ PyThreads \subseteq Threads
      /\ Main \notin CudaThreads
  BY DistinctThreads DEF Threads
<1>q. Linked(next, head) \subseteq Queued /\ Linked(next, list) \subseteq Queued
  BY DEF Chains
\* A step of the main thread outside schedule(): where it may delete.
<1>g. ASSUME NEW s, pc' = [pc EXCEPT ![Main] = s], s \notin ScheduleSteps
      PROVE  /\ \A u \in Threads : u # Main => (Pushing(u)' <=> Pushing(u))
             /\ Pushing(Main)' <=> s \in {"load", "push"}
             /\ MayDelete' <=> s \in {"take", "delete", "deleting"}
             /\ Deleting' <=> s \in {"delete", "deleting"}
  <2>1. \A u \in Threads : pc'[u] = IF u = Main THEN s ELSE pc[u]
    BY <1>g DEF TypeOK
  <2> QED
    BY <1>m, <1>g, <2>1 DEF Pushing, MayDelete, Deleting
\* A step of another thread: where the main thread may delete is unchanged.
<1>o. ASSUME NEW t \in Threads \ {Main}, NEW s, pc' = [pc EXCEPT ![t] = s],
             UNCHANGED ret \/ ret' = [ret EXCEPT ![t] = "idle"]
      PROVE  /\ \A u \in Threads : u # t => (Pushing(u)' <=> Pushing(u))
             /\ Pushing(t)' <=> s \in {"load", "push"}
             /\ MayDelete' <=> MayDelete
             /\ Deleting' <=> Deleting
  <2>1. \A u \in Threads : pc'[u] = IF u = t THEN s ELSE pc[u]
    BY <1>o DEF TypeOK
  <2>2. ret'[Main] = ret[Main]
    BY <1>m, <1>o DEF TypeOK
  <2> QED
    BY <1>m, <2>1, <2>2 DEF Pushing, MayDelete, Deleting
<1>1. ASSUME NEW i \in Items, Allocate(i) PROVE Chains'
  <2>1. Queued' = Queued
    BY <1>1 DEF Allocate, Queued, TypeOK
  <2>2. \A j \in Items : owner[j] = "push" => owner'[j] = "push"
    BY <1>1 DEF Allocate, TypeOK
  <2>3. \A t \in Threads : Pushing(t)' => Pushing(t) /\ item[t] \in Items
    BY <1>1 DEF Allocate, Pushing, TypeOK
  <2>4. (MayDelete' <=> MayDelete) /\ (Deleting' <=> Deleting)
    BY <1>1 DEF Allocate, MayDelete, Deleting
  <2> QED
    BY <1>1, <2>1, <2>2, <2>3, <2>4 DEF Chains, Allocate
<1>2. ASSUME NEW t \in CudaThreads, NEW i \in Items, Retire(t, i) PROVE Chains'
  <2>1. Queued' = Queued
    BY <1>2 DEF Retire, Queued, TypeOK
  <2>2. \A j \in Items : owner[j] = "push" \/ j = i <=> owner'[j] = "push"
    BY <1>2 DEF Retire, TypeOK
  <2>3. /\ \A u \in Threads : Pushing(u)' <=> Pushing(u) \/ u = t
        /\ MayDelete' <=> MayDelete
        /\ Deleting' <=> Deleting
    BY <1>m, <1>o, <1>2 DEF Retire, Goto, Pushing
  <2>4. \A u \in Threads : item'[u] = IF u = t THEN i ELSE item[u]
    BY <1>m, <1>2 DEF Retire, TypeOK
  <2>5. \A u \in Threads : Pushing(u) => u # t /\ owner[item[u]] = "push" /\ item[u] \in Items
    BY <1>2 DEF Retire, Pushing, Chains, TypeOK
  <2>6. owner[i] # "push" /\ \A u \in Threads : Pushing(u) => item[u] # i
    BY <1>2, <2>5 DEF Retire
  <2>7. /\ \A u \in Threads : Pushing(u)' => owner'[item'[u]] = "push"
        /\ \A u, v \in Threads : Pushing(u)' /\ Pushing(v)' /\ item'[u] = item'[v] => u = v
    BY <2>2, <2>3, <2>4, <2>5, <2>6 DEF Chains
  <2> QED
    BY <1>2, <2>1, <2>3, <2>7 DEF Chains, Retire
\* The payload that a push links is not queued, nor another thread's.
<1>x. ASSUME NEW t \in CudaThreads, Pushing(t)
      PROVE  item[t] \in Items /\ item[t] \notin Queued /\ owner[item[t]] = "push"
  BY <1>m, <1>x DEF Pushing, Queued, TypeOK, Chains
<1>3. ASSUME NEW t \in CudaThreads, LoadHead(t) PROVE Chains'
  <2>1. item[t] \in Items /\ item[t] \notin Queued
    BY <1>x, <1>3 DEF LoadHead, Pushing
  <2>2. /\ Linked(next', head) = Linked(next, head)
        /\ Linked(next', list) = Linked(next, list)
        /\ \A j \in Queued : Linked(next', next'[j]) = Linked(next, next[j])
    BY <1>3, <2>1, LinkElsewhere DEF LoadHead, TypeOK
  <2>3. /\ \A u \in Threads : Pushing(u)' <=> Pushing(u)
        /\ MayDelete' <=> MayDelete
        /\ Deleting' <=> Deleting
    BY <1>m, <1>o, <1>3 DEF LoadHead, Goto, Pushing
  <2>4. Queued' = Queued
    BY <1>3 DEF LoadHead, Queued
  <2> QED
    BY <1>3, <2>2, <2>3, <2>4 DEF Chains, LoadHead
<1>4. ASSUME NEW t \in CudaThreads, Push(t) PROVE Chains'
  <2> DEFINE x == item[t]
  <2>1. x \in Items /\ x \notin Queued /\ owner[x] = "push" /\ Pushing(t)
    BY <1>x, <1>4 DEF Push, Pushing
  <2>2. CASE PushSucceeds(t)
    <3>1. /\ next[x] = head /\ head' = x /\ owner' = [owner EXCEPT ![x] = "queue"]
          /\ UNCHANGED <<next, list, finalizing>>
      BY <1>4, <2>2 DEF Push, PushSucceeds
    <3>2. Queued' = Queued \cup {x}
      BY <2>1, <3>1 DEF Queued, TypeOK
    <3>3. Linked(next, x) = {x} \cup Linked(next, head)
      BY <2>1, <3>1, ChainFacts, LinkedNext
    <3>4. /\ \A u \in Threads : Pushing(u)' <=> Pushing(u) /\ u # t
          /\ MayDelete' <=> MayDelete
          /\ Deleting' <=> Deleting
      BY <1>m, <1>o, <1>4, <2>2 DEF Push, Goto
    <3>5. \A u \in Threads : u # t => item'[u] = item[u]
      BY <1>m, <1>4, <2>2 DEF Push, TypeOK
    <3>6. \A u \in Threads : Pushing(u) /\ u # t => item[u] # x /\ item[u] \in Items
      BY <1>m, <2>1 DEF Chains, TypeOK, Pushing
    <3>7. \A u \in Threads : Pushing(u) /\ u # t => owner'[item[u]] = "push"
      BY <3>1, <3>6 DEF Chains, TypeOK
    <3>8. /\ Linked(next', head') \cup Linked(next', list') = Queued'
          /\ Linked(next', head') \cap Linked(next', list') = {}
      BY <1>q, <2>1, <3>1, <3>2, <3>3 DEF Chains
    <3>9. \A j \in Queued' : j \notin Linked(next', next'[j])
      BY <1>q, <2>1, <3>1, <3>2 DEF Chains
    <3>10. list' # Null => Deleting'
      BY <3>1, <3>4 DEF Chains
    <3>11. MayDelete' => ~finalizing'
      BY <3>1, <3>4 DEF Chains
    <3>12. \A u \in Threads : Pushing(u)' => owner'[item'[u]] = "push"
      BY <3>4, <3>5, <3>7
    <3>13. \A u, v \in Threads : Pushing(u)' /\ Pushing(v)' /\ item'[u] = item'[v] => u = v
      BY <3>4, <3>5 DEF Chains
    <3> QED
      BY <3>8, <3>9, <3>10, <3>11, <3>12, <3>13 DEF Chains
  <2>3. CASE ~PushSucceeds(t)
    <3>1. /\ next' = [next EXCEPT ![x] = head]
          /\ UNCHANGED <<head, list, owner, item, pc, ret, finalizing>>
      BY <1>4, <2>3 DEF Push
    <3>2. /\ Linked(next', head) = Linked(next, head)
          /\ Linked(next', list) = Linked(next, list)
          /\ \A j \in Queued : Linked(next', next'[j]) = Linked(next, next[j])
      BY <2>1, <3>1, LinkElsewhere DEF TypeOK
    <3>3. /\ \A u \in Threads : Pushing(u)' <=> Pushing(u)
          /\ MayDelete' <=> MayDelete
          /\ Deleting' <=> Deleting
          /\ Queued' = Queued
      BY <3>1 DEF Pushing, MayDelete, Deleting, Queued
    <3> QED
      BY <3>1, <3>2, <3>3 DEF Chains
  <2> QED
    BY <2>2, <2>3
<1>5. ASSUME NEW t \in PyThreads \cup {Main}, Retry(t) PROVE Chains'
  <2>1. /\ \A u \in Threads : /\ pc'[u] = IF u = t THEN "accepting?" ELSE pc[u]
                              /\ ret'[u] = IF u = t THEN "idle" ELSE ret[u]
        /\ pc[t] = "idle" /\ t \in Threads
    BY <1>m, <1>5 DEF Retry, Goto, TypeOK
  <2>2. \A u \in Threads : Pushing(u)' => Pushing(u)
    BY <2>1 DEF Pushing
  <2>3. (Deleting' <=> Deleting) /\ (MayDelete' <=> MayDelete)
    BY <1>m, <2>1 DEF Deleting, MayDelete, ScheduleSteps
  <2>4. list # Null => Deleting'
    BY <2>3 DEF Chains
  <2> QED
    BY <1>5, <2>2, <2>3, <2>4, ChainsSame DEF Retry
<1>6. ASSUME NEW t \in Threads, Schedule(t) PROVE Chains'
  BY <1>6, ScheduleKeepsChains
<1>7. ASSUME NEW t \in Threads, Flush(t) PROVE Chains'
  <2>1. UNCHANGED <<head, next, list, owner, item, finalizing, pc, ret>>
    BY <1>7 DEF Flush
  <2>2. /\ \A u \in Threads : Pushing(u)' => Pushing(u)
        /\ list # Null => Deleting'
        /\ MayDelete' => MayDelete
    BY <2>1 DEF Pushing, MayDelete, Deleting, Chains
  <2> QED
    BY <2>1, <2>2, ChainsSame
<1>8. CASE RunPendingCall
  <2>1. /\ \A u \in Threads : Pushing(u)' => Pushing(u)
        /\ ~MayDelete'
    BY <1>m, <1>8
    DEF RunPendingCall, Goto, ScheduleSteps, Pushing, MayDelete, Deleting, TypeOK
  <2>2. list = Null
    BY <1>8 DEF RunPendingCall, Chains, Deleting, ScheduleSteps
  <2> QED
    BY <1>8, <2>1, <2>2, ChainsSame DEF RunPendingCall
<1>9. CASE DrainCheck
  <2>1. list = Null
    BY <1>9 DEF DrainCheck, Chains, Deleting, ScheduleSteps
  <2>2. CASE finalizing
    <3>1. /\ \A u \in Threads : Pushing(u)' => Pushing(u)
          /\ ~MayDelete'
      BY <1>g, <1>m, <1>9, <2>2 DEF DrainCheck, MustLeak, Goto, ScheduleSteps
    <3> QED
      BY <1>9, <2>1, <3>1, ChainsSame DEF DrainCheck
  <2>3. CASE ~finalizing
    <3>1. \A u \in Threads : Pushing(u)' => Pushing(u)
      BY <1>g, <1>m, <1>9, <2>3 DEF DrainCheck, MustLeak, Goto, ScheduleSteps
    <3>2. UNCHANGED <<head, next, list, owner, item, finalizing>>
      BY <1>9 DEF DrainCheck
    <3>3. Queued' = Queued
      BY <3>2 DEF Queued
    <3> QED
      BY <2>1, <2>3, <3>1, <3>2, <3>3 DEF Chains
  <2> QED
    BY <2>2, <2>3
<1>10. CASE TakeAll
  <2>1. list = Null /\ ~finalizing
    BY <1>10 DEF TakeAll, Chains, Deleting, MayDelete, ScheduleSteps
  <2>2. Linked(next, Null) = {}
    BY LinkedNull
  <2>3. /\ list' = head /\ head' = Null
        /\ UNCHANGED <<next, owner, item, finalizing>>
    BY <1>10 DEF TakeAll
  <2>4. \A u \in Threads : Pushing(u)' => Pushing(u)
    BY <1>m, <1>10 DEF TakeAll, Goto, Pushing, TypeOK
  <2>5. list' # Null => Deleting'
    <3>1. head # Null => pc'[Main] = "delete"
      BY <1>m, <1>10 DEF TakeAll, Goto, TypeOK
    <3> QED
      BY <2>3, <3>1 DEF Deleting
  <2>6. Queued' = Queued
    BY <2>3 DEF Queued
  <2>7. /\ Linked(next', head') \cup Linked(next', list') = Queued'
        /\ Linked(next', head') \cap Linked(next', list') = {}
    BY <2>1, <2>2, <2>3, <2>6 DEF Chains
  <2> QED
    BY <2>1, <2>3, <2>4, <2>5, <2>6, <2>7 DEF Chains
<1>11. CASE DeleteItem
  <2>1. Deleting /\ list \in Items /\ ~finalizing
    BY <1>11 DEF DeleteItem, Deleting, TypeOK, Chains, MayDelete
  <2>2. Linked(next, list) = {list} \cup Linked(next, next[list])
    BY <2>1, ChainFacts, LinkedNext
  <2>3. list \in Queued /\ list \notin Linked(next, next[list])
    BY <2>2 DEF Chains
  <2>4. /\ list' = next[list] /\ owner' = [owner EXCEPT ![list] = "free"]
        /\ UNCHANGED <<head, next, item, finalizing>>
    BY <1>11 DEF DeleteItem, Rest
  <2>5. Queued' = Queued \ {list}
    BY <2>1, <2>4 DEF Queued, TypeOK
  <2>6. /\ Linked(next', head') \cup Linked(next', list') = Queued'
        /\ Linked(next', head') \cap Linked(next', list') = {}
    BY <2>2, <2>3, <2>4, <2>5 DEF Chains
  <2>7. \A u \in Threads : Pushing(u)' => Pushing(u) /\ item[u] \in Items
    BY <1>g, <1>m, <1>11 DEF DeleteItem, Goto, ScheduleSteps, Pushing, TypeOK
  <2>8. list' # Null => Deleting'
    BY <1>g, <1>11, <2>4 DEF DeleteItem, Rest, Last, Goto, ScheduleSteps
  <2>9. \A u \in Threads : Pushing(u)' => owner'[item'[u]] = "push"
    BY <2>3, <2>4, <2>7 DEF Chains, Queued, TypeOK
  <2>10. \A u, v \in Threads : Pushing(u)' /\ Pushing(v)' /\ item'[u] = item'[v] => u = v
    BY <2>4, <2>7 DEF Chains
  <2>11. \A j \in Queued' : j \notin Linked(next', next'[j])
    BY <2>4, <2>5 DEF Chains
  <2> QED
    BY <2>1, <2>4, <2>6, <2>8, <2>9, <2>10, <2>11 DEF Chains
<1>12. CASE DrainClear
  <2>1. /\ \A u \in Threads : Pushing(u)' => Pushing(u)
        /\ ~MayDelete'
    BY <1>m, <1>12
    DEF DrainClear, Goto, ScheduleSteps, Pushing, MayDelete, Deleting, TypeOK
  <2>2. list = Null
    BY <1>12 DEF DrainClear, Chains, Deleting, ScheduleSteps
  <2> QED
    BY <1>12, <2>1, <2>2, ChainsSame DEF DrainClear
<1>13. CASE DrainRecheck
  <2>1. /\ \A u \in Threads : pc'[u] = IF u = Main THEN (IF MoreWork THEN "accepting?" ELSE "idle")
                                       ELSE pc[u]
        /\ \A u \in Threads : ret'[u] = IF u = Main THEN "idle" ELSE ret[u]
    BY <1>m, <1>13 DEF DrainRecheck, Goto, TypeOK
  <2>2. list = Null
    BY <1>13 DEF DrainRecheck, Chains, Deleting, ScheduleSteps
  <2>3. /\ \A u \in Threads : Pushing(u)' => Pushing(u)
        /\ ~MayDelete'
    BY <1>m, <2>1 DEF Pushing, MayDelete, Deleting, ScheduleSteps
  <2> QED
    BY <1>13, <2>2, <2>3, ChainsSame DEF DrainRecheck
<1>14. CASE NestedRetry
  <2>1. /\ \A u \in Threads : pc'[u] = IF u = Main THEN "accepting?" ELSE pc[u]
        /\ \A u \in Threads : ret'[u] = IF u = Main THEN "deleting" ELSE ret[u]
    BY <1>m, <1>14 DEF NestedRetry, Goto, TypeOK
  <2>2. Deleting /\ Deleting' /\ MayDelete
    BY <1>m, <1>14, <2>1 DEF NestedRetry, Deleting, MayDelete, ScheduleSteps
  <2>3. \A u \in Threads : Pushing(u)' => Pushing(u)
    BY <2>1 DEF Pushing
  <2> QED
    BY <1>14, <2>2, <2>3, ChainsSame DEF NestedRetry
<1>15. CASE Finalize
  <2>1. /\ UNCHANGED <<head, next, list, owner, item, pc, ret>>
        /\ pc[Main] = "idle"
    BY <1>15 DEF Finalize
  <2>2. ~MayDelete' /\ list = Null
    BY <2>1 DEF MayDelete, Deleting, Chains, ScheduleSteps
  <2>3. /\ \A u \in Threads : Pushing(u)' <=> Pushing(u)
        /\ Queued' = Queued
    BY <2>1 DEF Pushing, Queued
  <2> QED
    BY <2>1, <2>2, <2>3 DEF Chains
<1>16. CASE UNCHANGED vars
  <2>1. UNCHANGED <<head, next, list, owner, item, finalizing, pc, ret>>
    BY <1>16 DEF vars
  <2>2. /\ \A u \in Threads : Pushing(u)' => Pushing(u)
        /\ list # Null => Deleting'
        /\ MayDelete' => MayDelete
    BY <2>1 DEF Pushing, MayDelete, Deleting, Chains
  <2> QED
    BY <2>1, <2>2, ChainsSame
<1> QED
  BY <1>1, <1>2, <1>3, <1>4, <1>5, <1>6, <1>7, <1>8, <1>9, <1>10, <1>11,
     <1>12, <1>13, <1>14, <1>15, <1>16
  DEF Next, Enqueue, Drain

\* The chains hold in every reachable state.
LEMMA ChainsAlways == Spec => [](TypeOK /\ Chains)
<1>1. Init => TypeOK /\ Chains
  BY TypeInit, ChainsInit
<1>2. TypeOK /\ Chains /\ [Next]_vars => (TypeOK /\ Chains)'
  BY TypeNext, ChainsNext
<1> QED
  BY <1>1, <1>2, PTL DEF Spec

\* No payload is lost, linked twice or reachable once freed, whatever pushes,
\* drains and reuse of addresses race, for any number of threads and payloads.
THEOREM PayloadsKept == Spec => []NoPayloadLost
<1>1. Chains => NoPayloadLost
  BY DEF Chains, NoPayloadLost, LinkedFrom, Queued
<1> QED
  BY <1>1, ChainsAlways, PTL

\* What PayloadReclamation calls held.
Held == {i \in Items : owner[i] \in {"cuda", "push"}}

\* A step of the queue is one of the promise, or none.
LEMMA StepReclaims ==
    TypeOK /\ Chains /\ Chains' /\ [Next]_vars
      => [Reclamation!Next]_<<Held, Linked(next, head) \cup Linked(next, list),
                              finalizing>>
<1> SUFFICES ASSUME TypeOK, Chains, Chains', [Next]_vars
             PROVE  [Reclamation!Next]_<<Held, Linked(next, head) \cup Linked(next, list),
                                          finalizing>>
  OBVIOUS
<1> DEFINE retired == Linked(next, head) \cup Linked(next, list)
<1>r. retired = Queued /\ retired' = Queued'
  BY DEF Chains
<1>h. Held = {i \in Items : owner[i] \in {"cuda", "push"}}
      /\ Held' = {i \in Items : owner'[i] \in {"cuda", "push"}}
  BY DEF Held
<1>d. /\ \A i : Reclamation!Hand(i) <=>
              /\ i \notin Held \cup retired
              /\ Held' = Held \cup {i} /\ retired' = retired
              /\ finalizing' = finalizing
      /\ \A i : Reclamation!Retire(i) <=>
              /\ i \in Held
              /\ Held' = Held \ {i} /\ retired' = retired \cup {i}
              /\ finalizing' = finalizing
      /\ \A i : Reclamation!Destroy(i) <=>
              /\ i \in retired /\ ~finalizing
              /\ retired' = retired \ {i} /\ Held' = Held
              /\ finalizing' = finalizing
      /\ Reclamation!Finalize <=>
              ~finalizing /\ finalizing' = TRUE /\ Held' = Held /\ retired' = retired
  BY DEF Reclamation!Hand, Reclamation!Retire, Reclamation!Destroy, Reclamation!Finalize,
         Held, LinkedFrom
<1> HIDE DEF retired
\* The same owners: nothing happens to a payload.
<1>s. ASSUME UNCHANGED <<owner, finalizing>> PROVE UNCHANGED <<Held, retired, finalizing>>
  BY <1>s, <1>r, <1>h DEF Queued
<1>1. ASSUME NEW i \in Items, Allocate(i) PROVE Reclamation!Hand(i)
  <2>1. owner[i] = "free" /\ owner' = [owner EXCEPT ![i] = "cuda"] /\ finalizing' = finalizing
    BY <1>1 DEF Allocate
  <2>2. i \notin Held \cup Queued /\ Held' = Held \cup {i} /\ Queued' = Queued
    BY <1>h, <2>1 DEF Queued, TypeOK
  <2> QED
    BY <1>d, <1>r, <2>1, <2>2
<1>2. ASSUME NEW t \in CudaThreads, NEW i \in Items, Retire(t, i)
      PROVE  UNCHANGED <<Held, retired, finalizing>>
  <2>1. owner[i] = "cuda" /\ owner' = [owner EXCEPT ![i] = "push"] /\ finalizing' = finalizing
    BY <1>2 DEF Retire
  <2>2. Held' = Held /\ Queued' = Queued
    BY <1>h, <2>1 DEF Queued, TypeOK
  <2> QED
    BY <1>r, <2>1, <2>2
<1>3. ASSUME NEW t \in CudaThreads, NEW x \in Items, x = item[t], Push(t)
      PROVE  UNCHANGED <<Held, retired, finalizing>> \/ Reclamation!Retire(x)
  <2>1. CASE PushSucceeds(t)
    <3>1. owner' = [owner EXCEPT ![x] = "queue"] /\ finalizing' = finalizing
      BY <1>3, <2>1 DEF Push
    <3>2. owner[x] = "push"
      BY <1>3 DEF Push, Threads, Chains, Pushing
    <3>3. x \in Held /\ Held' = Held \ {x} /\ Queued' = Queued \cup {x}
      BY <1>h, <3>1, <3>2 DEF Queued, TypeOK
    <3> QED
      BY <1>d, <1>r, <3>1, <3>3
  <2>2. CASE ~PushSucceeds(t)
    BY <1>s, <1>3, <2>2 DEF Push
  <2> QED
    BY <2>1, <2>2
<1>4. ASSUME DeleteItem PROVE Reclamation!Destroy(list) /\ list \in Items
  <2>1. owner' = [owner EXCEPT ![list] = "free"] /\ finalizing' = finalizing
    BY <1>4 DEF DeleteItem
  <2>2. list \in Items /\ ~finalizing
    BY <1>4 DEF DeleteItem, Deleting, TypeOK, Chains, MayDelete
  <2>3. list \in Queued
    <3>1. list \in Linked(next, list)
      BY <2>2, ChainFacts, LinkedNext
    <3> QED
      BY <3>1 DEF Chains
  <2>4. Held' = Held /\ Queued' = Queued \ {list}
    BY <1>h, <2>1, <2>2, <2>3 DEF Queued, TypeOK
  <2> QED
    BY <1>d, <1>r, <2>1, <2>2, <2>3, <2>4
<1>5. ASSUME Finalize PROVE Reclamation!Finalize
  <2>1. ~finalizing /\ finalizing' = TRUE /\ owner' = owner
    BY <1>5 DEF Finalize
  <2>2. Held' = Held /\ Queued' = Queued
    BY <1>h, <2>1 DEF Queued
  <2> QED
    BY <1>d, <1>r, <2>1, <2>2
<1>6. ASSUME \/ \E t \in CudaThreads : LoadHead(t)
             \/ \E t \in PyThreads \cup {Main} : Retry(t)
             \/ \E t \in Threads : Schedule(t) \/ Flush(t)
             \/ RunPendingCall \/ DrainCheck \/ TakeAll \/ DrainClear \/ DrainRecheck
             \/ NestedRetry
             \/ UNCHANGED vars
      PROVE  UNCHANGED <<owner, finalizing>>
  BY <1>6 DEF LoadHead, Retry, Schedule, CheckAccepting, CheckFinalizing, CheckHead,
     Claim, AddPendingCall, RefusePendingCall, Unclaim, Flush, RunPendingCall,
     DrainCheck, TakeAll, DrainClear, DrainRecheck, NestedRetry, vars
<1>7. ASSUME NEW i \in Items, Reclamation!Hand(i) \/ Reclamation!Retire(i) \/ Reclamation!Destroy(i)
      PROVE  Reclamation!Next
  BY <1>7 DEF Reclamation!Next
<1>8. Reclamation!Finalize => Reclamation!Next
  BY DEF Reclamation!Next
<1>9. Reclamation!Next \/ UNCHANGED <<Held, retired, finalizing>>
  <2>1. ASSUME NEW t \in CudaThreads, Push(t)
        PROVE  Reclamation!Next \/ UNCHANGED <<Held, retired, finalizing>>
    <3>1. item[t] \in Items
      BY <2>1 DEF Push, TypeOK, Threads
    <3> QED
      BY <1>3, <1>7, <2>1, <3>1
  <2> QED
    BY <1>s, <1>1, <1>2, <1>4, <1>5, <1>6, <1>7, <1>8, <2>1 DEF Next, Enqueue, Drain
<1> QED
  BY <1>9 DEF retired

\* The queue keeps the promise of PayloadReclamation.
THEOREM ReclamationRefined == Spec => ImplementsReclamation
<1>1. Init => Reclamation!Init
  <2> SUFFICES ASSUME Init PROVE Reclamation!Init
    OBVIOUS
  <2>1. Linked(next, Null) = {}
    BY LinkedNull
  <2> QED
    BY <2>1 DEF Init, Reclamation!Init, LinkedFrom
<1>2. TypeOK /\ Chains /\ Chains' /\ [Next]_vars
        => [Reclamation!Next]_<<{i \in Items : owner[i] \in {"cuda", "push"}},
                                LinkedFrom(head) \cup LinkedFrom(list), finalizing>>
  BY StepReclaims DEF Held, LinkedFrom
<1> QED
  BY <1>1, <1>2, ChainsAlways, PTL DEF Spec, ImplementsReclamation, Reclamation!Spec
=============================================================================
