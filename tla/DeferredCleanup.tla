---------------------------- MODULE DeferredCleanup ----------------------------
(***************************************************************************)
(* The deferred-cleanup queue of cuda_core (_cpp/resource_handles.cpp):    *)
(* CUDA retires a payload on an internal thread on which CUDA calls are    *)
(* forbidden; the payload is pushed on a lock-free stack and one coalesced *)
(* CPython pending call drains the stack on Python's main thread.          *)
(*                                                                         *)
(* Every atomic operation of the code is one action, so the actions of     *)
(* the threads interleave exactly where the hardware lets them.  A thread  *)
(* is in the middle of enqueue(), schedule() or drain() according to its   *)
(* program counter.                                                        *)
(***************************************************************************)
EXTENDS Naturals, FiniteSets

CONSTANTS
    Items,          \* addresses at which payloads (DeferredCleanupItem) live
    CudaThreads,    \* CUDA's internal threads: they call enqueue_cleanup
    PyThreads,      \* threads that reach a retry point, other than the main one
    Main,           \* Python's main thread: the only one to run pending calls
    Null,           \* the null pointer
    PendingCallsFill, \* may CPython's bounded pending-call queue be full?
    StoreBuffers    \* does a release store become visible later (TSO), or at once?

ASSUME DistinctThreads ==
    /\ Main \notin CudaThreads \cup PyThreads
    /\ CudaThreads \cap PyThreads = {}
ASSUME NullIsNoItem == Null \notin Items
ASSUME ItemsAreFinite == IsFiniteSet(Items)
ASSUME Switches == PendingCallsFill \in BOOLEAN /\ StoreBuffers \in BOOLEAN

Threads == CudaThreads \cup PyThreads \cup {Main}

VARIABLES
    head,       \* head_: top of the intrusive stack
    next,       \* DeferredCleanupItem::next of every address
    scheduled,  \* scheduled_, as the other threads read it
    storing,    \* storing[t]: scheduled_.store(false) still in t's store buffer
    accepting,  \* accepting_
    owner,      \* who has the payload at an address (see Owners)
    pc,         \* where each thread is
    ret,        \* where schedule() returns to
    item,       \* item[t]: the argument of enqueue() on thread t
    list,       \* drain(): the detached list
    pending,    \* number of drain callbacks in CPython's pending-call queue
    finalizing, \* Py_IsFinalizing()
    refused,    \* history: the latest Py_AddPendingCall failed
    missed      \* history: since the latest Py_AddPendingCall that succeeded a thread
                \* backed off although scheduled_ = false was in a store buffer

vars == <<head, next, scheduled, storing, accepting, owner, pc, ret, item,
          list, pending, finalizing, refused, missed>>

\* "free": no object at the address; "cuda": owned by a CUDA user object;
\* "push": in enqueue(), not linked yet; "queue": linked.
Owners == {"free", "cuda", "push", "queue"}

ScheduleSteps == {"accepting?", "finalizing?", "head?", "claim", "add", "unclaim"}
DrainSteps == {"drain", "take", "delete", "deleting", "clear", "recheck"}
Steps == {"idle", "load", "push"} \cup ScheduleSteps \cup DrainSteps

\* The main thread is in drain()'s loop, maybe in a nested schedule().
Deleting ==
    \/ pc[Main] \in {"delete", "deleting"}
    \/ pc[Main] \in ScheduleSteps /\ ret[Main] = "deleting"

TypeOK ==
    /\ head \in Items \cup {Null}
    /\ next \in [Items -> Items \cup {Null}]
    /\ scheduled \in BOOLEAN
    /\ storing \in [Threads -> BOOLEAN]
    /\ accepting \in BOOLEAN
    /\ owner \in [Items -> Owners]
    /\ pc \in [Threads -> Steps]
    /\ ret \in [Threads -> {"idle", "deleting"}]
    /\ item \in [Threads -> Items \cup {Null}]
    /\ list \in Items \cup {Null}
    /\ pending \in Nat
    /\ finalizing \in BOOLEAN
    /\ refused \in BOOLEAN
    /\ missed \in BOOLEAN
    /\ \A t \in Threads : pc[t] \in {"load", "push"} => item[t] \in Items
    /\ Deleting => list \in Items

Init ==
    /\ head = Null
    /\ next = [i \in Items |-> Null]
    /\ scheduled = FALSE
    /\ storing = [t \in Threads |-> FALSE]
    /\ accepting = TRUE
    /\ owner = [i \in Items |-> "free"]
    /\ pc = [t \in Threads |-> "idle"]
    /\ ret = [t \in Threads |-> "idle"]
    /\ item = [t \in Threads |-> Null]
    /\ list = Null
    /\ pending = 0
    /\ finalizing = FALSE
    /\ refused = FALSE
    /\ missed = FALSE

-----------------------------------------------------------------------------
(* Helpers                                                                 *)

Goto(t, s) == pc' = [pc EXCEPT ![t] = s]

\* scheduled_.store(false, memory_order_release).  On hardware with store
\* buffers it may become visible only after the thread's following loads.
StoreNotScheduled(t) ==
    IF StoreBuffers
    THEN storing' = [storing EXCEPT ![t] = TRUE] /\ UNCHANGED scheduled
    ELSE scheduled' = FALSE /\ UNCHANGED storing

\* A read-modify-write, or a lock, waits for the thread's store buffer.
Drained(t) == ~storing[t]

\* The buffered store reaches memory.
Flush(t) ==
    /\ storing[t]
    /\ storing' = [storing EXCEPT ![t] = FALSE]
    /\ scheduled' = FALSE
    /\ UNCHANGED <<head, next, accepting, owner, pc, ret, item, list, pending,
                   finalizing, refused, missed>>

-----------------------------------------------------------------------------
(* The world around the queue                                              *)

\* A payload is allocated and handed to a CUDA user object.
Allocate(i) ==
    /\ owner[i] = "free"
    /\ owner' = [owner EXCEPT ![i] = "cuda"]
    /\ UNCHANGED <<head, next, scheduled, storing, accepting, pc, ret, item,
                   list, pending, finalizing, refused, missed>>

\* Py_FinalizeEx on the main thread, which is in no pending call.
Finalize ==
    /\ pc[Main] = "idle"
    /\ ~finalizing
    /\ finalizing' = TRUE
    /\ UNCHANGED <<head, next, scheduled, storing, accepting, owner, pc, ret,
                   item, list, pending, refused, missed>>

-----------------------------------------------------------------------------
(* enqueue_cleanup / DeferredCleanupQueue::enqueue                         *)

\* CUDA calls the destructor of the user object that owns item i.
Retire(t, i) ==
    /\ pc[t] = "idle"
    /\ owner[i] = "cuda"
    /\ owner' = [owner EXCEPT ![i] = "push"]
    /\ item' = [item EXCEPT ![t] = i]
    /\ Goto(t, "load")
    /\ UNCHANGED <<head, next, scheduled, storing, accepting, ret, list,
                   pending, finalizing, refused, missed>>

\* head = head_.load(relaxed); item->next = head.
LoadHead(t) ==
    /\ pc[t] = "load"
    /\ next' = [next EXCEPT ![item[t]] = head]
    /\ Goto(t, "push")
    /\ UNCHANGED <<head, scheduled, storing, accepting, owner, ret, item, list,
                   pending, finalizing, refused, missed>>

\* Mutant: the compare part of the compare-exchange is forgotten.
PushSucceeds_NoCompare(t) == TRUE

\* The head is still the one stored in item->next.
PushSucceeds(t) == head = next[item[t]]

\* compare_exchange_weak on head_; a failure reloads head and tries again.
Push(t) ==
    /\ pc[t] = "push"
    /\ Drained(t)
    /\ IF PushSucceeds(t)
       THEN /\ head' = item[t]
            /\ owner' = [owner EXCEPT ![item[t]] = "queue"]
            /\ item' = [item EXCEPT ![t] = Null]
            /\ ret' = [ret EXCEPT ![t] = "idle"]
            /\ Goto(t, "accepting?")
            /\ UNCHANGED next
       ELSE /\ next' = [next EXCEPT ![item[t]] = head]
            /\ UNCHANGED <<head, owner, item, ret, pc>>
    /\ UNCHANGED <<scheduled, storing, accepting, list, pending, finalizing,
                   refused, missed>>

-----------------------------------------------------------------------------
(* DeferredCleanupQueue::schedule                                          *)

Return(t) == Goto(t, ret[t])

\* A safe entry of cuda_core retries: ensure_deferred_cleanup_ready (prepare and
\* staging) at any time, retry_deferred_cleanup (graph destruction, explicit
\* close) only while the interpreter is not finalizing.
Retry(t) ==
    /\ pc[t] = "idle"
    /\ ret' = [ret EXCEPT ![t] = "idle"]
    /\ Goto(t, "accepting?")
    /\ UNCHANGED <<head, next, scheduled, storing, accepting, owner, item,
                   list, pending, finalizing, refused, missed>>

CheckAccepting(t) ==
    /\ pc[t] = "accepting?"
    /\ IF accepting THEN Goto(t, "finalizing?") ELSE Return(t)
    /\ UNCHANGED <<head, next, scheduled, storing, accepting, owner, ret, item,
                   list, pending, finalizing, refused, missed>>

\* During finalization schedule() calls stop() and gives up.
CheckFinalizing(t) ==
    /\ pc[t] = "finalizing?"
    /\ IF finalizing
       THEN accepting' = FALSE /\ Return(t)
       ELSE UNCHANGED accepting /\ Goto(t, "head?")
    /\ UNCHANGED <<head, next, scheduled, storing, owner, ret, item, list,
                   pending, finalizing, refused, missed>>

CheckHead(t) ==
    /\ pc[t] = "head?"
    /\ IF head = Null THEN Return(t) ELSE Goto(t, "claim")
    /\ UNCHANGED <<head, next, scheduled, storing, accepting, owner, ret, item,
                   list, pending, finalizing, refused, missed>>

\* Mutant: scheduled_ is tested and set, but nobody backs off.
MayClaim_Always(t) == TRUE

MayClaim(t) == ~scheduled

\* compare_exchange_strong(scheduled_, false -> true).
Claim(t) ==
    /\ pc[t] = "claim"
    /\ Drained(t)
    /\ IF MayClaim(t)
       THEN scheduled' = TRUE /\ Goto(t, "add") /\ UNCHANGED missed
       ELSE /\ missed' = (missed \/ \E u \in Threads : storing[u])
            /\ Return(t)
            /\ UNCHANGED scheduled
    /\ UNCHANGED <<head, next, storing, accepting, owner, ret, item, list,
                   pending, finalizing, refused>>

\* Py_AddPendingCall succeeds.
AddPendingCall(t) ==
    /\ pc[t] = "add"
    /\ pending' = pending + 1
    /\ refused' = FALSE
    /\ missed' = FALSE
    /\ Return(t)
    /\ UNCHANGED <<head, next, scheduled, storing, accepting, owner, ret, item,
                   list, finalizing>>

\* Py_AddPendingCall finds CPython's queue full.
RefusePendingCall(t) ==
    /\ pc[t] = "add"
    /\ PendingCallsFill
    /\ refused' = TRUE
    /\ Goto(t, "unclaim")
    /\ UNCHANGED <<head, next, scheduled, storing, accepting, owner, ret, item,
                   list, pending, finalizing, missed>>

\* ... and scheduled_ is given back, the payloads staying queued.
Unclaim(t) ==
    /\ pc[t] = "unclaim"
    /\ StoreNotScheduled(t)
    /\ Return(t)
    /\ UNCHANGED <<head, next, accepting, owner, ret, item, list, pending,
                   finalizing, refused, missed>>

-----------------------------------------------------------------------------
(* DeferredCleanupQueue::pending_call / drain, on the main thread          *)

\* The eval loop (or finalization) runs the pending call.
RunPendingCall ==
    /\ pc[Main] = "idle"
    /\ pending > 0
    /\ pending' = pending - 1
    /\ Goto(Main, "drain")
    /\ UNCHANGED <<head, next, scheduled, storing, accepting, owner, ret, item,
                   list, finalizing, refused, missed>>

\* Mutant: drain() does not ask whether the interpreter is finalizing.
MustLeak_Never == FALSE

MustLeak == finalizing

\* During finalization the payloads are leaked, intact.
DrainCheck ==
    /\ pc[Main] = "drain"
    /\ IF MustLeak
       THEN /\ accepting' = FALSE
            /\ StoreNotScheduled(Main)
            /\ Goto(Main, "idle")
       ELSE /\ Goto(Main, "take")
            /\ UNCHANGED <<accepting, scheduled, storing>>
    /\ UNCHANGED <<head, next, owner, ret, item, list, pending, finalizing,
                   refused, missed>>

\* list = head_.exchange(nullptr); the loop ends when it is null.
TakeAll ==
    /\ pc[Main] = "take"
    /\ Drained(Main)
    /\ list' = head
    /\ head' = Null
    /\ Goto(Main, IF head = Null THEN "clear" ELSE "delete")
    /\ UNCHANGED <<next, scheduled, storing, accepting, owner, ret, item,
                   pending, finalizing, refused, missed>>

\* The payload's destructor may destroy a graph, whose deleter retries.
NestedRetry ==
    /\ pc[Main] = "delete"
    /\ ret' = [ret EXCEPT ![Main] = "deleting"]
    /\ Goto(Main, "accepting?")
    /\ UNCHANGED <<head, next, scheduled, storing, accepting, owner, item,
                   list, pending, finalizing, refused, missed>>

\* Mutant: the list is deleted and only its first payload was.
Rest_Nothing == Null

Rest == next[list]

Last == Rest = Null

\* next = list->next; delete list; list = next.
DeleteItem ==
    /\ pc[Main] \in {"delete", "deleting"}
    /\ owner' = [owner EXCEPT ![list] = "free"]
    /\ list' = Rest
    /\ Goto(Main, IF Last THEN "take" ELSE "delete")
    /\ UNCHANGED <<head, next, scheduled, storing, accepting, ret, item,
                   pending, finalizing, refused, missed>>

\* scheduled_.store(false), before the last look at head_.
DrainClear ==
    /\ pc[Main] = "clear"
    /\ StoreNotScheduled(Main)
    /\ Goto(Main, "recheck")
    /\ UNCHANGED <<head, next, accepting, owner, ret, item, list, pending,
                   finalizing, refused, missed>>

\* Mutant: drain() does not look at head_ again.
MoreWork_Ignored == FALSE

MoreWork == head # Null

DrainRecheck ==
    /\ pc[Main] = "recheck"
    /\ ret' = [ret EXCEPT ![Main] = "idle"]
    /\ Goto(Main, IF MoreWork THEN "accepting?" ELSE "idle")
    /\ UNCHANGED <<head, next, scheduled, storing, accepting, owner, item,
                   list, pending, finalizing, refused, missed>>

-----------------------------------------------------------------------------

Enqueue(t) == LoadHead(t) \/ Push(t)

Schedule(t) ==
    \/ CheckAccepting(t) \/ CheckFinalizing(t) \/ CheckHead(t)
    \/ Claim(t) \/ AddPendingCall(t) \/ RefusePendingCall(t) \/ Unclaim(t)

Drain == DrainCheck \/ TakeAll \/ DeleteItem \/ DrainClear \/ DrainRecheck

Next ==
    \/ \E i \in Items : Allocate(i)
    \/ \E t \in CudaThreads : (\E i \in Items : Retire(t, i)) \/ Enqueue(t)
    \/ \E t \in PyThreads \cup {Main} : Retry(t)
    \/ \E t \in Threads : Schedule(t) \/ Flush(t)
    \/ RunPendingCall \/ Drain \/ NestedRetry
    \/ Finalize

Spec == Init /\ [][Next]_vars

(***************************************************************************)
(* Fairness: a running thread is scheduled again; a store buffer empties;  *)
(* the eval loop of the main thread polls pending calls between bytecodes, *)
(* so it runs one whenever it keeps coming back to it (strong, because the *)
(* main thread also does other things).  Nobody has to retire a payload,   *)
(* to retry or to finalize, and Py_AddPendingCall may refuse forever.      *)
(***************************************************************************)
Fairness ==
    /\ \A t \in CudaThreads : WF_vars(Enqueue(t))
    /\ \A t \in Threads : WF_vars(Schedule(t)) /\ WF_vars(Flush(t))
    /\ WF_vars(Drain)
    /\ SF_vars(RunPendingCall)

FairSpec == Spec /\ Fairness

-----------------------------------------------------------------------------
(* Properties                                                              *)

\* The payloads that the links f lead to from p.
Linked(f, p) ==
    LET Within[n \in 0 .. Cardinality(Items)] ==
          IF n = 0 THEN {p} \ {Null}
          ELSE Within[n-1] \cup ({f[i] : i \in Within[n-1]} \ {Null})
    IN  Within[Cardinality(Items)]

LinkedFrom(p) == Linked(next, p)

\* The drain is past pending_call() and has not given scheduled_ back.
Draining == pc[Main] \in {"drain", "take", "clear"} \/ Deleting

\* No payload is lost, duplicated or reachable once freed, though pushes race
\* with each other and with the drain, and addresses are reused: the stack and
\* the detached list together hold exactly the retired payloads, each once.
NoPayloadLost ==
    /\ LinkedFrom(head) \cup LinkedFrom(list)
         = {i \in Items : owner[i] = "queue"}
    /\ LinkedFrom(head) \cap LinkedFrom(list) = {}

\* "Coalesce all queued work behind at most one CPython pending call": the
\* queue never holds two of CPython's bounded pending-call slots, nor one
\* while a drain that still owns scheduled_ runs.
AtMostOnePendingCall == pending + (IF Draining THEN 1 ELSE 0) <= 1

\* Thread t has set scheduled_ and neither added the call nor given it back.
Adding(t) == pc[t] \in {"add", "unclaim"}

\* scheduled_ is "true while one cuda-core drain callback is pending or
\* executing": it is a lock with one owner at a time, passed from the thread
\* that set it to the pending call, to the drain, and to the store that clears
\* it; no two of them ever own it together.
ScheduledIsOwned ==
    /\ scheduled <=> \/ pending = 1
                     \/ Draining
                     \/ \E t \in Threads : Adding(t) \/ storing[t]
    /\ pending \in {0, 1}
    /\ pending = 1 => ~Draining
    /\ pending = 1 \/ Draining => \A t \in Threads : ~Adding(t) /\ ~storing[t]
    /\ \A t \in Threads : ~(Adding(t) /\ storing[t])
    /\ \A t, u \in Threads :
          (Adding(t) \/ storing[t]) /\ (Adding(u) \/ storing[u]) => t = u

\* Some thread has still to look at head_ and, if needed, to add the call.
WillLook(t) ==
    \/ pc[t] \in ScheduleSteps \ {"unclaim"}
    \/ t = Main /\ pc[t] = "recheck"

\* No lost wake-up: unless Py_AddPendingCall was refused or the interpreter
\* is finalizing, queued payloads have a drain pending, running, or about to
\* be requested by a thread in schedule().  The one other exception is the
\* thread that backed off on a value of scheduled_ that was about to be
\* overwritten from a store buffer; the next call that is added ends it.
QueuedWorkIsCovered ==
    head # Null /\ ~refused /\ ~missed /\ ~finalizing =>
        pending > 0 \/ Draining \/ \E t \in Threads : WillLook(t)

\* The queue keeps the promise of PayloadReclamation: seen through the links of
\* the stack and of the detached list, every step retires one payload, destroys
\* one that was retired, outside finalization, or changes nothing.
Reclamation == INSTANCE PayloadReclamation WITH
    Payloads <- Items,
    held <- {i \in Items : owner[i] \in {"cuda", "push"}},
    retired <- LinkedFrom(head) \cup LinkedFrom(list)
ImplementsReclamation == Reclamation!Spec

\* Unless a Py_AddPendingCall fails, or a thread backs off on a value of
\* scheduled_ about to be overwritten from a store buffer, every retired payload
\* is destroyed; and one pending call drains all queued payloads: whatever is
\* queued when a call is pending is destroyed, refused or missed before or not.
RetiredIsDestroyed ==
    \A i \in Items :
        /\ owner[i] = "queue" ~> (owner[i] # "queue" \/ finalizing \/ refused \/ missed)
        /\ (owner[i] = "queue" /\ pending > 0) ~> (owner[i] # "queue" \/ finalizing)
=============================================================================
