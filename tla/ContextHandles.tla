---------------------------- MODULE ContextHandles ----------------------------
(***************************************************************************)
(* Context handles (_cpp/resource_handles.cpp, _context.pyx, _device.pyx): *)
(* boxes of the primary context and of green contexts, the registry that   *)
(* finds a box by its raw CUcontext, the thread-local cache of primary     *)
(* contexts, the context a deallocation is bound to, and the helpers that  *)
(* run an operation in a context and restore the caller's.                 *)
(*                                                                         *)
(* Each critical section of the registry, and each driver call whose       *)
(* effect another thread can see, is an action.  The driver reuses raw     *)
(* green contexts, the allocator reuses boxes.  Threads end; other         *)
(* libraries may retain the primary context and make it current.           *)
(***************************************************************************)
EXTENDS Naturals, FiniteSets

CONSTANTS
    Threads, Boxes,
    Primary,      \* the raw primary context of the device
    Greens,       \* raw green contexts
    Items,        \* what is created and destroyed in a context
    MaxRetains,   \* bound: calls of cuDevicePrimaryCtxRetain
    Foreign,      \* another library may use the primary context
    MaxFaults,    \* bound: driver calls that fail
    None

ASSUME BoundsAreNatural == MaxRetains \in Nat /\ MaxFaults \in Nat
ASSUME ForeignIsBoolean == Foreign \in BOOLEAN
ASSUME NamesAreDistinct == Primary \notin Greens /\ None \notin Boxes \cup Greens \cup Items \cup {Primary}

Contexts == Greens \cup {Primary}

VARIABLES
    retained,   \* the driver's count of cuda.core's primary references
    retains,    \* calls of cuDevicePrimaryCtxRetain so far
    foreign,    \* another library retains the primary context, for good
    greens,     \* green contexts that exist
    current,    \* current[t]: CUDA's current context of a thread
    box,        \* box[b]: kind, context, and how far its deleter is
    registry,   \* context_registry: weak, by raw context
    cache,      \* primary_context_cache[t]
    device,     \* device[t]: the box of Device._context, a thread's own
    objects,    \* boxes held by Context objects of Python
    item,       \* item[i]: "none", "made", "owned" or "leaked"
    home,       \* home[i]: the box that an item holds
    op,         \* op[t]: what a thread is at
    chosen,     \* history: the context a thread has made current itself
    stray,      \* history: threads whose context could not be restored
    lost,       \* history: threads whose context was popped, and no other pushed
    faults      \* driver calls that have failed

vars == <<retained, retains, foreign, greens, current, box, registry, cache, device,
          objects, item, home, op, chosen, stray, lost, faults>>
driver == <<retained, retains, foreign, greens>>
handles == <<box, registry>>
holding == <<cache, device, objects>>

Idle == [step |-> "idle", for |-> "nothing", ctx |-> None, box |-> None, item |-> None, prev |-> None, changed |-> FALSE]
LookingUp(for, c, i) == [step |-> "lookup", for |-> for, ctx |-> c, box |-> None, item |-> i, prev |-> None, changed |-> FALSE]
Unused == [state |-> "unused", kind |-> "ref", ctx |-> Primary]

TypeOK ==
    /\ retained \in Nat /\ retains \in 0 .. MaxRetains
    /\ foreign \in BOOLEAN /\ greens \subseteq Greens
    /\ current \in [Threads -> Contexts \cup {None}]
    /\ box \in [Boxes -> [state : {"unused", "live", "unregistered"}, kind : {"primary", "green", "ref"}, ctx : Contexts]]
    /\ registry \in [Contexts -> Boxes \cup {None}]
    /\ cache \in [Threads -> Boxes \cup {None}] /\ device \in [Threads -> Boxes \cup {None}]
    /\ objects \subseteq Boxes
    /\ item \in [Items -> {"none", "made", "owned", "leaked"}]
    /\ home \in [Items -> Boxes \cup {None}]
    /\ op \in [Threads -> [step : {"idle", "retained", "lookup", "missed", "have", "entered", "operated", "undo"},
                           for : {"nothing", "green", "object", "bind", "create", "texture", "destroy"},
                           ctx : Contexts \cup {None}, box : Boxes \cup {None}, item : Items \cup {None},
                           prev : Contexts \cup {None}, changed : BOOLEAN]]
    /\ chosen \in [Threads -> Contexts \cup {None}] /\ stray \subseteq Threads /\ lost \subseteq Threads /\ faults \in 0 .. MaxFaults
    \* A box of the registry is one of that context; an owned item has a home.
    /\ \A c \in Contexts : registry[c] # None => box[registry[c]].state = "live" /\ box[registry[c]].ctx = c
    /\ \A i \in Items : item[i] = "owned" <=> home[i] # None

Init ==
    /\ retained = 0 /\ retains = 0 /\ foreign = FALSE /\ greens = {}
    /\ current = [t \in Threads |-> None]
    /\ box = [b \in Boxes |-> Unused]
    /\ registry = [c \in Contexts |-> None]
    /\ cache = [t \in Threads |-> None] /\ device = [t \in Threads |-> None]
    /\ objects = {}
    /\ item = [i \in Items |-> "none"] /\ home = [i \in Items |-> None]
    /\ op = [t \in Threads |-> Idle]
    /\ chosen = [t \in Threads |-> None] /\ stray = {} /\ lost = {} /\ faults = 0

-----------------------------------------------------------------------------
(* Who holds a box, and which contexts the driver still has.               *)

Held_NotByItems(b) ==
    \/ b \in objects
    \/ \E t \in Threads : b \in {cache[t], device[t], op[t].box}

Held(b) ==
    \/ b \in objects
    \/ \E t \in Threads : b \in {cache[t], device[t], op[t].box}
    \/ \E i \in Items : home[i] = b

Valid(c) == IF c = Primary THEN foreign \/ retained > 0 ELSE c \in greens

Done(t) == op' = [op EXCEPT ![t] = Idle]

\* A thread makes c current for itself, and Device._context its handle.
MakeCurrent(t, b) ==
    /\ device' = [device EXCEPT ![t] = b]
    /\ current' = [current EXCEPT ![t] = box'[b].ctx]
    /\ chosen' = [chosen EXCEPT ![t] = box'[b].ctx]
    /\ lost' = lost \ {t}

\* A driver call fails.
Fault == faults < MaxFaults /\ faults' = faults + 1

\* The context of b cannot be made current.
Refused(b) == Fault \/ (~Valid(box[b].ctx) /\ UNCHANGED faults)

-----------------------------------------------------------------------------
(* The registry.                                                           *)

\* HandleRegistry::lookup: a box that nobody holds any more has expired, and its
\* entry goes.
Lookup(t) ==
    /\ op[t].step = "lookup"
    /\ LET c == op[t].ctx
           found == registry[c] # None /\ Held(registry[c])
       IN IF found
          THEN /\ op' = [op EXCEPT ![t].step = "have", ![t].box = registry[c]]
               /\ UNCHANGED registry
          ELSE /\ op' = [op EXCEPT ![t].step = "missed"]
               /\ registry' = [registry EXCEPT ![c] = None]
    /\ UNCHANGED <<driver, current, box, holding, item, home, chosen, stray, lost, faults>>

\* A new box, registered over whatever is there.
NewBox(b, kind, c) ==
    /\ box[b].state = "unused"
    /\ box' = [box EXCEPT ![b] = [state |-> "live", kind |-> kind, ctx |-> c]]
    /\ registry' = [registry EXCEPT ![c] = b]

\* The rest of create_context_handle_ref after a miss.
Register_NoGreen(t, b) ==
    /\ op[t].step = "missed"
    /\ NewBox(b, "ref", op[t].ctx)
    /\ op' = [op EXCEPT ![t].step = "have", ![t].box = b]
    /\ UNCHANGED <<driver, current, holding, item, home, chosen, stray, lost, faults>>

Register(t, b) ==
    /\ op[t].step = "missed"
    /\ NewBox(b, IF op[t].for = "green" THEN "green" ELSE "ref", op[t].ctx)
    /\ op' = [op EXCEPT ![t].step = "have", ![t].box = b]
    /\ UNCHANGED <<driver, current, holding, item, home, chosen, stray, lost, faults>>

\* What the deleter of a box gives back: the primary context is released, a
\* green context destroyed with the only handle of it.
Destroyed(b) ==
    /\ retained' = IF box[b].kind = "primary" THEN retained - 1 ELSE retained
    /\ greens' = IF box[b].kind = "green" THEN greens \ {box[b].ctx} ELSE greens
    /\ UNCHANGED <<retains, foreign>>

\* The deleter erases the entry by key, then gives the context back.
Deleter_DestroyFirst(b) ==
    \/ /\ box[b].state = "live" /\ ~Held(b)
       /\ box' = [box EXCEPT ![b].state = "unregistered"]
       /\ Destroyed(b) /\ UNCHANGED registry
    \/ /\ box[b].state = "unregistered"
       /\ box' = [box EXCEPT ![b] = Unused]
       /\ registry' = [registry EXCEPT ![box[b].ctx] = None]
       /\ UNCHANGED driver

Deleter(b) ==
    \/ /\ box[b].state = "live" /\ ~Held(b)
       /\ box' = [box EXCEPT ![b].state = "unregistered"]
       /\ registry' = [registry EXCEPT ![box[b].ctx] = None]
       /\ UNCHANGED driver
    \/ /\ box[b].state = "unregistered"
       /\ box' = [box EXCEPT ![b] = Unused]
       /\ Destroyed(b) /\ UNCHANGED registry

Delete(b) == Deleter(b) /\ UNCHANGED <<current, holding, item, home, op, chosen, stray, lost, faults>>

-----------------------------------------------------------------------------
(* Getting contexts, and making them current.                              *)

\* get_primary_context without a cached handle: the driver's reference first.
Retain(t) ==
    /\ op[t].step = "idle" /\ cache[t] = None /\ retains < MaxRetains
    /\ retained' = retained + 1 /\ retains' = retains + 1
    /\ op' = [op EXCEPT ![t].step = "retained"]
    /\ UNCHANGED <<foreign, greens, current, handles, holding, item, home, chosen, stray, lost, faults>>

\* Its box, without looking for another; then Device.set_current() goes on.
Adopt(t, b) ==
    /\ op[t].step = "retained"
    /\ NewBox(b, "primary", Primary)
    /\ cache' = [cache EXCEPT ![t] = b]
    /\ MakeCurrent(t, b)
    /\ Done(t)
    /\ UNCHANGED <<driver, objects, item, home, stray, faults>>

\* cuCtxSetCurrent fails: the handle is cached, and nothing else has changed.
AdoptOnly(t, b) ==
    /\ Fault /\ op[t].step = "retained"
    /\ NewBox(b, "primary", Primary)
    /\ cache' = [cache EXCEPT ![t] = b]
    /\ Done(t)
    /\ UNCHANGED <<driver, current, device, objects, item, home, chosen, stray, lost>>

\* Device.set_current() with the cached handle, which changes nothing if it fails.
UsePrimary(t) ==
    /\ op[t].step = "idle" /\ cache[t] # None /\ (device[t] # cache[t] \/ current[t] # Primary)
    /\ UNCHANGED box /\ MakeCurrent(t, cache[t])
    /\ UNCHANGED <<driver, registry, cache, objects, item, home, op, stray, faults>>

\* Device.create_context: cuGreenCtxCreate, then from_green_ctx looks it up.
CreateGreen(t, g) ==
    /\ op[t].step = "idle" /\ g \notin greens
    /\ greens' = greens \cup {g}
    /\ op' = [op EXCEPT ![t] = LookingUp("green", g, None)]
    /\ UNCHANGED <<retained, retains, foreign, current, handles, holding, item, home, chosen, stray, lost, faults>>

\* get_current_context, for a Context object or for a Buffer's deallocation.
Current(t, for, i) ==
    /\ op[t].step = "idle" /\ current[t] # None
    /\ op' = [op EXCEPT ![t] = LookingUp(for, current[t], i)]
    /\ UNCHANGED <<driver, current, handles, holding, item, home, chosen, stray, lost, faults>>

CurrentObject(t) == Current(t, "object", None)
Unmade(i) == item[i] = "none" /\ \A u \in Threads : op[u].item # i
\* cuMemAllocAsync on a default stream, then make_deallocation_stream.
Allocate(t, i) == Unmade(i) /\ Current(t, "bind", i)

\* make_deallocation_stream fails: the memory is freed again, or that fails too
\* and pw_cuMemFreeAsync only warns.
AllocateFails(t, i) ==
    /\ Fault /\ op[t].step = "idle" /\ current[t] # None /\ Unmade(i)
    /\ item' \in {item, [item EXCEPT ![i] = "leaked"]}
    /\ UNCHANGED <<driver, current, handles, holding, home, op, chosen, stray, lost>>

\* The handle is stored.  A green context whose handle was found already gives
\* the handle of its own up, and is destroyed with it.
Store(t) ==
    /\ op[t].step = "have"
    /\ Done(t)
    /\ IF op[t].for = "bind"
       THEN /\ item' = [item EXCEPT ![op[t].item] = "owned"]
            /\ home' = [home EXCEPT ![op[t].item] = op[t].box]
            /\ UNCHANGED objects
       ELSE /\ objects' = objects \cup {op[t].box}
            /\ UNCHANGED <<item, home>>
    /\ greens' = IF op[t].for = "green" /\ box[op[t].box].kind # "green" THEN greens \ {op[t].ctx} ELSE greens
    /\ UNCHANGED <<retained, retains, foreign, current, handles, cache, device, chosen, stray, lost, faults>>

\* Device.set_current(ctx), whose cuCtxGetCurrent, cuCtxGetDevice and
\* cuCtxPopCurrent change nothing when they raise.  It returns the context
\* before: an object that has it, or a handle looked up.
SetCurrent(t, b) ==
    /\ op[t].step = "idle" /\ b \in objects /\ Valid(box[b].ctx)
    /\ UNCHANGED box /\ MakeCurrent(t, b)
    /\ IF current[t] # None /\ ~(device[t] # None /\ box[device[t]].ctx = current[t])
       THEN op' = [op EXCEPT ![t] = LookingUp("object", current[t], None)]
       ELSE UNCHANGED op
    /\ UNCHANGED <<driver, registry, cache, objects, item, home, stray, faults>>

\* cuCtxPushCurrent fails after cuCtxPopCurrent: the thread is left without a
\* context, and its Device with the one of before.
PushFails(t, b) ==
    /\ op[t].step = "idle" /\ b \in objects /\ current[t] # None
    /\ Refused(b)
    /\ current' = [current EXCEPT ![t] = None]
    /\ lost' = lost \cup {t}
    /\ UNCHANGED <<driver, handles, holding, item, home, op, chosen, stray>>

\* Context.close, or the object is collected.  (Callers do not close a context
\* that a Device of another thread still has current.)
DropObject(b) ==
    /\ b \in objects /\ objects' = objects \ {b}
    /\ UNCHANGED <<driver, current, handles, cache, device, item, home, op, chosen, stray, lost, faults>>

\* The thread ends: its cache, its Device objects and its current context go.
ThreadExit(t) ==
    /\ op[t].step = "idle" /\ (device[t] # None \/ cache[t] # None)
    /\ cache' = [cache EXCEPT ![t] = None] /\ device' = [device EXCEPT ![t] = None]
    /\ current' = [current EXCEPT ![t] = None] /\ chosen' = [chosen EXCEPT ![t] = None]
    /\ lost' = lost \ {t}
    /\ UNCHANGED <<driver, handles, objects, item, home, op, stray, faults>>

\* Another library makes the primary context current, which it retains.
ForeignCurrent(t) ==
    /\ Foreign /\ op[t].step = "idle" /\ current[t] # Primary
    /\ foreign' = TRUE
    /\ current' = [current EXCEPT ![t] = Primary] /\ chosen' = [chosen EXCEPT ![t] = Primary]
    /\ lost' = lost \ {t}
    /\ UNCHANGED <<retained, retains, greens, handles, holding, item, home, op, stray, faults>>

-----------------------------------------------------------------------------
(* Operations in a context: invoke_in_context_or_undo, cleanup_in_context. *)

Inside(t, for, b, i) ==
    [step |-> "entered", for |-> for, ctx |-> box[b].ctx, box |-> b, item |-> i,
     prev |-> current[t], changed |-> current[t] # box[b].ctx]

\* enter_context succeeds.
Entered(t, for, b, i) ==
    /\ current[t] = box[b].ctx \/ Valid(box[b].ctx)
    /\ current' = [current EXCEPT ![t] = box[b].ctx]
    /\ op' = [op EXCEPT ![t] = Inside(t, for, b, i)]
    /\ UNCHANGED faults

\* A texture or surface, or cuMemAlloc with a bound deallocation, in the context
\* of an object.
Create(t, for, b, i) ==
    /\ op[t].step = "idle" /\ b \in objects /\ Unmade(i)
    /\ Entered(t, for, b, i)
    /\ UNCHANGED <<driver, handles, holding, item, home, chosen, stray, lost>>

\* The deleter of an item, on whatever thread has its last reference.
Destroy(t, i) ==
    /\ op[t].step = "idle" /\ item[i] = "owned"
    /\ home' = [home EXCEPT ![i] = None]
    /\ \/ /\ Entered(t, "destroy", home[i], i)
          /\ item' = [item EXCEPT ![i] = "made"]
       \/ /\ Refused(home[i])   \* it could not be entered
          /\ item' = [item EXCEPT ![i] = "leaked"]
          /\ UNCHANGED <<op, current>>
    /\ UNCHANGED <<driver, handles, holding, chosen, stray, lost>>

Operate(t) ==
    /\ op[t].step = "entered"
    /\ op' = [op EXCEPT ![t].step = "operated"]
    /\ LET i == op[t].item IN
       \/ /\ item' = [item EXCEPT ![i] = IF op[t].for = "destroy" THEN "none" ELSE "made"]
          /\ UNCHANGED faults
       \/ /\ item' = [item EXCEPT ![i] = IF op[t].for = "destroy" THEN "leaked" ELSE "none"]
          /\ Fault
    /\ UNCHANGED <<driver, current, handles, holding, home, chosen, stray, lost>>

\* exit_context with a successful restoration.
Restored_OnSuccess(t) == IF op[t].changed /\ item[op[t].item] # "leaked" THEN op[t].prev ELSE current[t]
Restored(t) == IF op[t].changed THEN op[t].prev ELSE current[t]

Exit(t) ==
    /\ op[t].step = "operated"
    /\ current' = [current EXCEPT ![t] = Restored(t)]
    /\ LET i == op[t].item IN
       IF item[i] = "made"
       THEN /\ item' = [item EXCEPT ![i] = "owned"]
            /\ home' = [home EXCEPT ![i] = op[t].box]
       ELSE UNCHANGED <<item, home>>
    /\ Done(t)
    /\ UNCHANGED <<driver, handles, holding, chosen, stray, lost, faults>>

\* It cannot be restored, and the driver may have left any context or none.
ExitFails_Forgets(t) ==
    /\ Fault /\ op[t].step = "operated" /\ op[t].changed
    /\ current' \in {current, [current EXCEPT ![t] = None]}
    /\ stray' = stray \cup {t}
    /\ Done(t)
    /\ UNCHANGED <<driver, handles, holding, item, home, chosen, lost>>

ExitFails(t) ==
    /\ Fault /\ op[t].step = "operated" /\ op[t].changed
    /\ current' \in {current, [current EXCEPT ![t] = None]}
    /\ stray' = stray \cup {t}
    /\ IF item[op[t].item] = "made"
       THEN op' = [op EXCEPT ![t].step = "undo"]
       ELSE Done(t)
    /\ UNCHANGED <<driver, handles, holding, item, home, chosen, lost>>

\* What was created is undone; if that needs the context and it is not the
\* current one, or cannot be asked for, it leaks.
Undo(t) ==
    /\ op[t].step = "undo"
    /\ LET i == op[t].item
           sensitive == op[t].for = "texture"
       IN
       \/ /\ sensitive => current[t] = op[t].ctx
          /\ item' = [item EXCEPT ![i] = "none"]
       \/ /\ sensitive
          /\ item' = [item EXCEPT ![i] = "leaked"]
    /\ Done(t)
    /\ UNCHANGED <<driver, current, handles, holding, home, chosen, stray, lost, faults>>

Next ==
    \/ \E t \in Threads :
        \/ Lookup(t) \/ Retain(t) \/ UsePrimary(t) \/ CurrentObject(t) \/ Store(t)
        \/ ThreadExit(t) \/ ForeignCurrent(t)
        \/ \E b \in Boxes : Register(t, b) \/ Adopt(t, b) \/ AdoptOnly(t, b)
                           \/ SetCurrent(t, b) \/ PushFails(t, b)
        \/ \E g \in Greens : CreateGreen(t, g)
        \/ \E i \in Items : \/ Allocate(t, i) \/ AllocateFails(t, i) \/ Destroy(t, i)
                           \/ \E b \in Boxes, for \in {"create", "texture"} : Create(t, for, b, i)
        \/ Operate(t) \/ Exit(t) \/ ExitFails(t) \/ Undo(t)
    \/ \E b \in Boxes : Delete(b) \/ DropObject(b)

Spec == Init /\ [][Next]_vars

-----------------------------------------------------------------------------
(* Properties.                                                             *)

\* If a handle exists, its context is valid.  (A thread that could not restore
\* its context has one current that nobody holds for it.)
HandlesValid ==
    stray = {} => \A b \in Boxes : box[b].state = "live" /\ Held(b) => Valid(box[b].ctx)

\* The boxes that HandlesValid is not true of: a reference to a primary context
\* that two threads have retained was not necessarily made from one of theirs.
Borrowed(b) == retains > 1 /\ box[b].kind = "ref" /\ box[b].ctx = Primary

\* Every other handle, of a thread's primary context or of a green one, is valid
\* for as long as anything holds it, in whatever order things let go.
OtherHandlesValid ==
    stray = {} => \A b \in Boxes : box[b].state = "live" /\ Held(b) => Valid(box[b].ctx) \/ Borrowed(b)

\* A green context has one box, which knows that it is green, although raw
\* contexts are reused while old boxes are still being deleted.
GreenKnown ==
    stray = {} => \A b \in Boxes : box[b].state = "live" /\ Held(b) /\ box[b].ctx \in Greens =>
        /\ box[b].kind = "green"
        /\ registry[box[b].ctx] = b

\* What runs in a context runs in the one it asked for, which is still there.
EnteredIsHome ==
    \A t \in Threads : op[t].step = "entered" =>
        /\ current[t] = op[t].ctx
        /\ stray = {} => Valid(op[t].ctx) \/ Borrowed(op[t].box)

\* The context that a thread has left itself in: the one it chose, or none after
\* a push that failed.
Due(t) == IF t \in lost THEN None ELSE chosen[t]

\* A thread between operations is in its own context, unless restoring it failed:
\* deleters that ran there and creations that failed have left no trace.
CallerRestored ==
    \A t \in Threads : op[t].step = "idle" /\ t \notin stray => current[t] = Due(t)

\* What was created is handed over, undone or reported as leaked: nothing made is
\* left when the operation that made it is over, and nothing is undone twice.
NoOrphans ==
    \A i \in Items : item[i] = "made" => Cardinality({t \in Threads : op[t].item = i}) = 1

=============================================================================
