------------------------------ MODULE IpcPtrCache ------------------------------
(***************************************************************************)
(* Importing a buffer from another process (deviceptr_import_ipc in        *)
(* _cpp/resource_handles.cpp).  A process-wide cache maps the export data  *)
(* to a weak reference to the handle, one mutex covers lookup, driver call *)
(* and registration, and the handle's deleter takes the same mutex to      *)
(* unregister and free.  The GIL is given up before the mutex is taken and *)
(* retaken after it is released.                                           *)
(*                                                                         *)
(* A handle is a box; a thread holds a box through one or more Buffers.    *)
(* The last holder to let go runs the deleter on its own thread.           *)
(***************************************************************************)
EXTENDS Naturals, FiniteSets

CONSTANTS
    Threads,        \* Python threads of the importing process
    Descriptors,    \* export data (CUmemPoolPtrExportData): the cache keys
    Boxes,          \* addresses of DevicePtrBox objects
    None,           \* no thread, no box, no descriptor
    FreeUnmapsAll,  \* nvbug 5570902: does one cuMemFreeAsync unmap every import?
    Pinned,         \* pinned pool: is a duplicate import CUDA_ERROR_ALREADY_MAPPED?
    OwnedStreams,   \* may a deallocation stream be backed by a Python object?
    MayFail         \* may driver calls fail?

ASSUME NoneIsNothing == None \notin Threads \cup Descriptors \cup Boxes
ASSUME Switches == {FreeUnmapsAll, Pinned, OwnedStreams, MayFail} \subseteq BOOLEAN

VARIABLES
    gil,        \* the thread that holds the GIL
    mutex,      \* the thread that holds ipc_import_mutex
    cache,      \* ipc_ptr_cache: descriptor -> box registered last (weak)
    state,      \* life of each box, see States
    key,        \* the descriptor a box was imported from
    owned,      \* is the box's deallocation stream the last one backed by a Python owner
    holders,    \* threads with a strong reference to the box
    mapped,     \* is the pointer in the box mapped in this process?
    again,      \* history: was the box imported while an earlier import was not freed?
    pc,         \* where each thread is
    arg,        \* arg[t]: descriptor being imported
    box         \* box[t]: box being created or deleted by the thread

vars == <<gil, mutex, cache, state, key, owned, holders, mapped, again, pc, arg, box>>

\* "none": no object; "new": imported, handle not built; "live": a handle exists;
\* "dying": the last reference is gone; "freed": freed, the object not yet
\* deleted; "leaked": deleted, its import never freed.
States == {"none", "new", "live", "dying", "freed", "leaked"}

Steps == {"py", "lock", "lookup", "import", "bind", "unlock", "gil",
          "dlock", "unregister", "free", "delete", "decref"}

\* Steps taken inside the critical section of ipc_import_mutex.
Inside == {"lookup", "import", "bind", "unlock", "unregister", "free", "delete", "decref"}

TypeOK ==
    /\ gil \in Threads \cup {None}
    /\ mutex \in Threads \cup {None}
    /\ cache \in [Descriptors -> Boxes \cup {None}]
    /\ state \in [Boxes -> States]
    /\ key \in [Boxes -> Descriptors \cup {None}]
    /\ owned \in [Boxes -> BOOLEAN]
    /\ holders \in [Boxes -> SUBSET Threads]
    /\ mapped \in [Boxes -> BOOLEAN]
    /\ again \in [Boxes -> BOOLEAN]
    /\ pc \in [Threads -> Steps]
    /\ arg \in [Threads -> Descriptors \cup {None}]
    /\ box \in [Threads -> Boxes \cup {None}]
    /\ \A t \in Threads :
          /\ pc[t] \in {"lock", "lookup", "import"} => arg[t] \in Descriptors
          /\ pc[t] \in {"bind", "dlock", "unregister", "free", "delete", "decref"} =>
                box[t] \in Boxes
    /\ \A b \in Boxes : state[b] # "none" => key[b] \in Descriptors

Init ==
    /\ gil = None
    /\ mutex = None
    /\ cache = [d \in Descriptors |-> None]
    /\ state = [b \in Boxes |-> "none"]
    /\ key = [b \in Boxes |-> None]
    /\ owned = [b \in Boxes |-> FALSE]
    /\ holders = [b \in Boxes |-> {}]
    /\ mapped = [b \in Boxes |-> FALSE]
    /\ again = [b \in Boxes |-> FALSE]
    /\ pc = [t \in Threads |-> "py"]
    /\ arg = [t \in Threads |-> None]
    /\ box = [t \in Threads |-> None]

-----------------------------------------------------------------------------
(* The GIL and the import mutex                                            *)

Goto(t, s) == pc' = [pc EXCEPT ![t] = s]
InPython(t) == pc[t] = "py" /\ gil = t

\* A thread runs Python code only with the GIL; the eval loop lets it go.
TakeGil(t) ==
    /\ gil = None
    /\ \/ pc[t] = "py" /\ UNCHANGED pc
       \/ pc[t] = "gil" /\ Goto(t, "py")
    /\ gil' = t
    /\ UNCHANGED <<mutex, cache, state, key, owned, holders, mapped, again, arg, box>>

YieldGil(t) ==
    /\ InPython(t)
    /\ gil' = None
    /\ UNCHANGED <<mutex, cache, state, key, owned, holders, mapped, again, pc, arg, box>>

Lock(t) ==
    /\ pc[t] \in {"lock", "dlock"}
    /\ mutex = None
    /\ mutex' = t
    /\ Goto(t, IF pc[t] = "lock" THEN "lookup" ELSE "unregister")
    /\ UNCHANGED <<gil, cache, state, key, owned, holders, mapped, again, arg, box>>

\* The lock guard is destroyed before the GIL guard.
Unlock(t) ==
    /\ pc[t] = "unlock"
    /\ mutex' = None
    /\ arg' = [arg EXCEPT ![t] = None]
    /\ Goto(t, "gil")
    /\ UNCHANGED <<gil, cache, state, key, owned, holders, mapped, again, box>>

-----------------------------------------------------------------------------
(* The CUDA driver                                                         *)

\* Imports of the descriptor that were not freed.
Imported(d) == {b \in Boxes : key[b] = d /\ state[b] \in {"new", "live", "dying", "leaked"}}

\* cuMemFreeAsync of the pointer in box b.
DriverFree(b) ==
    mapped' = [x \in Boxes |->
                 mapped[x] /\ x # b /\ ~(FreeUnmapsAll /\ key[x] = key[b])]

-----------------------------------------------------------------------------
(* deviceptr_import_ipc                                                    *)

\* Mutant: the import waits for the mutex with the GIL held.
GilGuard_Missing(t) == UNCHANGED gil

GilGuard(t) == gil' = None

\* Buffer.from_ipc_descriptor calls in; the GIL is released first.
Import(t, d) ==
    /\ InPython(t)
    /\ arg' = [arg EXCEPT ![t] = d]
    /\ GilGuard(t)
    /\ Goto(t, "lock")
    /\ UNCHANGED <<mutex, cache, state, key, owned, holders, mapped, again, box>>

\* Can the weak reference of the cache entry be locked?
Alive(b) == b # None /\ holders[b] # {}

\* Mutant: the cache is taken out (use_ipc_ptr_cache returns false).
Hit_Never(d) == FALSE

\* Mutant: the entry is used without asking whether it expired.
Hit_Expired(d) == cache[d] # None

Hit(d) == Alive(cache[d])

\* A hit returns a new strong reference to the handle that is there.
LookupHit(t) ==
    /\ pc[t] = "lookup"
    /\ Hit(arg[t])
    /\ holders' = [holders EXCEPT ![cache[arg[t]]] = @ \cup {t}]
    /\ Goto(t, "unlock")
    /\ UNCHANGED <<gil, mutex, cache, state, key, owned, mapped, again, arg, box>>

\* A miss erases an expired entry.
LookupMiss(t) ==
    /\ pc[t] = "lookup"
    /\ ~Hit(arg[t])
    /\ cache' = [cache EXCEPT ![arg[t]] = None]
    /\ Goto(t, "import")
    /\ UNCHANGED <<gil, mutex, state, key, owned, holders, mapped, again, arg, box>>

\* cuMemPoolImportPointer.
DriverImport(t, b) ==
    /\ pc[t] = "import"
    /\ state[b] = "none"
    /\ ~(Pinned /\ Imported(arg[t]) # {})
    /\ state' = [state EXCEPT ![b] = "new"]
    /\ key' = [key EXCEPT ![b] = arg[t]]
    /\ mapped' = [mapped EXCEPT ![b] = TRUE]
    /\ again' = [again EXCEPT ![b] = Imported(arg[t]) # {}]
    /\ box' = [box EXCEPT ![t] = b]
    /\ Goto(t, "bind")
    /\ UNCHANGED <<gil, mutex, cache, owned, holders, arg>>

\* Mutant: the status of the driver call is not looked at.
AfterFailure_Unchecked == "bind"

AfterFailure == "unlock"

\* It fails on a duplicate of a pinned import, when the driver fails, and when
\* the bound on boxes is reached.
ImportFails(t) ==
    /\ pc[t] = "import"
    /\ \/ MayFail
       \/ Pinned /\ Imported(arg[t]) # {}
       \/ \A b \in Boxes : state[b] # "none"
    /\ Goto(t, AfterFailure)
    /\ UNCHANGED <<gil, mutex, cache, state, key, owned, holders, mapped, again, arg, box>>

\* The deallocation stream is bound, the handle built and registered.
Register(t, o) ==
    /\ pc[t] = "bind"
    /\ o => OwnedStreams
    /\ LET b == box[t] IN
       /\ state' = [state EXCEPT ![b] = "live"]
       /\ owned' = [owned EXCEPT ![b] = o]
       /\ holders' = [holders EXCEPT ![b] = {t}]
       /\ cache' = [cache EXCEPT ![key[b]] = b]
    /\ box' = [box EXCEPT ![t] = None]
    /\ Goto(t, "unlock")
    /\ UNCHANGED <<gil, mutex, key, mapped, again, arg>>

\* make_deallocation_stream fails: the pointer is freed at once, and stays
\* imported if that cuMemFreeAsync fails too (its status is not looked at).
BindFails(t) ==
    /\ pc[t] = "bind"
    /\ MayFail
    /\ LET b == box[t] IN
       \/ /\ DriverFree(b)
          /\ state' = [state EXCEPT ![b] = "none"]
          /\ key' = [key EXCEPT ![b] = None]
       \/ /\ state' = [state EXCEPT ![b] = "leaked"]
          /\ UNCHANGED <<key, mapped>>
    /\ box' = [box EXCEPT ![t] = None]
    /\ Goto(t, "unlock")
    /\ UNCHANGED <<gil, mutex, cache, owned, holders, again, arg>>

-----------------------------------------------------------------------------
(* Holding, sharing and dropping a handle                                  *)

\* Another thread gets a Buffer on the same handle.
Share(t, u, b) ==
    /\ InPython(t)
    /\ t \in holders[b]
    /\ u \notin holders[b]
    /\ holders' = [holders EXCEPT ![b] = @ \cup {u}]
    /\ UNCHANGED <<gil, mutex, cache, state, key, owned, mapped, again, pc, arg, box>>

\* Buffer.close, or its destruction: the last reference starts the deleter,
\* which releases the GIL before it waits for the mutex.
Drop(t, b) ==
    /\ InPython(t)
    /\ t \in holders[b]
    /\ holders' = [holders EXCEPT ![b] = @ \ {t}]
    /\ IF holders[b] = {t}
       THEN /\ state' = [state EXCEPT ![b] = "dying"]
            /\ box' = [box EXCEPT ![t] = b]
            /\ gil' = None
            /\ Goto(t, "dlock")
       ELSE UNCHANGED <<state, box, gil, pc>>
    /\ UNCHANGED <<mutex, cache, key, owned, mapped, again, arg>>

\* ipc_ptr_cache.unregister_handle(key), whatever is registered there now.
Unregister(t) ==
    /\ pc[t] = "unregister"
    /\ cache' = [cache EXCEPT ![key[box[t]]] = None]
    /\ Goto(t, "free")
    /\ UNCHANGED <<gil, mutex, state, key, owned, holders, mapped, again, arg, box>>

\* cuMemFreeAsync in the deallocation context.
Free(t) ==
    /\ pc[t] = "free"
    /\ DriverFree(box[t])
    /\ state' = [state EXCEPT ![box[t]] = "freed"]
    /\ Goto(t, "delete")
    /\ UNCHANGED <<gil, mutex, cache, key, owned, holders, again, arg, box>>

\* The context cannot be activated, or the free fails: the mapping is leaked.
FreeFails(t) ==
    /\ pc[t] = "free"
    /\ MayFail
    /\ state' = [state EXCEPT ![box[t]] = "leaked"]
    /\ Goto(t, "delete")
    /\ UNCHANGED <<gil, mutex, cache, key, owned, holders, mapped, again, arg, box>>

\* The memory of the box, whose import stays known to the driver if it leaked.
Dispose(b) ==
    /\ owned' = [owned EXCEPT ![b] = FALSE]
    /\ IF state[b] = "leaked"
       THEN UNCHANGED <<state, key>>
       ELSE /\ state' = [state EXCEPT ![b] = "none"]
            /\ key' = [key EXCEPT ![b] = None]

\* delete b: drops the deallocation stream too.
Delete(t) ==
    /\ pc[t] = "delete"
    /\ ~owned[box[t]]
    /\ Dispose(box[t])
    /\ box' = [box EXCEPT ![t] = None]
    /\ Goto(t, "unlock")
    /\ UNCHANGED <<gil, mutex, cache, holders, mapped, again, arg>>

\* ... whose own deleter takes the GIL to release its Python owner (GILAcquireGuard).
DeleteTakesGil(t) ==
    /\ pc[t] = "delete"
    /\ owned[box[t]]
    /\ gil = None
    /\ gil' = t
    /\ Goto(t, "decref")
    /\ UNCHANGED <<mutex, cache, state, key, owned, holders, mapped, again, arg, box>>

\* Py_DECREF(owner), and the GIL is let go again.
DecrefOwner(t) ==
    /\ pc[t] = "decref"
    /\ gil' = None
    /\ Dispose(box[t])
    /\ box' = [box EXCEPT ![t] = None]
    /\ Goto(t, "unlock")
    /\ UNCHANGED <<mutex, cache, holders, mapped, again, arg>>

-----------------------------------------------------------------------------

ImportStep(t) ==
    \/ LookupHit(t) \/ LookupMiss(t)
    \/ (\E b \in Boxes : DriverImport(t, b)) \/ ImportFails(t)
    \/ (\E o \in BOOLEAN : Register(t, o)) \/ BindFails(t)

DeleterStep(t) ==
    Unregister(t) \/ Free(t) \/ FreeFails(t) \/ Delete(t) \/ DeleteTakesGil(t) \/ DecrefOwner(t)

Next ==
    \E t \in Threads :
        \/ TakeGil(t) \/ YieldGil(t) \/ Lock(t) \/ Unlock(t)
        \/ \E d \in Descriptors : Import(t, d)
        \/ \E b \in Boxes : Drop(t, b) \/ \E u \in Threads : Share(t, u, b)
        \/ ImportStep(t) \/ DeleterStep(t)

Spec == Init /\ [][Next]_vars

(***************************************************************************)
(* Fairness: a thread inside the critical section runs on; the mutex and   *)
(* the GIL are granted to a thread that keeps finding them free (strong);  *)
(* the eval loop makes a thread give the GIL up.  Nobody has to import.    *)
(***************************************************************************)
Fairness ==
    \A t \in Threads :
        /\ WF_vars(ImportStep(t)) /\ WF_vars(Unlock(t)) /\ SF_vars(DeleterStep(t))
        /\ SF_vars(Lock(t)) /\ SF_vars(TakeGil(t)) /\ WF_vars(YieldGil(t))

FairSpec == Spec /\ Fairness

-----------------------------------------------------------------------------
(* Properties                                                              *)

\* deviceptr_import_ipc holds the mutex over unregister and free so that a
\* pointer somebody holds is never unmapped by the free of another import.
UsableWhileHeld == \A b \in Boxes : holders[b] # {} => mapped[b]

\* What the cache achieves, with the driver of nvbug 5570902 or without it: a
\* held pointer is mapped, unless its own import was made while an earlier
\* import of the allocation was still to be freed (its deleter waiting for the
\* mutex, or its free failed).  No later import, drop or deleter unmaps it.
MappedUnlessImportedAgain ==
    \A b \in Boxes : holders[b] # {} => mapped[b] \/ again[b]

\* The steps at which a thread has a box of its own, and the box's state then.
BoxAt(t) ==
    CASE pc[t] = "bind" -> {"new"}
      [] pc[t] \in {"dlock", "unregister", "free"} -> {"dying"}
      [] pc[t] \in {"delete", "decref"} -> {"freed", "leaked"}
      [] OTHER -> {}

\* Every import the driver knows of is held, or is in the hands of the one
\* thread that builds or deletes its box: it is freed once, after the last
\* holder let go, never by two deleters and never forgotten.
OneDeleterPerImport ==
    /\ \A t, u \in Threads : box[t] # None /\ box[t] = box[u] => t = u
    /\ \A t \in Threads : box[t] # None => state[box[t]] \in BoxAt(t)
    /\ \A b \in Boxes :
          state[b] \in {"new", "dying", "freed"} => \E t \in Threads : box[t] = b
    /\ \A b \in Boxes : holders[b] # {} <=> state[b] = "live"

\* Every import and every drop returns to Python: no lock is waited for in a
\* cycle, even when deleting a box releases the owner of its stream.
CallsReturn == \A t \in Threads : pc[t] # "py" ~> pc[t] = "py"
=============================================================================
