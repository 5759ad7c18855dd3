-------------------------- MODULE PayloadReclamation --------------------------
(***************************************************************************)
(* What the deferred-cleanup machinery promises to the owner of a payload: *)
(* a payload handed to CUDA is destroyed once, one at a time, only after   *)
(* CUDA retired it, and never while the interpreter is finalizing: then it *)
(* is leaked.  No step loses or duplicates a payload.                      *)
(***************************************************************************)
CONSTANT Payloads

VARIABLES
    held,       \* payloads owned by CUDA user objects
    retired,    \* payloads CUDA has given back, to be destroyed
    finalizing  \* the interpreter is shutting down

Init == held = {} /\ retired = {} /\ finalizing = FALSE

Hand(p) ==
    /\ p \notin held \cup retired
    /\ held' = held \cup {p}
    /\ UNCHANGED <<retired, finalizing>>

Retire(p) ==
    /\ p \in held
    /\ held' = held \ {p}
    /\ retired' = retired \cup {p}
    /\ UNCHANGED finalizing

Destroy(p) ==
    /\ p \in retired
    /\ ~finalizing
    /\ retired' = retired \ {p}
    /\ UNCHANGED <<held, finalizing>>

Finalize == ~finalizing /\ finalizing' = TRUE /\ UNCHANGED <<held, retired>>

Next == (\E p \in Payloads : Hand(p) \/ Retire(p) \/ Destroy(p)) \/ Finalize

Spec == Init /\ [][Next]_<<held, retired, finalizing>>
=============================================================================
