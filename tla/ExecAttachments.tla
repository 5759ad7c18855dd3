---------------------------- MODULE ExecAttachments ----------------------------
(***************************************************************************)
(* Executable-graph attachments (_cpp/resource_handles.cpp): the resources *)
(* that updates of single executable nodes bring in.  CUDA has no user     *)
(* objects for executables, so an accumulator of owners is retained on the *)
(* source graph, instantiation or a whole-graph update propagates that     *)
(* reference into the executable, and the source gives its own up again.   *)
(* The box of the executable only points to the accumulator.  What the     *)
(* graph definition brings in itself is the subject of GraphAttachments.   *)
(*                                                                         *)
(* An executable has one operation at a time, as CUDA requires; operations *)
(* on different executables may use one source graph at the same time.     *)
(* CUDA's destructor callbacks, launches that run, and the queue that      *)
(* destroys retired accumulators (DeferredCleanup) interleave freely, and  *)
(* the address of a destroyed accumulator is reused.                       *)
(***************************************************************************)
EXTENDS Naturals, Sequences

CONSTANTS
    Sources, Execs, Launches, Nodes,
    Accumulators,   \* addresses of accumulators
    Owners,         \* the resources
    MaxOwners,      \* bound: owners of an accumulator
    ReleaseFails,   \* cuGraphReleaseUserObject may fail
    None

ASSUME BoundIsNatural == MaxOwners \in Nat
ASSUME FailsIsBoolean == ReleaseFails \in BOOLEAN
ASSUME NoneIsNothing == None \notin Sources \cup Accumulators

VARIABLES
    source,       \* source[s]: user objects the source graph retains
    exec,         \* exec[e]: what CUDA's executable uses and holds
    launch,       \* launch[l]: what a running launch uses and holds
    attachments,  \* the pointer in the executable's box, or None
    state,        \* state[a]: "unused", "alive", "retired"
    owners,       \* owners[a]
    user,         \* resources the caller still holds itself
    op,           \* op[e]: the operation under way on executable e
    left          \* history: accumulators a failed release left on a source

vars == <<source, exec, launch, attachments, state, owners, user, op, left>>

Closed == [open |-> FALSE, uses |-> [n \in Nodes |-> {}], holds |-> {}]
Propagated(held) == [open |-> TRUE, uses |-> [n \in Nodes |-> {}], holds |-> held]
Ended == [on |-> FALSE, uses |-> {}, holds |-> {}]
Idle == [step |-> "idle", s |-> None, a |-> None, size |-> 0, n |-> None, new |-> <<>>]
Staged(step, s, a) == [step |-> step, s |-> s, a |-> a, size |-> 0, n |-> None, new |-> <<>>]
Prepared(a, size, n, new) == [step |-> "set_params", s |-> None, a |-> a, size |-> size, n |-> n, new |-> new]

\* The steps during which the source retains the accumulator.
Staging == {"instantiate", "adopted", "update", "publish", "published"}

Elements(q) == {q[i] : i \in 1 .. Len(q)}

TypeOK ==
    /\ source \in [Sources -> SUBSET Accumulators]
    /\ exec \in [Execs -> [open : BOOLEAN, uses : [Nodes -> SUBSET Owners], holds : SUBSET Accumulators]]
    /\ launch \in [Launches -> [on : BOOLEAN, uses : SUBSET Owners, holds : SUBSET Accumulators]]
    /\ attachments \in [Execs -> Accumulators \cup {None}]
    /\ state \in [Accumulators -> {"unused", "alive", "retired"}]
    /\ owners \in [Accumulators -> Seq(Owners)]
    /\ user \subseteq Owners /\ left \subseteq Accumulators
    /\ op \in [Execs -> [step : {"idle", "instantiate", "adopted", "update", "publish", "published", "set_params"},
                         s : Sources \cup {None}, a : Accumulators \cup {None}, size : Nat,
                         n : Nodes \cup {None}, new : Seq(Owners)]]
    \* An open executable has its accumulator; an operation knows its own.
    /\ \A e \in Execs :
        /\ exec[e].open /\ op[e].step \notin {"update", "publish"} => attachments[e] # None
        /\ op[e].step \in Staging => op[e].s \in Sources /\ op[e].a \in Accumulators

Init ==
    /\ source = [s \in Sources |-> {}]
    /\ exec = [e \in Execs |-> Closed]
    /\ launch = [l \in Launches |-> Ended]
    /\ attachments = [e \in Execs |-> None]
    /\ state = [a \in Accumulators |-> "unused"]
    /\ owners = [a \in Accumulators |-> <<>>]
    /\ user = Owners
    /\ op = [e \in Execs |-> Idle]
    /\ left = {}

-----------------------------------------------------------------------------
(* CUDA's references.                                                      *)

Referenced(a) ==
    \/ \E s \in Sources : a \in source[s]
    \/ \E e \in Execs : a \in exec[e].holds
    \/ \E l \in Launches : a \in launch[l].holds

\* A resource is alive while the caller or an accumulator holds it.
Alive(o) == o \in user \/ \E a \in Accumulators : state[a] # "unused" /\ o \in Elements(owners[a])

\* ExecAttachmentStaging::release: the source gives its reference up.
Unstaged_Never(e) == UNCHANGED source
Unstaged(e) == source' = [source EXCEPT ![op[e].s] = @ \ {op[e].a}]

Done(e) == op' = [op EXCEPT ![e] = Idle]

-----------------------------------------------------------------------------
(* Instantiation and whole-graph update.                                   *)

\* stage_exec_attachments: the user object is created and moved to the source.
Stage(e, s, a, step) ==
    /\ op[e].step = "idle" /\ state[a] = "unused"
    /\ state' = [state EXCEPT ![a] = "alive"]
    /\ source' = [source EXCEPT ![s] = @ \cup {a}]
    /\ op' = [op EXCEPT ![e] = Staged(step, s, a)]
    /\ UNCHANGED <<exec, launch, attachments, owners, user, left>>

StageInstantiate(e, s, a) == ~exec[e].open /\ Stage(e, s, a, "instantiate")
StageUpdate(e, s, a) == exec[e].open /\ Stage(e, s, a, "update")

\* The source cannot retain it: dropping the last reference retires it.
StageFails(e, a) ==
    /\ op[e].step = "idle" /\ state[a] = "unused"
    /\ state' = [state EXCEPT ![a] = "retired"]
    /\ UNCHANGED <<source, exec, launch, attachments, owners, user, op, left>>

\* cuGraphInstantiateWithParams and make_graph_exec_handle: the executable holds
\* what its source holds.
Instantiate(e) ==
    /\ op[e].step = "instantiate"
    /\ exec' = [exec EXCEPT ![e] = Propagated(source[op[e].s])]
    /\ attachments' = [attachments EXCEPT ![e] = op[e].a]
    /\ op' = [op EXCEPT ![e].step = "adopted"]
    /\ UNCHANGED <<source, launch, state, owners, user, left>>

\* cuGraphExecUpdate: all nodes and references come from the source.
Update(e) ==
    /\ op[e].step = "update"
    /\ exec' = [exec EXCEPT ![e] = Propagated(source[op[e].s])]
    /\ op' = [op EXCEPT ![e].step = "publish"]
    /\ UNCHANGED <<source, launch, attachments, state, owners, user, left>>

\* box->attachments = staging.accumulator
Publish_KeepsOld(e) ==
    /\ op[e].step = "publish"
    /\ op' = [op EXCEPT ![e].step = "published"]
    /\ UNCHANGED <<source, exec, launch, attachments, state, owners, user, left>>

Publish(e) ==
    /\ op[e].step = "publish"
    /\ attachments' = [attachments EXCEPT ![e] = op[e].a]
    /\ op' = [op EXCEPT ![e].step = "published"]
    /\ UNCHANGED <<source, exec, launch, state, owners, user, left>>

\* ~ExecAttachmentStaging after a failure: its result is ignored.
CudaFails(e) ==
    /\ op[e].step \in {"instantiate", "update"}
    /\ \/ /\ Unstaged(e)
          /\ UNCHANGED left
       \/ /\ ReleaseFails
          /\ left' = left \cup {op[e].a}
          /\ UNCHANGED source
    /\ Done(e)
    /\ UNCHANGED <<exec, launch, attachments, state, owners, user>>

\* staging.release() once the executable holds the accumulator.
Release(e) ==
    /\ op[e].step \in {"adopted", "published"}
    /\ Unstaged(e) /\ Done(e)
    /\ UNCHANGED <<exec, launch, attachments, state, owners, user, left>>

\* A failing release fails the call: a new executable is destroyed with its
\* handle, an updated one stays as it is.
ReleaseFailed(e) ==
    /\ ReleaseFails /\ op[e].step \in {"adopted", "published"}
    /\ Done(e)
    /\ left' = left \cup {op[e].a}
    /\ exec' = IF op[e].step = "adopted" THEN [exec EXCEPT ![e] = Closed] ELSE exec
    /\ attachments' = IF op[e].step = "adopted" THEN [attachments EXCEPT ![e] = None] ELSE attachments
    /\ UNCHANGED <<source, launch, state, owners, user>>

-----------------------------------------------------------------------------
(* Updates of single nodes.                                                *)

\* graph_prepare_exec_attachment with one or two owners, which the caller has.
Appended_FirstOnly(a, new) == Append(owners[a], Head(new))
Appended(a, new) == owners[a] \o new

Prepare(e, n, new) ==
    /\ exec[e].open /\ op[e].step = "idle"
    /\ Elements(new) \subseteq user
    /\ LET a == attachments[e] IN
       /\ Len(owners[a]) + Len(new) <= MaxOwners
       /\ owners' = [owners EXCEPT ![a] = Appended(a, new)]
       /\ op' = [op EXCEPT ![e] = Prepared(a, Len(owners[a]), n, new)]
    /\ UNCHANGED <<source, exec, launch, attachments, state, user, left>>

\* cuGraphExecNodeSetParams and graph_commit_exec_attachment.
SetParams(e) ==
    /\ op[e].step = "set_params"
    /\ exec' = [exec EXCEPT ![e].uses[op[e].n] = Elements(op[e].new)]
    /\ Done(e)
    /\ UNCHANGED <<source, launch, attachments, state, owners, user, left>>

\* rollback_prepared_exec_attachment: back to the size before.
Truncated_ByValue(e) == SelectSeq(owners[op[e].a], LAMBDA o : o \notin Elements(op[e].new))

Truncated(e) == SubSeq(owners[op[e].a], 1, op[e].size)

Rollback(e) ==
    /\ op[e].step = "set_params"
    /\ owners' = [owners EXCEPT ![op[e].a] = Truncated(e)]
    /\ Done(e)
    /\ UNCHANGED <<source, exec, launch, attachments, state, user, left>>

-----------------------------------------------------------------------------
(* The rest of the world.                                                  *)

\* Graph.launch: the launch keeps what the executable uses and holds now.
Launch(e, l) ==
    /\ exec[e].open /\ op[e].step = "idle" /\ ~launch[l].on
    /\ launch' = [launch EXCEPT ![l] = [on |-> TRUE, uses |-> UNION {exec[e].uses[n] : n \in Nodes}, holds |-> exec[e].holds]]
    /\ UNCHANGED <<source, exec, attachments, state, owners, user, op, left>>

Complete(l) ==
    /\ launch[l].on
    /\ launch' = [launch EXCEPT ![l] = Ended]
    /\ UNCHANGED <<source, exec, attachments, state, owners, user, op, left>>

\* Graph.close or the last handle dropped: ~GraphExecBox.
Close(e) ==
    /\ exec[e].open /\ op[e].step = "idle"
    /\ exec' = [exec EXCEPT ![e] = Closed]
    /\ attachments' = [attachments EXCEPT ![e] = None]
    /\ UNCHANGED <<source, launch, state, owners, user, op, left>>

\* The source graph is destroyed; staging holds a handle to it.
DropSource(s) ==
    /\ \A e \in Execs : op[e].s # s
    /\ source[s] # {} /\ source' = [source EXCEPT ![s] = {}]
    /\ UNCHANGED <<exec, launch, attachments, state, owners, user, op, left>>

\* The caller drops its own reference to a resource.
DropOwner(o) ==
    /\ o \in user /\ user' = user \ {o}
    /\ UNCHANGED <<source, exec, launch, attachments, state, owners, op, left>>

\* CUDA drops the last reference, on a thread of its own: enqueue_cleanup.
Retire(a) ==
    /\ state[a] = "alive" /\ ~Referenced(a)
    /\ state' = [state EXCEPT ![a] = "retired"]
    /\ UNCHANGED <<source, exec, launch, attachments, owners, user, op, left>>

\* The pending call deletes it, and with it its owners.
Drain(a) ==
    /\ state[a] = "retired"
    /\ state' = [state EXCEPT ![a] = "unused"]
    /\ owners' = [owners EXCEPT ![a] = <<>>]
    /\ left' = left \ {a}
    /\ UNCHANGED <<source, exec, launch, attachments, user, op>>

New == {<<o>> : o \in Owners} \cup {<<o, p>> : o \in Owners, p \in Owners}

Next ==
    \/ \E e \in Execs, a \in Accumulators :
        \/ \E s \in Sources : StageInstantiate(e, s, a) \/ StageUpdate(e, s, a)
        \/ StageFails(e, a)
    \/ \E e \in Execs :
        \/ Instantiate(e) \/ Update(e) \/ Publish(e) \/ CudaFails(e) \/ Release(e) \/ ReleaseFailed(e)
        \/ \E n \in Nodes, new \in New : Prepare(e, n, new)
        \/ SetParams(e) \/ Rollback(e) \/ Close(e)
        \/ \E l \in Launches : Launch(e, l)
    \/ \E l \in Launches : Complete(l)
    \/ \E s \in Sources : DropSource(s)
    \/ \E o \in Owners : DropOwner(o)
    \/ \E a \in Accumulators : Retire(a) \/ Drain(a)

\* An operation under way is finished by the thread that began it, a launch
\* completes, CUDA calls destructors, and the queue is drained.
Fairness ==
    /\ \A e \in Execs : WF_vars(Instantiate(e) \/ Update(e) \/ Publish(e) \/ CudaFails(e) \/ Release(e) \/ ReleaseFailed(e) \/ SetParams(e) \/ Rollback(e))
    /\ \A l \in Launches : WF_vars(Complete(l))
    /\ \A a \in Accumulators : WF_vars(Retire(a)) /\ WF_vars(Drain(a))

Spec == Init /\ [][Next]_vars /\ Fairness

-----------------------------------------------------------------------------
(* Properties.                                                             *)

\* The pointer in the box of an open executable is never stale when an
\* operation reads it: it is an accumulator that this executable keeps alive.
AccumulatorCurrent ==
    \A e \in Execs : exec[e].open /\ op[e].step # "publish" =>
        /\ state[attachments[e]] = "alive"
        /\ attachments[e] \in exec[e].holds

\* What an executable's nodes use is with its own accumulator: rejected
\* updates, also with an owner that is in use already, take nothing from it.
UsesAreOwned ==
    \A e \in Execs : \A n \in Nodes : \A o \in exec[e].uses[n] :
        o \in Elements(owners[attachments[e]])

\* An accumulator that no executable holds and no operation stages is
\* destroyed when the launches that hold it are done: those of rejected
\* instantiations and updates and of replaced generations too.
Orphaned(a) ==
    /\ state[a] = "alive" /\ a \notin left
    /\ \A e \in Execs : a \notin exec[e].holds /\ op[e].a # a
Reclaimed == \A a \in Accumulators : Orphaned(a) ~> state[a] = "unused"

\* What a launch in flight or an executable uses is alive, whatever was closed,
\* updated, rejected or dropped since: see ParameterLifetime.
Lifetime == INSTANCE ParameterLifetime WITH
    Versions <- Owners,
    Consumers <- Execs \cup Launches,
    uses <- [c \in Execs \cup Launches |->
                IF c \in Execs THEN UNION {exec[c].uses[n] : n \in Nodes} ELSE launch[c].uses],
    released <- {o \in Owners : ~Alive(o)}

ImplementsLifetime == Lifetime!Spec

=============================================================================
