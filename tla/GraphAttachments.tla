--------------------------- MODULE GraphAttachments ---------------------------
(***************************************************************************)
(* Who keeps the resources of a graph node's parameters alive.             *)
(*                                                                         *)
(* Every complete parameter set of a node is a version; its resource       *)
(* owners live in one NodeAttachment, owned by a CUDA user object.  CUDA   *)
(* counts the references that graphs, embedded clones, executables and     *)
(* launches hold; cuda.core keeps, per graph, a non-owning map from node   *)
(* to attachment, and brackets each CUDA mutation with graph_prepare_ and  *)
(* graph_commit_attachment (_cpp/resource_handles.cpp, GRAPH_ATTACHMENTS). *)
(*                                                                         *)
(* The mutations of one graph hierarchy are serialised by the caller       *)
(* (invariant 5 of GRAPH_ATTACHMENTS.md): each hierarchy has at most one   *)
(* operation under way, op[root], whose steps interleave with those of     *)
(* other hierarchies, with executables and launches, with the driver's     *)
(* destructor callbacks and with the drain of the deferred-cleanup queue.  *)
(*                                                                         *)
(* Bounds of the model: each graph and version is used once; an embedded   *)
(* graph has no embedded graph.                                            *)
(***************************************************************************)
EXTENDS Naturals, FiniteSets

CONSTANTS
    Graphs,     \* CUgraph values
    Roots,      \* those that become root graphs; the others are embedded ones
    Nodes,      \* node positions in a graph; a CUgraphNode is a pair <<graph, node>>
    Versions,   \* parameter versions, one NodeAttachment each
    Execs,      \* executable graphs
    Launches,   \* launches of executables
    Faults,     \* which calls may fail, see AllFaults
    None,       \* no graph, no node, no version; a node without resources
    Absent      \* no such node

AllFaults == {"create",   \* cuUserObjectCreate
              "retain",   \* cuGraphRetainUserObject
              "mutate",   \* the CUDA call that adds, updates or destroys a node
              "restore",  \* cuCtxSetCurrent back to the caller's context
              "tail",     \* finding the node a captured callback became
              "find",     \* cuGraphNodeFindInClone, cuGraphChildGraphNodeGetGraph
              "undo"}     \* cuGraphDestroyNode of a node that is rolled back

ASSUME FaultsAssumption == Faults \subseteq AllFaults
ASSUME RootsAssumption == Roots \subseteq Graphs
ASSUME NothingAssumption ==
    /\ None \notin Graphs \cup Nodes \cup Versions
    /\ Absent \notin Versions \cup {None}

VARIABLES
    alive,      \* alive[g]: "none", "live" or "destroyed" in the driver
    parent,     \* parent[g]: the graph g is embedded in
    owner,      \* owner[g]: the node of parent[g] that owns g
    params,     \* params[g][n]: version the driver's node refers to
    refs,       \* refs[g]: user objects the driver's graph retains
    boxed,      \* has g a GraphBox whose resource is not null?
    meta,       \* meta[g]: GraphBox::attachments, node -> version
    owners,     \* owners[v]: "fresh", "live", "queued" (destructor ran), "released"
    exec,       \* exec[e]: versions and references of an executable
    launch,     \* launch[l]: versions and references of a launch under way
    op,         \* op[r]: the operation under way on the hierarchy of root r
    torn        \* history: versions rolled back after the driver took them

vars == <<alive, parent, owner, params, refs, boxed, meta, owners, exec, launch, op, torn>>

Key == Graphs \X Nodes
NoEntries == [k \in Key |-> None]
NoNodes == [n \in Nodes |-> Absent]

\* What an executable or a launch uses and what it retains.
Consumer == [uses : SUBSET Versions, holds : SUBSET Versions]
Gone == [uses |-> {}, holds |-> {}]

\* Phases: "mutate" before the CUDA call; "publish", "release" and "invalidate"
\* after it; "child", "rekey" and "undo" of an embed; "commit" of a child update.
Kinds == {"idle", "add", "set", "host", "destroy", "embed", "swap"}
Phases == {"idle", "mutate", "publish", "release", "invalidate", "child", "rekey", "undo", "commit"}

Operation ==
    [kind : Kinds, ph : Phases, g : Graphs \cup {None}, n : Nodes \cup {None},
     v : Versions \cup {None}, prev : Versions \cup {None},
     src : Graphs \cup {None}, c : Graphs \cup {None},
     staged : [Key -> Versions \cup {None}]]

\* An operation that begins, on node n of g.
NewOp(k, phase, g, n) ==
    [kind |-> k, ph |-> phase, g |-> g, n |-> n, v |-> None, prev |-> None,
     src |-> None, c |-> None, staged |-> NoEntries]

NoOp == NewOp("idle", "idle", None, None)

TypeOK ==
    /\ alive \in [Graphs -> {"none", "live", "destroyed"}]
    /\ parent \in [Graphs -> Graphs \cup {None}]
    /\ owner \in [Graphs -> Nodes \cup {None}]
    /\ params \in [Graphs -> [Nodes -> Versions \cup {None, Absent}]]
    /\ refs \in [Graphs -> SUBSET Versions]
    /\ boxed \in [Graphs -> BOOLEAN]
    /\ meta \in [Graphs -> [Key -> Versions \cup {None}]]
    /\ owners \in [Versions -> {"fresh", "live", "queued", "released"}]
    /\ exec \in [Execs -> Consumer]
    /\ launch \in [Launches -> Consumer]
    /\ torn \subseteq Versions
    /\ op \in [Graphs -> Operation]

Init ==
    /\ alive = [g \in Graphs |-> "none"]
    /\ parent = [g \in Graphs |-> None]
    /\ owner = [g \in Graphs |-> None]
    /\ params = [g \in Graphs |-> NoNodes]
    /\ refs = [g \in Graphs |-> {}]
    /\ boxed = [g \in Graphs |-> FALSE]
    /\ meta = [g \in Graphs |-> NoEntries]
    /\ owners = [v \in Versions |-> "fresh"]
    /\ exec = [e \in Execs |-> Gone]
    /\ launch = [l \in Launches |-> Gone]
    /\ op = [r \in Graphs |-> NoOp]
    /\ torn = {}

-----------------------------------------------------------------------------
RootOf(g) == IF parent[g] = None THEN g ELSE parent[g]

\* The graphs embedded in g, and those owned by its node n.
Embedded(g) == {c \in Graphs : parent[c] = g /\ alive[c] = "live"}
OwnedBy(g, n) == {c \in Embedded(g) : owner[c] = n}

\* No operation on the hierarchy of r, nor one on another that reads it.
Idle(r) ==
    /\ op[r].kind = "idle"
    /\ \A q \in Graphs : op[q].src # None => RootOf(op[q].src) # r

\* A handle of g can be used: its box has a resource and nobody works on its hierarchy.
Usable(g) == boxed[g] /\ Idle(RootOf(g))

VersionsOf(g) == {params[g][n] : n \in Nodes} \cap Versions

\* What the driver copies from g and the graphs embedded in it.
Snapshot(g) ==
    [uses |-> UNION {VersionsOf(x) : x \in {g} \cup Embedded(g)},
     holds |-> UNION {refs[x] : x \in {g} \cup Embedded(g)}]

Used(v) ==
    \/ \E g \in Graphs : v \in VersionsOf(g)
    \/ \E e \in Execs : v \in exec[e].uses
    \/ \E l \in Launches : v \in launch[l].uses

Referenced(v) ==
    \/ \E g \in Graphs : v \in refs[g]
    \/ \E e \in Execs : v \in exec[e].holds
    \/ \E l \in Launches : v \in launch[l].holds

\* The operation on r goes on to phase ph, or is over.
Goto(r, ph) == op' = [op EXCEPT ![r].ph = ph]
Done(r) == op' = [op EXCEPT ![r] = NoOp]


-----------------------------------------------------------------------------
(* Graphs: creation, embedding in the driver, destruction.                 *)

CreateGraph(g) ==
    /\ g \in Roots /\ alive[g] = "none"
    /\ alive' = [alive EXCEPT ![g] = "live"]
    /\ boxed' = [boxed EXCEPT ![g] = TRUE]
    /\ UNCHANGED <<parent, owner, params, refs, meta, owners, exec, launch, op, torn>>

\* The driver destroys the graphs ds, and with them their references.
DriverDestroy(ds) ==
    /\ alive' = [x \in Graphs |-> IF x \in ds THEN "destroyed" ELSE alive[x]]
    /\ params' = [x \in Graphs |-> IF x \in ds THEN NoNodes ELSE params[x]]
    /\ refs' = [x \in Graphs |-> IF x \in ds THEN {} ELSE refs[x]]

\* Graph boxes bs are retired: null resource, no attachment entries.
Retire(bs) ==
    /\ boxed' = [x \in Graphs |-> boxed[x] /\ x \notin bs]
    /\ meta' = [x \in Graphs |-> IF x \in bs THEN NoEntries ELSE meta[x]]

\* The last handle of a hierarchy goes away.
CloseGraph(r) ==
    /\ boxed[r] /\ parent[r] = None /\ Idle(r)
    /\ DriverDestroy({r} \cup Embedded(r))
    /\ Retire({r} \cup Embedded(r))
    /\ UNCHANGED <<parent, owner, owners, exec, launch, op, torn>>

\* A child graph node read back from the driver gets a box without entries.
DiscoverChild(c) ==
    /\ alive[c] = "live" /\ ~boxed[c] /\ parent[c] # None
    /\ Usable(parent[c])
    /\ boxed' = [boxed EXCEPT ![c] = TRUE]
    /\ UNCHANGED <<alive, parent, owner, params, refs, meta, owners, exec, launch, op, torn>>

-----------------------------------------------------------------------------
(* Node mutations: prepare, the CUDA call, commit or roll back.            *)

Applicable(k, g, n, v) ==
    \/ k = "add" /\ params[g][n] = Absent
    \/ k = "host" /\ params[g][n] = Absent /\ v # None
    \/ k = "set" /\ params[g][n] # Absent /\ OwnedBy(g, n) = {}
    \/ k = "destroy" /\ params[g][n] # Absent /\ v = None

\* graph_prepare_attachment: the replacement is retained on the graph before
\* the CUDA call; without owners (v = None) there is nothing to retain.
Prepare(g, n, k, v) ==
    /\ Usable(g)
    /\ Applicable(k, g, n, v)
    /\ v # None => owners[v] = "fresh"
    /\ owners' = [w \in Versions |-> IF w = v THEN "live" ELSE owners[w]]
    /\ refs' = [refs EXCEPT ![g] = @ \cup ({v} \cap Versions)]
    /\ op' = [op EXCEPT ![RootOf(g)] = [NewOp(k, "mutate", g, n) EXCEPT !.v = v]]
    /\ UNCHANGED <<alive, parent, owner, params, boxed, meta, exec, launch, torn>>

\* cuUserObjectCreate fails: the attachment is deleted at once.
CreateFails(g, n, k, v) ==
    /\ "create" \in Faults
    /\ Usable(g)
    /\ v \in Versions /\ owners[v] = "fresh"
    /\ Applicable(k, g, n, v)
    /\ owners' = [owners EXCEPT ![v] = "released"]
    /\ UNCHANGED <<alive, parent, owner, params, refs, boxed, meta, exec, launch, op, torn>>

\* cuGraphRetainUserObject fails: the creator's reference, the last one, is
\* released, and the driver runs the destructor callback.
RetainFails(g, n, k, v) ==
    /\ "retain" \in Faults
    /\ Usable(g)
    /\ v \in Versions /\ owners[v] = "fresh"
    /\ Applicable(k, g, n, v)
    /\ owners' = [owners EXCEPT ![v] = "live"]
    /\ UNCHANGED <<alive, parent, owner, params, refs, boxed, meta, exec, launch, op, torn>>

Mutating(r) == op[r].ph = "mutate" /\ op[r].kind \in {"add", "set", "host", "destroy"}

\* The CUDA call succeeds.  Destroying a node destroys the graph it owns.
Mutate(r) ==
    LET o == op[r] IN
    /\ Mutating(r)
    /\ Goto(r, "publish")
    /\ IF o.kind = "destroy"
         THEN /\ alive' = [x \in Graphs |-> IF x \in OwnedBy(o.g, o.n) THEN "destroyed" ELSE alive[x]]
              /\ params' = [x \in Graphs |->
                     IF x \in OwnedBy(o.g, o.n) THEN NoNodes
                     ELSE IF x = o.g THEN [params[x] EXCEPT ![o.n] = Absent] ELSE params[x]]
              /\ refs' = [x \in Graphs |-> IF x \in OwnedBy(o.g, o.n) THEN {} ELSE refs[x]]
         ELSE /\ params' = [params EXCEPT ![o.g][o.n] = o.v]
              /\ UNCHANGED <<alive, refs>>
    /\ UNCHANGED <<parent, owner, boxed, meta, owners, exec, launch, torn>>

\* rollback_prepared_attachment releases the staged reference.
Rollback_Forgotten(r) ==
    UNCHANGED refs

Rollback(r) ==
    refs' = [refs EXCEPT ![op[r].g] = @ \ {op[r].v}]

\* The CUDA call fails: nothing changed in the driver.
MutateFails(r) ==
    /\ "mutate" \in Faults
    /\ Mutating(r)
    /\ Rollback(r)
    /\ Done(r)
    /\ UNCHANGED <<alive, parent, owner, params, boxed, meta, owners, exec, launch, torn>>

\* cuGraphNodeSetParams succeeds, but restoring the caller's context does not:
\* the exception leaves before the commit and the replacement is rolled back.
RestoreFails(r) ==
    /\ "restore" \in Faults
    /\ Mutating(r) /\ op[r].kind = "set"
    /\ params' = [params EXCEPT ![op[r].g][op[r].n] = op[r].v]
    /\ Rollback(r)
    /\ Done(r)
    /\ torn' = torn \cup ({op[r].v} \cap Versions)
    /\ UNCHANGED <<alive, parent, owner, boxed, meta, owners, exec, launch>>

\* What is left to do once the map is published: release the previous version,
\* retire the graphs the node owned, or nothing.
AfterPublish(o, prev) ==
    IF prev # None THEN [o EXCEPT !.ph = "release", !.prev = prev]
    ELSE IF o.kind = "destroy" THEN [o EXCEPT !.ph = "invalidate"] ELSE NoOp

\* graph_commit_attachment publishes the replacement, or the removal, ...
Publish_KeepsEntry(r) ==
    LET o == op[r]
        prev == meta[o.g][<<o.g, o.n>>] IN
    /\ o.ph = "publish"
    /\ meta' = IF o.v = None THEN meta ELSE [meta EXCEPT ![o.g][<<o.g, o.n>>] = o.v]
    /\ op' = [op EXCEPT ![r] = AfterPublish(o, prev)]
    /\ UNCHANGED <<alive, parent, owner, params, refs, boxed, owners, exec, launch, torn>>

Publish_ForgetsPrevious(r) ==
    LET o == op[r] IN
    /\ o.ph = "publish"
    /\ meta' = [meta EXCEPT ![o.g][<<o.g, o.n>>] = o.v]
    /\ op' = [op EXCEPT ![r] = AfterPublish(o, None)]
    /\ UNCHANGED <<alive, parent, owner, params, refs, boxed, owners, exec, launch, torn>>

Publish(r) ==
    LET o == op[r]
        prev == meta[o.g][<<o.g, o.n>>] IN
    /\ o.ph = "publish"
    /\ meta' = [meta EXCEPT ![o.g][<<o.g, o.n>>] = o.v]
    /\ op' = [op EXCEPT ![r] = AfterPublish(o, prev)]
    /\ UNCHANGED <<alive, parent, owner, params, refs, boxed, owners, exec, launch, torn>>

\* ... and only then releases the graph's reference to the previous version.
ReleasePrevious_Replacement(r) ==
    LET o == op[r] IN
    /\ o.ph = "release"
    /\ refs' = [refs EXCEPT ![o.g] = @ \ {o.v}]
    /\ op' = [op EXCEPT ![r] = AfterPublish(o, None)]
    /\ UNCHANGED <<alive, parent, owner, params, boxed, meta, owners, exec, launch, torn>>

ReleasePrevious(r) ==
    LET o == op[r] IN
    /\ o.ph = "release"
    /\ refs' = [refs EXCEPT ![o.g] = @ \ {o.prev}]
    /\ op' = [op EXCEPT ![r] = AfterPublish(o, None)]
    /\ UNCHANGED <<alive, parent, owner, params, boxed, meta, owners, exec, launch, torn>>

\* The node of a captured callback cannot be found: the replacement stays
\* retained, under no node.
TailFails_RollsBack(r) ==
    /\ "tail" \in Faults
    /\ op[r].ph = "publish" /\ op[r].kind = "host"
    /\ Rollback(r)
    /\ Done(r)
    /\ UNCHANGED <<alive, parent, owner, params, boxed, meta, owners, exec, launch, torn>>

TailFails(r) ==
    /\ "tail" \in Faults
    /\ op[r].ph = "publish" /\ op[r].kind = "host"
    /\ Done(r)
    /\ UNCHANGED <<alive, parent, owner, params, refs, boxed, meta, owners, exec, launch, torn>>

\* invalidate_child_graph_state after the destruction of a node.
Invalidate_Skipped(r) ==
    /\ op[r].ph = "invalidate"
    /\ Done(r)
    /\ UNCHANGED <<alive, parent, owner, params, refs, boxed, meta, owners, exec, launch, torn>>

Invalidate(r) ==
    /\ op[r].ph = "invalidate"
    /\ Retire({c \in Graphs : parent[c] = op[r].g /\ owner[c] = op[r].n})
    /\ Done(r)
    /\ UNCHANGED <<alive, parent, owner, params, refs, owners, exec, launch, torn>>

-----------------------------------------------------------------------------
(* Embedding a clone of another graph, and replacing an embedded graph.    *)

\* The driver makes c a clone of src, owned by node n of g.
DriverClone(c, src, g, n) ==
    /\ parent' = [parent EXCEPT ![c] = g]
    /\ owner' = [owner EXCEPT ![c] = n]

\* A map of src becomes one of c: each node key is looked up in the clone.
Rekeyed(staged, src, c) ==
    [k \in Key |-> IF k[1] = c THEN staged[<<src, k[2]>>] ELSE None]

Embeddable(src, g, c) ==
    /\ Usable(src) /\ Usable(g)
    /\ src # g /\ parent[g] = None
    /\ Embedded(src) = {}
    /\ c \notin Roots /\ alive[c] = "none"

\* cuGraphAddChildGraphNode.  A failure changes nothing.
EmbedAdd(g, n, src, c) ==
    /\ Embeddable(src, g, c)
    /\ params[g][n] = Absent
    /\ DriverClone(c, src, g, n)
    /\ alive' = [alive EXCEPT ![c] = "live"]
    /\ params' = [params EXCEPT ![g][n] = None, ![c] = params[src]]
    /\ refs' = [refs EXCEPT ![c] = refs[src]]
    /\ op' = [op EXCEPT ![g] = [NewOp("embed", "child", g, n) EXCEPT !.src = src, !.c = c]]
    /\ UNCHANGED <<boxed, meta, owners, exec, launch, torn>>

\* cuGraphChildGraphNodeGetGraph, create_child_graph_handle, and the copy of
\* the source's map, all detached from the new box.
EmbedChild(r) ==
    LET o == op[r] IN
    /\ o.kind = "embed" /\ o.ph = "child"
    /\ boxed' = [boxed EXCEPT ![o.c] = TRUE]
    /\ op' = [op EXCEPT ![r] = [o EXCEPT !.ph = "rekey", !.staged = meta[o.src]]]
    /\ UNCHANGED <<alive, parent, owner, params, refs, meta, owners, exec, launch, torn>>

EmbedRekey(r) ==
    LET o == op[r] IN
    /\ o.kind = "embed" /\ o.ph = "rekey"
    /\ meta' = [meta EXCEPT ![o.c] = Rekeyed(o.staged, o.src, o.c)]
    /\ Done(r)
    /\ UNCHANGED <<alive, parent, owner, params, refs, boxed, owners, exec, launch, torn>>

\* Any of these driver calls fails: the new node has to go.
EmbedFails(r) ==
    /\ "find" \in Faults
    /\ op[r].kind = "embed" /\ op[r].ph \in {"child", "rekey"}
    /\ Goto(r, "undo")
    /\ UNCHANGED <<alive, parent, owner, params, refs, boxed, meta, owners, exec, launch, torn>>

EmbedUndo(r) ==
    LET o == op[r] IN
    /\ o.ph = "undo"
    /\ alive' = [alive EXCEPT ![o.c] = "destroyed"]
    /\ params' = [params EXCEPT ![o.g][o.n] = Absent, ![o.c] = NoNodes]
    /\ refs' = [refs EXCEPT ![o.c] = {}]
    /\ Goto(r, "invalidate")
    /\ UNCHANGED <<parent, owner, boxed, meta, owners, exec, launch, torn>>

\* The node cannot be destroyed: it stays, and so does its box, without entries.
UndoFails(r) ==
    /\ "undo" \in Faults
    /\ op[r].ph = "undo"
    /\ Done(r)
    /\ UNCHANGED <<alive, parent, owner, params, refs, boxed, meta, owners, exec, launch, torn>>

\* graph_prepare_child_graph_update copies the source's map before the CUDA call.
SwapPrepare(g, n, src, c) ==
    /\ Embeddable(src, g, c)
    /\ RootOf(src) # g
    /\ \E old \in OwnedBy(g, n) : boxed[old]
    /\ op' = [op EXCEPT ![g] = [NewOp("swap", "mutate", g, n) EXCEPT
                                !.src = src, !.c = c, !.staged = meta[src]]]
    /\ UNCHANGED <<alive, parent, owner, params, refs, boxed, meta, owners, exec, launch, torn>>

\* cuGraphNodeSetParams destroys the embedded graph and clones the source.
SwapMutate(r) ==
    LET o == op[r]
        old == OwnedBy(o.g, o.n) IN
    /\ o.kind = "swap" /\ o.ph = "mutate"
    /\ alive[o.c] = "none"
    /\ DriverClone(o.c, o.src, o.g, o.n)
    /\ alive' = [x \in Graphs |-> IF x = o.c THEN "live"
                                  ELSE IF x \in old THEN "destroyed" ELSE alive[x]]
    /\ params' = [x \in Graphs |-> IF x = o.c THEN params[o.src]
                                   ELSE IF x \in old THEN NoNodes ELSE params[x]]
    /\ refs' = [x \in Graphs |-> IF x = o.c THEN refs[o.src]
                                 ELSE IF x \in old THEN {} ELSE refs[x]]
    /\ Goto(r, "commit")
    /\ UNCHANGED <<boxed, meta, owners, exec, launch, torn>>

SwapRejected(r) ==
    /\ op[r].kind = "swap" /\ op[r].ph = "mutate"
    /\ "mutate" \in Faults \/ alive[op[r].c] # "none"
    /\ Done(r)
    /\ UNCHANGED <<alive, parent, owner, params, refs, boxed, meta, owners, exec, launch, torn>>

\* graph_commit_child_graph_update rekeys the staged map, retires the boxes of
\* the old embedded graph, and publishes the new box; when the driver cannot
\* resolve the clone it raises instead, and the new graph stays without a box.
SwapCommit(r) ==
    LET o == op[r]
        old == {x \in Graphs : parent[x] = o.g /\ owner[x] = o.n} \ {o.c}
        ok == IF "find" \in Faults THEN BOOLEAN ELSE {TRUE} IN
    /\ o.ph = "commit"
    /\ \E found \in ok :
          /\ boxed' = [x \in Graphs |-> IF x = o.c THEN found ELSE boxed[x] /\ x \notin old]
          /\ meta' = [x \in Graphs |->
                         IF x = o.c /\ found THEN Rekeyed(o.staged, o.src, o.c)
                         ELSE IF x \in old THEN NoEntries ELSE meta[x]]
    /\ Done(r)
    /\ UNCHANGED <<alive, parent, owner, params, refs, owners, exec, launch, torn>>

-----------------------------------------------------------------------------
(* Executables and launches: the driver copies parameters and references.  *)

Instantiate(g, e) ==
    /\ Usable(g) /\ exec[e] = Gone
    /\ exec' = [exec EXCEPT ![e] = Snapshot(g)]
    /\ UNCHANGED <<alive, parent, owner, params, refs, boxed, meta, owners, launch, op, torn>>

\* A whole-graph update replaces what future launches use.  The driver's check
\* that the topologies agree is left out: any source is accepted.
ExecUpdate(g, e) ==
    /\ Usable(g) /\ exec[e] # Gone
    /\ exec' = [exec EXCEPT ![e] = Snapshot(g)]
    /\ UNCHANGED <<alive, parent, owner, params, refs, boxed, meta, owners, launch, op, torn>>

ExecDestroy(e) ==
    /\ exec[e] # Gone
    /\ exec' = [exec EXCEPT ![e] = Gone]
    /\ UNCHANGED <<alive, parent, owner, params, refs, boxed, meta, owners, launch, op, torn>>

Launch(e, l) ==
    /\ exec[e] # Gone /\ launch[l] = Gone
    /\ launch' = [launch EXCEPT ![l] = exec[e]]
    /\ UNCHANGED <<alive, parent, owner, params, refs, boxed, meta, owners, exec, op, torn>>

Complete(l) ==
    /\ launch[l] # Gone
    /\ launch' = [launch EXCEPT ![l] = Gone]
    /\ UNCHANGED <<alive, parent, owner, params, refs, boxed, meta, owners, exec, op, torn>>

-----------------------------------------------------------------------------
(* Reclamation.  DeferredCleanup has the queue in detail.                  *)

\* The last reference is gone: the driver runs the callback, which enqueues.
EnqueueCleanup(v) ==
    /\ owners[v] = "live" /\ ~Referenced(v)
    /\ owners' = [owners EXCEPT ![v] = "queued"]
    /\ UNCHANGED <<alive, parent, owner, params, refs, boxed, meta, exec, launch, op, torn>>

\* The drain deletes the attachments that are queued, with their owners.
Drain ==
    /\ \E v \in Versions : owners[v] = "queued"
    /\ owners' = [v \in Versions |-> IF owners[v] = "queued" THEN "released" ELSE owners[v]]
    /\ UNCHANGED <<alive, parent, owner, params, refs, boxed, meta, exec, launch, op, torn>>

-----------------------------------------------------------------------------
StartNode(g, n) ==
    \E k \in {"add", "set", "host", "destroy"}, v \in Versions \cup {None} :
        \/ Prepare(g, n, k, v)
        \/ CreateFails(g, n, k, v)
        \/ RetainFails(g, n, k, v)

Continue(r) ==
    \/ Mutate(r) \/ MutateFails(r) \/ RestoreFails(r)
    \/ Publish(r) \/ TailFails(r) \/ ReleasePrevious(r) \/ Invalidate(r)
    \/ EmbedChild(r) \/ EmbedRekey(r) \/ EmbedFails(r) \/ EmbedUndo(r) \/ UndoFails(r)
    \/ SwapMutate(r) \/ SwapRejected(r) \/ SwapCommit(r)

Next ==
    \/ \E g \in Graphs : CreateGraph(g) \/ CloseGraph(g) \/ DiscoverChild(g) \/ Continue(g)
    \/ \E g \in Graphs, n \in Nodes : StartNode(g, n)
    \/ \E g, src, c \in Graphs, n \in Nodes : EmbedAdd(g, n, src, c) \/ SwapPrepare(g, n, src, c)
    \/ \E g \in Graphs, e \in Execs : Instantiate(g, e) \/ ExecUpdate(g, e)
    \/ \E e \in Execs, l \in Launches : ExecDestroy(e) \/ Launch(e, l) \/ Complete(l)
    \/ \E v \in Versions : EnqueueCleanup(v)
    \/ Drain

Spec == Init /\ [][Next]_vars

\* An operation under way is finished by its thread, a launch completes, the
\* driver calls back, and the queue is drained (DeferredCleanup!EventuallyReclaimed).
Fairness ==
    /\ \A r \in Graphs : WF_vars(Continue(r))
    /\ \A l \in Launches : WF_vars(Complete(l))
    /\ \A v \in Versions : WF_vars(EnqueueCleanup(v))
    /\ WF_vars(Drain)

FairSpec == Spec /\ Fairness

-----------------------------------------------------------------------------
(* Properties.                                                             *)

\* GRAPH_ATTACHMENTS.md: the resources a version references stay alive until
\* every graph, executable and launch that uses it has finished, whatever
\* was updated, rolled back, destroyed or cloned in between.
ParametersAlive == \A v \in Versions : Used(v) => owners[v] = "live"

\* The failure of RestoreFails harms the version it tears out, and no other.
OthersAlive == \A v \in Versions \ torn : Used(v) => owners[v] = "live"

\* The index is non-owning: an entry may point to an attachment the graph no
\* longer retains only while the very operation that destroyed the graph is
\* on its way to retire its box.
MetadataNeverDangles ==
    \A g \in Graphs, k \in Key : meta[g][k] # None =>
        \/ meta[g][k] \in refs[g]
        \/ /\ alive[g] = "destroyed"
           /\ op[RootOf(g)].g = parent[g] /\ op[RootOf(g)].n = owner[g]

\* graph_get_attachment answers for the parameters the node has now: a recycled
\* node handle never finds an attachment of its predecessor, and no failure
\* leaves an entry of an older version, but for a node that RestoreFails left
\* between two versions.
LookupIsCurrent ==
    \A g \in Graphs : Usable(g) =>
        \A k \in Key : meta[g][k] # None =>
            /\ k[1] = g
            /\ params[g][k[2]] \in {meta[g][k]} \cup
                                 (IF "restore" \in Faults THEN torn \cup {None} ELSE {})

\* Where no node was lost track of, the two book-keepings agree between operations:
\* the index is exact, and a graph retains exactly what its nodes use; an update, a
\* removal and a rollback leave no old version behind.
RetainsOnlyCurrent ==
    \A g \in Graphs : Usable(g) =>
        /\ \A k \in Key : meta[g][k] = IF k[1] = g /\ params[g][k[2]] \in Versions
                                       THEN params[g][k[2]] ELSE None
        /\ refs[g] = VersionsOf(g)

\* A version nobody uses any more is reclaimed: neither rollback nor commit
\* leaks a reference that would keep its owners for the life of the graph.
Reclaimed == \A v \in Versions :
    (owners[v] # "fresh" /\ ~Used(v)) ~> (owners[v] = "released" \/ Used(v))

\* What the component promises its users, see ParameterLifetime; versions torn
\* out by RestoreFails are not counted as used.
Lifetime == INSTANCE ParameterLifetime WITH
    Consumers <- Graphs \cup Execs \cup Launches,
    uses <- [c \in Graphs \cup Execs \cup Launches |->
                IF c \in Graphs THEN VersionsOf(c) \ torn
                ELSE IF c \in Execs THEN exec[c].uses \ torn ELSE launch[c].uses \ torn],
    released <- {v \in Versions : owners[v] = "released"}

ImplementsLifetime == Lifetime!Spec
=============================================================================
