----------------------- MODULE GraphAttachments_proofs -----------------------
(***************************************************************************)
(* Proofs about GraphAttachments for any number of graphs, nodes,          *)
(* versions, executables and launches, in three parts, each with an        *)
(* inductive invariant that extends the one before.                        *)
(*                                                                         *)
(* IInv: whatever driver calls fail, no version but one that a failed      *)
(* restore tore out of its graph loses its resources while somebody uses   *)
(* it.  IndexInv: nor does an entry of the index dangle or answer for an   *)
(* earlier version.  ExactInv: where failures leave nothing behind in the  *)
(* driver, graphs retain what their nodes use, and nothing else.           *)
(*                                                                         *)
(* What a graph uses it retains (Holds), what is retained is alive (Live). *)
(* To see that a release never takes what another node uses, the invariant *)
(* follows each version from a fresh one to an entry of the index: at any  *)
(* time it belongs to one node of a graph, to the operation under way or   *)
(* to the map an embed has staged (Fresh, Fits, PhaseOK); and operations   *)
(* on different hierarchies never touch each other's graphs (Locked).      *)
(***************************************************************************)
EXTENDS GraphAttachments, TLAPS

\* No version that entries give for a node of x is used by another node of y.
Fits(entries, x, y) ==
    \A n, m \in Nodes : n # m /\ entries[<<x, n>>] \in Versions =>
        params[y][m] # entries[<<x, n>>]

\* A graph that does not exist is nothing, and embedding is one level deep.
Tree ==
    \A g \in Graphs :
        /\ alive[g] = "none" => parent[g] = None /\ meta[g] = NoEntries /\ ~boxed[g]
        /\ parent[g] # None => parent[parent[g]] = None /\ alive[parent[g]] # "none"

\* What an operation works on is there in each of its phases.
WellFormed(o) ==
    /\ o.kind = "idle" => o = NoOp
    /\ o.kind # "idle" => o.g \in Graphs /\ o.n \in Nodes
    /\ o.kind \in {"embed", "swap"} => o.src \in Graphs /\ o.c \in Graphs
    /\ o.ph \in {"child", "rekey", "undo"} => o.kind = "embed"
    /\ o.ph = "commit" => o.kind = "swap"

Typed == TypeOK /\ \A r \in Graphs : WellFormed(op[r])

\* An operation works on its own hierarchy and reads one nobody works on.
Locked(r) ==
    LET o == op[r] IN
    /\ o.kind # "idle" => alive[o.g] # "none" /\ RootOf(o.g) = r
    /\ o.src # None =>
          /\ alive[o.src] # "none"
          /\ RootOf(o.src) = r \/ op[RootOf(o.src)] = NoOp
    /\ o.kind \in {"embed", "swap"} => o.src # o.g /\ parent[o.g] = None
    /\ o.kind = "embed" \/ o.ph = "commit" => parent[o.c] = o.g /\ alive[o.c] # "none"

\* Where the version, or the map, of an operation is in each of its phases.
PhaseOK(r) ==
    LET o == op[r] IN
    /\ Mutating(r) /\ o.v # None =>
          /\ o.v \in refs[o.g]
          /\ \A m \in Nodes : params[o.g][m] # o.v /\ meta[o.g][<<o.g, m>>] # o.v
    /\ o.ph = "publish" =>
          /\ params[o.g][o.n] \in {o.v, Absent}
          /\ o.v # None =>
                /\ meta[o.g][<<o.g, o.n>>] # o.v
                /\ \A m \in Nodes \ {o.n} : params[o.g][m] # o.v
    /\ o.ph = "release" =>
          \A m \in Nodes : params[o.g][m] # o.prev
    /\ o.kind = "embed" /\ o.ph = "child" => Fits(meta[o.src], o.src, o.c)
    /\ o.kind = "embed" /\ o.ph = "rekey" => Fits(o.staged, o.src, o.c)
    /\ o.kind = "swap" /\ o.ph = "mutate" => Fits(o.staged, o.src, o.src)
    /\ o.ph = "commit" => Fits(o.staged, o.src, o.c)

Holds ==
    /\ \A g \in Graphs, n \in Nodes : params[g][n] \in Versions \ torn => params[g][n] \in refs[g]
    /\ \A e \in Execs : exec[e].uses \ torn \subseteq exec[e].holds
    /\ \A l \in Launches : launch[l].uses \ torn \subseteq launch[l].holds

Live == \A v \in Versions : Referenced(v) => owners[v] = "live"

\* v is in a node, in the index, or in the hands of an operation.
Seen(v) ==
    \/ \E g \in Graphs, n \in Nodes : params[g][n] = v
    \/ \E g \in Graphs, k \in Key : meta[g][k] = v
    \/ \E r \in Graphs : op[r].v = v
    \/ \E r \in Graphs, k \in Key : op[r].staged[k] = v

Fresh == \A v \in Versions : owners[v] = "fresh" => ~Seen(v)

IndexFits == \A g \in Graphs : Fits(meta[g], g, g)

Operations == \A r \in Graphs : Locked(r) /\ PhaseOK(r)

IInv == Typed /\ Tree /\ Operations /\ IndexFits /\ Holds /\ Live /\ Fresh

\* A new operation has what it was given, and nothing else.
LEMMA NewOpFields ==
  ASSUME NEW k \in Kinds, NEW phase \in Phases, NEW g \in Graphs \cup {None}, NEW n \in Nodes \cup {None}
  PROVE  LET a == NewOp(k, phase, g, n) IN
         /\ a \in Operation
         /\ a.kind = k /\ a.ph = phase /\ a.g = g /\ a.n = n /\ a.v = None
         /\ a.src = None /\ a.c = None /\ a.staged = NoEntries
<1>1. NoEntries \in [Key -> Versions \cup {None}]
  BY DEF NoEntries
<1> QED
  BY <1>1 DEF NewOp, Operation

\* No operation at all, field by field.
LEMMA NoOpType ==
  /\ NoOp \in Operation
  /\ NoOp.kind = "idle" /\ NoOp.ph = "idle" /\ NoOp.src = None /\ NoOp.v = None
  /\ NoOp.staged = NoEntries
<1>1. "idle" \in Kinds /\ "idle" \in Phases
  BY DEF Kinds, Phases
<1> QED
  BY <1>1, NewOpFields DEF NoOp

\* a differs from o in its phase and in what it has to release only.
SameWork(a, o) ==
    /\ a.kind = o.kind /\ a.g = o.g /\ a.n = o.n /\ a.v = o.v
    /\ a.src = o.src /\ a.c = o.c

\* Only the operation of r goes on.
OnlyOp(r) ==
    /\ op' \in [Graphs -> Operation]
    /\ \A q \in Graphs \ {r} : op'[q] = op[q]

\* An update of one operation leaves the others.
LEMMA OpIs ==
  ASSUME op \in [Graphs -> Operation], NEW r \in Graphs, NEW o \in Operation,
         op' = [op EXCEPT ![r] = o]
  PROVE  OnlyOp(r) /\ op'[r] = o
  BY DEF OnlyOp

\* A record that goes to another phase.
LEMMA PhaseOf ==
  ASSUME NEW o \in Operation, NEW p \in Phases
  PROVE  LET a == [o EXCEPT !.ph = p] IN
         /\ a \in Operation
         /\ SameWork(a, o) /\ a.staged = o.staged /\ a.ph = p
  BY DEF Operation, SameWork

\* Goto changes the phase of one operation only.
LEMMA GotoOp ==
  ASSUME op \in [Graphs -> Operation], NEW r \in Graphs, NEW p \in Phases, Goto(r, p)
  PROVE  /\ OnlyOp(r)
         /\ SameWork(op'[r], op[r]) /\ op'[r].staged = op[r].staged /\ op'[r].ph = p
<1>1. op[r] \in Operation
  OBVIOUS
<1>2. op' = [op EXCEPT ![r] = [op[r] EXCEPT !.ph = p]]
  BY DEF Goto
<1> QED
  BY ZenonT(60), <1>1, <1>2, PhaseOf, OpIs

\* Done ends one operation only.
LEMMA DoneOp ==
  ASSUME op \in [Graphs -> Operation], NEW r \in Graphs, Done(r)
  PROVE  OnlyOp(r) /\ op'[r] = NoOp
  BY NoOpType, OpIs DEF Done

\* After publication an operation releases, invalidates or ends; its work is the same.
LEMMA AfterPublishOp ==
  ASSUME op \in [Graphs -> Operation], NEW r \in Graphs, NEW prev \in Versions \cup {None},
         op' = [op EXCEPT ![r] = AfterPublish(op[r], prev)]
  PROVE  /\ OnlyOp(r)
         /\ \/ op'[r] = NoOp
            \/ /\ SameWork(op'[r], op[r]) /\ op'[r].ph = "invalidate"
            \/ /\ SameWork(op'[r], op[r]) /\ op'[r].ph = "release"
               /\ op'[r].prev = prev /\ prev # None
<1> DEFINE o == op[r]
           a == [o EXCEPT !.ph = "release", !.prev = prev]
<1>1. o \in Operation
  OBVIOUS
<1>2. a \in Operation /\ SameWork(a, o) /\ a.ph = "release" /\ a.prev = prev
  BY <1>1 DEF Operation, Phases, SameWork
<1>3. "invalidate" \in Phases
  BY DEF Phases
<1> HIDE DEF a
<1>4. AfterPublish(o, prev) = IF prev # None THEN a
                              ELSE IF o.kind = "destroy" THEN [o EXCEPT !.ph = "invalidate"] ELSE NoOp
  BY DEF AfterPublish, a
<1>5. AfterPublish(o, prev) \in Operation
  BY <1>1, <1>2, <1>3, <1>4, PhaseOf, NoOpType
<1>6. OnlyOp(r) /\ op'[r] = AfterPublish(o, prev)
  BY <1>5, OpIs
<1> QED
  BY <1>1, <1>2, <1>3, <1>4, <1>6, PhaseOf

\* The operation of an embed after its clone exists.
LEMMA ChildOp ==
  ASSUME op \in [Graphs -> Operation], NEW r \in Graphs, NEW s \in [Key -> Versions \cup {None}],
         op' = [op EXCEPT ![r] = [op[r] EXCEPT !.ph = "rekey", !.staged = s]]
  PROVE  /\ OnlyOp(r)
         /\ SameWork(op'[r], op[r]) /\ op'[r].staged = s /\ op'[r].ph = "rekey"
<1> DEFINE a == [op[r] EXCEPT !.ph = "rekey", !.staged = s]
<1>1. op[r] \in Operation
  OBVIOUS
<1>2. a \in Operation /\ SameWork(a, op[r]) /\ a.staged = s /\ a.ph = "rekey"
  BY <1>1 DEF Operation, Phases, SameWork
<1> QED
  BY <1>2, OpIs

\* The operations that are started, field by field.
StartsNode(a, k, g, n, v) ==
    /\ a.kind = k /\ a.ph = "mutate" /\ a.g = g /\ a.n = n /\ a.v = v
    /\ a.src = None /\ a.staged = NoEntries

StartsClone(a, k, ph, g, n, src, c, s) ==
    /\ a.kind = k /\ a.ph = ph /\ a.g = g /\ a.n = n /\ a.v = None
    /\ a.src = src /\ a.c = c /\ a.staged = s

\* The operation a node mutation begins with.
LEMMA PrepareOp ==
  ASSUME NEW k \in {"add", "set", "host", "destroy"}, NEW g \in Graphs, NEW n \in Nodes,
         NEW v \in Versions \cup {None}
  PROVE  LET a == [NewOp(k, "mutate", g, n) EXCEPT !.v = v] IN
         a \in Operation /\ StartsNode(a, k, g, n, v)
<1>1. k \in Kinds /\ "mutate" \in Phases
  BY DEF Kinds, Phases
<1> QED
  BY <1>1, NewOpFields DEF Operation, StartsNode

\* The operation an embed begins with.
LEMMA EmbedOp ==
  ASSUME NEW g \in Graphs, NEW src \in Graphs, NEW c \in Graphs, NEW n \in Nodes
  PROVE  LET a == [NewOp("embed", "child", g, n) EXCEPT !.src = src, !.c = c] IN
         a \in Operation /\ StartsClone(a, "embed", "child", g, n, src, c, NoEntries)
<1> DEFINE o == NewOp("embed", "child", g, n)
           a == [o EXCEPT !.src = src, !.c = c]
<1>1. "embed" \in Kinds /\ "child" \in Phases
  BY DEF Kinds, Phases
<1>2. /\ o \in Operation
      /\ o.kind = "embed" /\ o.ph = "child" /\ o.g = g /\ o.n = n /\ o.v = None /\ o.staged = NoEntries
  BY <1>1, NewOpFields
<1> HIDE DEF o
<1>3. a \in Operation /\ StartsClone(a, "embed", "child", g, n, src, c, NoEntries)
  BY <1>2 DEF Operation, StartsClone
<1> QED
  BY <1>3 DEF o

\* The operation a child update begins with.
LEMMA SwapOp ==
  ASSUME NEW g \in Graphs, NEW src \in Graphs, NEW c \in Graphs, NEW n \in Nodes,
         NEW s \in [Key -> Versions \cup {None}]
  PROVE  LET a == [NewOp("swap", "mutate", g, n) EXCEPT !.src = src, !.c = c, !.staged = s] IN
         a \in Operation /\ StartsClone(a, "swap", "mutate", g, n, src, c, s)
<1> DEFINE o == NewOp("swap", "mutate", g, n)
           a == [o EXCEPT !.src = src, !.c = c, !.staged = s]
<1>1. "swap" \in Kinds /\ "mutate" \in Phases
  BY DEF Kinds, Phases
<1>2. /\ o \in Operation
      /\ o.kind = "swap" /\ o.ph = "mutate" /\ o.g = g /\ o.n = n /\ o.v = None
  BY <1>1, NewOpFields
<1> HIDE DEF o
<1>3. a \in Operation /\ StartsClone(a, "swap", "mutate", g, n, src, c, s)
  BY <1>2 DEF Operation, StartsClone
<1> QED
  BY <1>3 DEF o

\* Types of operations follow from the type of the one that changes.
LEMMA TypedOp ==
  ASSUME Typed, NEW r \in Graphs, OnlyOp(r), WellFormed(op'[r])
  PROVE  op' \in [Graphs -> Operation] /\ \A q \in Graphs : WellFormed(op'[q])
  BY DEF Typed, OnlyOp

\* Everything is well typed at first.
LEMMA TypeInit == Init => Typed
<1> SUFFICES ASSUME Init PROVE Typed
  OBVIOUS
<1>1. TypeOK
  BY NothingAssumption, NoOpType DEF Init, TypeOK, NoNodes, NoEntries, Gone, Consumer
<1>2. \A r \in Graphs : WellFormed(op[r])
  BY NoOpType DEF Init, WellFormed
<1> QED
  BY <1>1, <1>2 DEF Typed

\* An executable or a launch copies versions and references, nothing else.
LEMMA SnapshotParts ==
  ASSUME TypeOK, NEW g \in Graphs
  PROVE  /\ Snapshot(g) \in Consumer
         /\ Holds => Snapshot(g).uses \ torn \subseteq Snapshot(g).holds
         /\ \A v \in Snapshot(g).holds : \E x \in Graphs : v \in refs[x]
<1> DEFINE gs == {g} \cup Embedded(g)
<1>1. gs \subseteq Graphs
  BY DEF Embedded
<1>2. /\ Snapshot(g).uses = UNION {VersionsOf(x) : x \in gs}
      /\ Snapshot(g).holds = UNION {refs[x] : x \in gs}
      /\ Snapshot(g) = [uses |-> Snapshot(g).uses, holds |-> Snapshot(g).holds]
  BY DEF Snapshot
<1>3. \A v : v \in Snapshot(g).uses <=> \E x \in gs : v \in VersionsOf(x)
  BY <1>2
<1>4. \A v : v \in Snapshot(g).holds <=> \E x \in gs : v \in refs[x]
  BY <1>2
<1>5. \A x \in Graphs : refs[x] \subseteq Versions /\ VersionsOf(x) \subseteq Versions
  BY DEF TypeOK, VersionsOf
<1>6. Snapshot(g).uses \subseteq Versions /\ Snapshot(g).holds \subseteq Versions
  BY <1>1, <1>3, <1>4, <1>5
<1>7. Snapshot(g) \in Consumer
  BY <1>2, <1>6 DEF Consumer
<1>8. ASSUME Holds PROVE Snapshot(g).uses \ torn \subseteq Snapshot(g).holds
  <2>1. \A x \in Graphs : VersionsOf(x) \ torn \subseteq refs[x]
    BY <1>8 DEF Holds, VersionsOf
  <2> QED
    BY <1>1, <1>3, <1>4, <2>1
<1> QED
  BY <1>1, <1>4, <1>7, <1>8

\* Rekeyed entries are entries.
LEMMA RekeyedType ==
  ASSUME NEW entries \in [Key -> Versions \cup {None}], NEW src \in Graphs, NEW c \in Graphs
  PROVE  /\ Rekeyed(entries, src, c) \in [Key -> Versions \cup {None}]
         /\ \A n \in Nodes : Rekeyed(entries, src, c)[<<c, n>>] = entries[<<src, n>>]
         /\ \A k \in Key : Rekeyed(entries, src, c)[k] = None
                             \/ \E n \in Nodes : Rekeyed(entries, src, c)[k] = entries[<<src, n>>]
<1>1. \A k \in Key : k[2] \in Nodes /\ <<src, k[2]>> \in Key
  BY DEF Key
<1>2. \A n \in Nodes : <<c, n>> \in Key /\ <<c, n>>[1] = c /\ <<c, n>>[2] = n
  BY DEF Key
<1> QED
  BY <1>1, <1>2 DEF Rekeyed

OpFacts(r) ==
    /\ op[r] \in Operation
    /\ op[r].v \in Versions \cup {None} /\ op[r].prev \in Versions \cup {None}
    /\ op[r].staged \in [Key -> Versions \cup {None}]
    /\ op[r].kind = "idle" => op[r] = NoOp
    /\ op[r].ph # "idle" => op[r].kind # "idle"
    /\ op[r].kind # "idle" => op[r].g \in Graphs /\ op[r].n \in Nodes
    /\ op[r].kind \in {"embed", "swap"} => op[r].src \in Graphs /\ op[r].c \in Graphs
    /\ op[r].ph \in {"child", "rekey", "undo"} => op[r].kind = "embed"
    /\ op[r].ph = "commit" => op[r].kind = "swap"
    /\ op[r].src \in Graphs \cup {None}

\* Types of the fields of an operation, for the provers.
LEMMA OpFactsHold == ASSUME Typed, NEW r \in Graphs PROVE OpFacts(r)
<1>1. op[r] \in Operation /\ WellFormed(op[r])
  BY DEF Typed, TypeOK
<1> QED
  BY <1>1, NoOpType DEF Operation, WellFormed, OpFacts

\* Every step keeps the types.
LEMMA TypeNext == Typed /\ [Next]_vars => Typed'
<1> SUFFICES ASSUME Typed, [Next]_vars PROVE Typed'
  OBVIOUS
<1>e. NoEntries \in [Key -> Versions \cup {None}] /\ NoNodes \in [Nodes -> Versions \cup {None, Absent}]
  BY DEF NoEntries, NoNodes
<1>t. TypeOK /\ \A r \in Graphs : WellFormed(op[r])
  BY DEF Typed
<1>o. \A r \in Graphs : OpFacts(r)
  BY OpFactsHold
<1>p. {"idle", "mutate", "publish", "release", "invalidate", "child", "rekey", "undo", "commit"} \subseteq Phases
  BY DEF Phases
<1>r. \A g \in Graphs : RootOf(g) \in Graphs
  BY <1>t DEF TypeOK, RootOf
<1>f. WellFormed(NoOp)
  BY NoOpType DEF WellFormed
\* Actions that leave the operations alone.
<1>q. ASSUME UNCHANGED op, op \in [Graphs -> Operation] => TypeOK' PROVE Typed'
  BY <1>q, <1>t DEF Typed, TypeOK
\* Those that start or continue one, or finish it.
<1>s. ASSUME NEW r \in Graphs, OnlyOp(r), WellFormed(op'[r]), op' \in [Graphs -> Operation] => TypeOK'
      PROVE  Typed'
  BY <1>s, TypedOp DEF Typed
<1>d. ASSUME NEW r \in Graphs, Done(r), op' \in [Graphs -> Operation] => TypeOK' PROVE Typed'
  BY <1>d, <1>t, <1>f, <1>s, DoneOp DEF TypeOK
<1>1. ASSUME NEW g \in Graphs, CreateGraph(g) PROVE Typed'
  BY <1>1, <1>q, <1>t DEF CreateGraph, TypeOK
<1>2. ASSUME NEW g \in Graphs, CloseGraph(g) PROVE Typed'
  BY <1>2, <1>q, <1>t, <1>e DEF CloseGraph, DriverDestroy, Retire, TypeOK
<1>3. ASSUME NEW g \in Graphs, DiscoverChild(g) PROVE Typed'
  BY <1>3, <1>q, <1>t DEF DiscoverChild, TypeOK
<1>4. ASSUME NEW r \in Graphs, Mutate(r) PROVE Typed'
  <2>1. OnlyOp(r) /\ WellFormed(op'[r])
    BY <1>4, <1>t, <1>o, <1>p, GotoOp DEF Mutate, Mutating, WellFormed, SameWork, TypeOK, OpFacts
  <2>2. alive' \in [Graphs -> {"none", "live", "destroyed"}] /\ refs' \in [Graphs -> SUBSET Versions]
    BY <1>4, <1>t DEF Mutate, TypeOK
  <2>3. params' \in [Graphs -> [Nodes -> Versions \cup {None, Absent}]]
    <3>1. CASE op[r].kind = "destroy"
      <4>1. params' = [x \in Graphs |-> IF x \in OwnedBy(op[r].g, op[r].n) THEN NoNodes
                                        ELSE IF x = op[r].g THEN [params[x] EXCEPT ![op[r].n] = Absent]
                                        ELSE params[x]]
        BY <1>4, <3>1 DEF Mutate
      <4>2. \A x \in Graphs : params'[x] \in [Nodes -> Versions \cup {None, Absent}]
        BY <4>1, <1>t, <1>e DEF TypeOK
      <4> QED
        BY <4>1, <4>2
    <3>2. CASE op[r].kind # "destroy"
      <4>1. params' = [params EXCEPT ![op[r].g][op[r].n] = op[r].v]
        BY <1>4, <3>2 DEF Mutate
      <4> QED
        BY <4>1, <1>t, <1>o DEF TypeOK, OpFacts
    <3> QED
      BY <3>1, <3>2
  <2>4. op' \in [Graphs -> Operation] => TypeOK'
    BY <1>4, <1>t, <2>2, <2>3 DEF Mutate, TypeOK
  <2> QED
    BY <2>1, <2>4, <1>s
<1>5. ASSUME NEW r \in Graphs, MutateFails(r) PROVE Typed'
  BY <1>5, <1>d, <1>t, <1>o DEF MutateFails, Mutating, Rollback, TypeOK, OpFacts
<1>6. ASSUME NEW r \in Graphs, RestoreFails(r) PROVE Typed'
  BY <1>6, <1>d, <1>t, <1>o DEF RestoreFails, Mutating, Rollback, TypeOK, OpFacts
<1>7. ASSUME NEW r \in Graphs, Publish(r) PROVE Typed'
  <2> DEFINE prev == meta[op[r].g][<<op[r].g, op[r].n>>]
  <2>1. prev \in Versions \cup {None} /\ <<op[r].g, op[r].n>> \in Key
    BY <1>7, <1>t, <1>o DEF Publish, TypeOK, Key, OpFacts
  <2>2. OnlyOp(r) /\ (op'[r] = NoOp \/ (SameWork(op'[r], op[r]) /\ op'[r].ph \in {"invalidate", "release"}))
    BY <1>7, <1>t, <2>1, AfterPublishOp DEF Publish, TypeOK
  <2>3. WellFormed(op'[r])
    <3>1. CASE op'[r] = NoOp
      BY <3>1, NoOpType DEF WellFormed
    <3>2. CASE SameWork(op'[r], op[r]) /\ op'[r].ph \in {"invalidate", "release"}
      BY <1>7, <1>o, <3>2 DEF Publish, WellFormed, SameWork, OpFacts
    <3> QED
      BY <2>2, <3>1, <3>2
  <2>4. op' \in [Graphs -> Operation] => TypeOK'
    BY <1>7, <1>t, <1>o, <2>1 DEF Publish, TypeOK, OpFacts
  <2> QED
    BY <2>2, <2>3, <2>4, <1>s
<1>8. ASSUME NEW r \in Graphs, TailFails(r) PROVE Typed'
  BY <1>8, <1>d, <1>t, <1>o DEF TailFails, TypeOK, OpFacts
<1>9. ASSUME NEW r \in Graphs, ReleasePrevious(r) PROVE Typed'
  <2>1. OnlyOp(r) /\ (op'[r] = NoOp \/ (SameWork(op'[r], op[r]) /\ op'[r].ph \in {"invalidate", "release"}))
    BY <1>9, <1>t, AfterPublishOp DEF ReleasePrevious, TypeOK
  <2>2. WellFormed(op'[r])
    BY <1>9, <1>o, <1>f, <2>1 DEF ReleasePrevious, WellFormed, SameWork, OpFacts
  <2>3. op' \in [Graphs -> Operation] => TypeOK'
    BY <1>9, <1>t, <1>o DEF ReleasePrevious, TypeOK, OpFacts
  <2> QED
    BY <2>1, <2>2, <2>3, <1>s
<1>10. ASSUME NEW r \in Graphs, Invalidate(r) PROVE Typed'
  BY <1>10, <1>d, <1>t, <1>o, <1>e DEF Invalidate, Retire, TypeOK, OpFacts
<1>11. ASSUME NEW r \in Graphs, EmbedChild(r) PROVE Typed'
  <2>1. OnlyOp(r) /\ WellFormed(op'[r])
    BY ZenonT(60), <1>11, <1>t, <1>o, <1>p, ChildOp DEF EmbedChild, WellFormed, SameWork, TypeOK, OpFacts
  <2>2. op' \in [Graphs -> Operation] => TypeOK'
    BY <1>11, <1>t, <1>o DEF EmbedChild, TypeOK, OpFacts
  <2> QED
    BY <2>1, <2>2, <1>s
<1>12. ASSUME NEW r \in Graphs, EmbedRekey(r) PROVE Typed'
  BY <1>12, <1>d, <1>t, <1>o, RekeyedType DEF EmbedRekey, TypeOK, OpFacts
<1>13. ASSUME NEW r \in Graphs, EmbedFails(r) PROVE Typed'
  <2>1. OnlyOp(r) /\ WellFormed(op'[r])
    BY <1>13, <1>t, <1>o, <1>p, GotoOp DEF EmbedFails, WellFormed, SameWork, TypeOK, OpFacts
  <2>2. op' \in [Graphs -> Operation] => TypeOK'
    BY <1>13, <1>t, <1>o DEF EmbedFails, TypeOK, OpFacts
  <2> QED
    BY <2>1, <2>2, <1>s
<1>14. ASSUME NEW r \in Graphs, EmbedUndo(r) PROVE Typed'
  <2>1. OnlyOp(r) /\ WellFormed(op'[r])
    BY ZenonT(60), <1>14, <1>t, <1>o, <1>p, GotoOp DEF EmbedUndo, WellFormed, SameWork, TypeOK, OpFacts
  <2>2. op' \in [Graphs -> Operation] => TypeOK'
    BY <1>14, <1>t, <1>o, <1>e DEF EmbedUndo, TypeOK, OpFacts
  <2> QED
    BY <2>1, <2>2, <1>s
<1>15. ASSUME NEW r \in Graphs, UndoFails(r) PROVE Typed'
  BY <1>15, <1>d, <1>t, <1>o DEF UndoFails, TypeOK, OpFacts
<1>16. ASSUME NEW r \in Graphs, SwapMutate(r) PROVE Typed'
  <2>1. OnlyOp(r) /\ WellFormed(op'[r])
    BY <1>16, <1>t, <1>o, <1>p, GotoOp DEF SwapMutate, WellFormed, SameWork, TypeOK, OpFacts
  <2>2. op' \in [Graphs -> Operation] => TypeOK'
    BY <1>16, <1>t, <1>o, <1>e DEF SwapMutate, DriverClone, TypeOK, OpFacts
  <2> QED
    BY <2>1, <2>2, <1>s
<1>17. ASSUME NEW r \in Graphs, SwapRejected(r) PROVE Typed'
  BY <1>17, <1>d, <1>t, <1>o DEF SwapRejected, TypeOK, OpFacts
<1>18. ASSUME NEW r \in Graphs, SwapCommit(r) PROVE Typed'
  <2>1. Rekeyed(op[r].staged, op[r].src, op[r].c) \in [Key -> Versions \cup {None}]
    BY <1>18, <1>o, RekeyedType DEF SwapCommit, OpFacts
  <2>2. boxed' \in [Graphs -> BOOLEAN] /\ meta' \in [Graphs -> [Key -> Versions \cup {None}]]
    BY ZenonT(60), <1>18, <1>t, <1>e, <2>1 DEF SwapCommit, TypeOK
  <2> QED
    BY <1>18, <1>d, <1>t, <2>2 DEF SwapCommit, TypeOK
<1>19. ASSUME NEW g \in Graphs, NEW n \in Nodes, NEW k \in {"add", "set", "host", "destroy"},
              NEW v \in Versions \cup {None}, Prepare(g, n, k, v)
       PROVE  Typed'
  <2>1. OnlyOp(RootOf(g)) /\ StartsNode(op'[RootOf(g)], k, g, n, v)
    BY <1>19, <1>r, <1>t, PrepareOp, OpIs DEF Prepare, TypeOK
  <2>2. WellFormed(op'[RootOf(g)])
    BY <2>1 DEF StartsNode, WellFormed
  <2>3. op' \in [Graphs -> Operation] => TypeOK'
    BY <1>19, <1>t DEF Prepare, TypeOK
  <2> QED
    BY <2>1, <2>2, <2>3, <1>r, <1>s
<1>20. ASSUME NEW g \in Graphs, NEW n \in Nodes, NEW k, NEW v, CreateFails(g, n, k, v) \/ RetainFails(g, n, k, v)
       PROVE  Typed'
  BY <1>20, <1>q, <1>t DEF CreateFails, RetainFails, TypeOK
<1>22. ASSUME NEW g \in Graphs, NEW src \in Graphs, NEW c \in Graphs, NEW n \in Nodes, EmbedAdd(g, n, src, c)
       PROVE  Typed'
  <2>1. OnlyOp(g) /\ StartsClone(op'[g], "embed", "child", g, n, src, c, NoEntries)
    BY <1>22, <1>t, EmbedOp, OpIs DEF EmbedAdd, TypeOK
  <2>2. WellFormed(op'[g])
    BY <2>1 DEF StartsClone, WellFormed
  <2>3. op' \in [Graphs -> Operation] => TypeOK'
    BY <1>22, <1>t DEF EmbedAdd, DriverClone, TypeOK
  <2> QED
    BY <2>1, <2>2, <2>3, <1>s
<1>23. ASSUME NEW g \in Graphs, NEW src \in Graphs, NEW c \in Graphs, NEW n \in Nodes, SwapPrepare(g, n, src, c)
       PROVE  Typed'
  <2>1. OnlyOp(g) /\ StartsClone(op'[g], "swap", "mutate", g, n, src, c, meta[src])
    BY <1>23, <1>t, SwapOp, OpIs DEF SwapPrepare, TypeOK
  <2>2. WellFormed(op'[g])
    BY <2>1 DEF StartsClone, WellFormed
  <2>3. op' \in [Graphs -> Operation] => TypeOK'
    BY <1>23, <1>t DEF SwapPrepare, TypeOK
  <2> QED
    BY <2>1, <2>2, <2>3, <1>s
<1>24. ASSUME NEW g \in Graphs, NEW e \in Execs, Instantiate(g, e) \/ ExecUpdate(g, e) PROVE Typed'
  BY ZenonT(60), <1>24, <1>t, <1>q, SnapshotParts DEF Instantiate, ExecUpdate, TypeOK
<1>25. ASSUME NEW e \in Execs, NEW l \in Launches, ExecDestroy(e) \/ Launch(e, l) \/ Complete(l) PROVE Typed'
  <2>1. Gone \in Consumer
    BY DEF Gone, Consumer
  <2> QED
    BY ZenonT(60), <1>25, <1>t, <1>q, <2>1 DEF ExecDestroy, Launch, Complete, TypeOK
<1>26. ASSUME NEW v \in Versions, EnqueueCleanup(v) PROVE Typed'
  BY <1>26, <1>t, <1>q DEF EnqueueCleanup, TypeOK
<1>27. CASE Drain
  BY <1>27, <1>t, <1>q DEF Drain, TypeOK
<1>28. CASE UNCHANGED vars
  BY <1>28, <1>t, <1>q DEF vars, TypeOK
<1> QED
  BY <1>1, <1>2, <1>3, <1>4, <1>5, <1>6, <1>7, <1>8, <1>9, <1>10, <1>11, <1>12, <1>13, <1>14, <1>15,
     <1>16, <1>17, <1>18, <1>19, <1>20, <1>22, <1>23, <1>24, <1>25, <1>26, <1>27, <1>28
  DEF Next, StartNode, Continue

\* Type correctness, for any instance: every entry of the index, of a staged
\* map and of an operation is a version, a graph or a node, or None.
THEOREM TypeCorrect == Spec => []TypeOK
<1>1. Typed => TypeOK
  BY DEF Typed
<1> QED
  BY <1>1, TypeInit, TypeNext, PTL DEF Spec

-----------------------------------------------------------------------------
(* What others do does not matter.                                         *)

\* Graphs that exist stay, where they are.
Grows == \A x \in Graphs : alive[x] # "none" => alive'[x] # "none" /\ parent'[x] = parent[x]

SameGraph(x) == params'[x] = params[x] /\ meta'[x] = meta[x] /\ refs[x] \subseteq refs'[x]

\* An operation whose own graphs do not change is not disturbed.
LEMMA Frame ==
  ASSUME Typed, NEW r \in Graphs, Locked(r), PhaseOK(r), op'[r] = op[r], Grows,
         op[r].kind # "idle" => SameGraph(op[r].g),
         op[r].src # None => SameGraph(op[r].src),
         op[r].kind = "embed" \/ op[r].ph = "commit" => SameGraph(op[r].c),
         op[r].src # None =>
             RootOf(op[r].src) = r \/ op'[RootOf(op[r].src)] = op[RootOf(op[r].src)]
  PROVE  Locked(r)' /\ PhaseOK(r)'
<1>1. OpFacts(r)
  BY OpFactsHold
<1>2. Locked(r)'
  BY <1>1 DEF OpFacts, Locked, Grows, RootOf
<1>3. op[r].kind \in {"embed", "swap"} => op[r].src # None
  BY <1>1, NothingAssumption DEF OpFacts
<1>4. ASSUME Mutating(r)', op[r].v # None
      PROVE  /\ op[r].v \in refs'[op[r].g]
             /\ \A m \in Nodes : params'[op[r].g][m] # op[r].v /\ meta'[op[r].g][<<op[r].g, m>>] # op[r].v
  BY <1>4 DEF Mutating, PhaseOK, SameGraph
<1>5. ASSUME op[r].ph = "publish"
      PROVE  /\ params'[op[r].g][op[r].n] \in {op[r].v, Absent}
             /\ op[r].v # None =>
                   /\ meta'[op[r].g][<<op[r].g, op[r].n>>] # op[r].v
                   /\ \A m \in Nodes \ {op[r].n} : params'[op[r].g][m] # op[r].v
  BY <1>1, <1>5 DEF OpFacts, PhaseOK, SameGraph
<1>6. ASSUME op[r].ph = "release"
      PROVE  \A m \in Nodes : params'[op[r].g][m] # op[r].prev
  BY <1>1, <1>6 DEF OpFacts, PhaseOK, SameGraph
<1>7. ASSUME NEW e, NEW x, NEW y, SameGraph(y), Fits(e, x, y)
      PROVE  \A n, m \in Nodes : n # m /\ e[<<x, n>>] \in Versions => params'[y][m] # e[<<x, n>>]
  BY <1>7 DEF SameGraph, Fits
<1>8. op[r].kind = "embed" /\ op[r].ph = "child" => Fits(meta[op[r].src], op[r].src, op[r].c)'
  BY <1>3, <1>7 DEF PhaseOK, SameGraph, Fits
<1>9. ASSUME op[r].kind = "embed", op[r].ph = "rekey" PROVE Fits(op[r].staged, op[r].src, op[r].c)'
  <2>1. Fits(op[r].staged, op[r].src, op[r].c) /\ SameGraph(op[r].c)
    BY <1>9 DEF PhaseOK
  <2> QED
    BY <2>1 DEF Fits, SameGraph
<1>10. ASSUME op[r].kind = "swap", op[r].ph = "mutate" PROVE Fits(op[r].staged, op[r].src, op[r].src)'
  <2>1. Fits(op[r].staged, op[r].src, op[r].src) /\ SameGraph(op[r].src)
    BY <1>10, <1>3 DEF PhaseOK
  <2> QED
    BY <2>1 DEF Fits, SameGraph
<1>11. ASSUME op[r].ph = "commit" PROVE Fits(op[r].staged, op[r].src, op[r].c)'
  <2>1. Fits(op[r].staged, op[r].src, op[r].c) /\ SameGraph(op[r].c)
    BY <1>11 DEF PhaseOK
  <2> QED
    BY <2>1 DEF Fits, SameGraph
<1>12. PhaseOK(r)'
  BY <1>4, <1>5, <1>6, <1>8, <1>9, <1>10, <1>11 DEF PhaseOK
<1> QED
  BY <1>2, <1>12

\* Operations on other hierarchies than that of r, which is idle or where the
\* step is one of op[r].
LEMMA Others ==
  ASSUME Typed, Tree, Operations, Grows, NEW r \in Graphs,
         op[r] # NoOp \/ Idle(r),
         \A q \in Graphs \ {r} : op'[q] = op[q],
         \A x \in Graphs : alive[x] # "none" /\ RootOf(x) # r => SameGraph(x)
  PROVE  \A q \in Graphs \ {r} : Locked(q)' /\ PhaseOK(q)'
<1> SUFFICES ASSUME NEW q \in Graphs \ {r} PROVE Locked(q)' /\ PhaseOK(q)'
  OBVIOUS
<1>1. OpFacts(q) /\ Locked(q) /\ PhaseOK(q)
  BY OpFactsHold DEF Operations
<1>2. \A x \in Graphs : RootOf(x) \in Graphs
  BY DEF RootOf, Typed, TypeOK
<1>3. op[q].src # None =>
          op[q].src \in Graphs /\ alive[op[q].src] # "none" /\ RootOf(op[q].src) # r
  BY <1>1 DEF OpFacts, Locked, Idle
<1>4. op[q].kind # "idle" => op[q].g \in Graphs /\ alive[op[q].g] # "none" /\ RootOf(op[q].g) # r
  BY <1>1 DEF Locked, OpFacts
<1>5. op[q].kind = "embed" \/ op[q].ph = "commit" =>
          /\ op[q].kind # "idle" /\ op[q].c \in Graphs /\ parent[op[q].g] = None
          /\ parent[op[q].c] = op[q].g /\ alive[op[q].c] # "none"
  BY <1>1 DEF Locked, OpFacts
<1>6. op[q].kind = "embed" \/ op[q].ph = "commit" =>
          op[q].c \in Graphs /\ alive[op[q].c] # "none" /\ RootOf(op[q].c) # r
  BY <1>4, <1>5, NothingAssumption DEF RootOf
<1> QED
  BY <1>1, <1>2, <1>3, <1>4, <1>6, Frame

\* One operation and the others are all of them.
LEMMA OpsButOne ==
  ASSUME NEW r \in Graphs, \A q \in Graphs \ {r} : Locked(q)' /\ PhaseOK(q)', Locked(r)', PhaseOK(r)'
  PROVE  Operations'
  BY DEF Operations

\* The operation of r is over, or there was none.
LEMMA OverOK ==
  ASSUME NEW r \in Graphs, op'[r] = NoOp
  PROVE  Locked(r)' /\ PhaseOK(r)'
  BY NoOpType DEF Locked, PhaseOK, Mutating

\* Steps that no operation notices.
LEMMA Quiet ==
  ASSUME Typed, Tree, Operations, IndexFits, Fresh, UNCHANGED <<parent, params, refs, meta, op>>,
         \A x \in Graphs : alive[x] # "none" => alive'[x] # "none",
         \A v \in Versions : owners'[v] = "fresh" => owners[v] = "fresh"
  PROVE  Operations' /\ IndexFits' /\ Fresh'
<1>1. Grows /\ \A x : SameGraph(x)
  BY DEF Grows, SameGraph
<1>2. Operations'
  BY <1>1, Frame DEF Operations
<1>3. IndexFits' /\ Fresh'
  BY DEF IndexFits, Fits, Fresh, Seen
<1> QED
  BY <1>2, <1>3

-----------------------------------------------------------------------------
(* One lemma per group of actions: the invariant is kept.                  *)

\* A new graph is empty and nobody uses it.
LEMMA CreateKeeps ==
  ASSUME IInv, Typed', NEW g \in Graphs, CreateGraph(g) PROVE IInv'
<1>1. Operations' /\ IndexFits' /\ Fresh'
  BY Quiet DEF CreateGraph, IInv, Typed, TypeOK
<1>2. Tree'
  BY DEF CreateGraph, IInv, Tree, Typed, TypeOK
<1>3. Holds' /\ Live'
  BY DEF CreateGraph, IInv, Holds, Live, Referenced
<1> QED
  BY <1>1, <1>2, <1>3 DEF IInv

\* A box for an embedded graph changes no version.
LEMMA DiscoverKeeps ==
  ASSUME IInv, Typed', NEW g \in Graphs, DiscoverChild(g) PROVE IInv'
<1>1. Operations' /\ IndexFits' /\ Fresh'
  BY Quiet DEF DiscoverChild, IInv
<1>2. Tree'
  BY DEF DiscoverChild, IInv, Tree, Typed, TypeOK
<1>3. Holds' /\ Live'
  BY DEF DiscoverChild, IInv, Holds, Live, Referenced
<1> QED
  BY <1>1, <1>2, <1>3 DEF IInv

\* A version that nothing refers to yet changes its state.
LEMMA FailuresKeep ==
  ASSUME IInv, Typed', NEW g, NEW n, NEW k, NEW v, CreateFails(g, n, k, v) \/ RetainFails(g, n, k, v)
  PROVE  IInv'
<1>1. Operations' /\ IndexFits' /\ Fresh'
  BY Quiet DEF CreateFails, RetainFails, IInv, Typed, TypeOK
<1>2. Tree' /\ Holds'
  BY DEF CreateFails, RetainFails, IInv, Tree, Holds
<1>3. Live'
  BY DEF CreateFails, RetainFails, IInv, Live, Referenced, Typed, TypeOK
<1> QED
  BY <1>1, <1>2, <1>3 DEF IInv

\* What CUDA enqueues has no reference, and what is drained was enqueued.
LEMMA ReclaimKeeps ==
  ASSUME IInv, Typed', Drain \/ \E v \in Versions : EnqueueCleanup(v)
  PROVE  IInv'
<1>1. Operations' /\ IndexFits' /\ Fresh'
  BY Quiet DEF Drain, EnqueueCleanup, IInv, Typed, TypeOK
<1>2. Tree' /\ Holds'
  BY DEF Drain, EnqueueCleanup, IInv, Tree, Holds
<1>3. Live'
  BY DEF Drain, EnqueueCleanup, IInv, Live, Referenced, Typed, TypeOK
<1> QED
  BY <1>1, <1>2, <1>3 DEF IInv

\* Executables and launches copy what is held together with what holds it.
LEMMA ConsumersKeep ==
  ASSUME IInv, Typed', NEW e, NEW l,
         \/ e \in Execs /\ \E g \in Graphs : Instantiate(g, e) \/ ExecUpdate(g, e)
         \/ e \in Execs /\ l \in Launches /\ (ExecDestroy(e) \/ Launch(e, l) \/ Complete(l))
  PROVE  IInv'
<1>t. Typed /\ TypeOK /\ Holds /\ Live
  BY DEF IInv, Typed
<1>u. UNCHANGED <<alive, parent, owner, params, refs, boxed, meta, owners, op, torn>>
  BY DEF Instantiate, ExecUpdate, ExecDestroy, Launch, Complete
<1>1. Operations' /\ IndexFits' /\ Fresh'
  BY <1>u, Quiet DEF IInv
<1>2. Tree'
  BY <1>u DEF IInv, Tree
<1>3. Gone.uses = {} /\ Gone.holds = {}
  BY DEF Gone
<1>4. \A x \in Execs : exec'[x].uses \ torn \subseteq exec'[x].holds
  BY <1>t, <1>3, SnapshotParts DEF Instantiate, ExecUpdate, ExecDestroy, Launch, Complete, TypeOK, Holds
<1>5. \A x \in Launches : launch'[x].uses \ torn \subseteq launch'[x].holds
  BY <1>t, <1>3 DEF Instantiate, ExecUpdate, ExecDestroy, Launch, Complete, TypeOK, Holds
<1>6. Holds'
  BY <1>t, <1>u, <1>4, <1>5 DEF Holds
<1>7. \A v \in Versions : Referenced(v)' => Referenced(v)
  <2>1. ASSUME NEW v \in Versions, NEW x \in Execs, v \in exec'[x].holds PROVE Referenced(v)
    BY <1>t, <1>3, <2>1, SnapshotParts
    DEF Instantiate, ExecUpdate, ExecDestroy, Launch, Complete, TypeOK, Referenced
  <2>2. ASSUME NEW v \in Versions, NEW x \in Launches, v \in launch'[x].holds PROVE Referenced(v)
    BY <1>t, <1>3, <2>2 DEF Instantiate, ExecUpdate, ExecDestroy, Launch, Complete, TypeOK, Referenced
  <2> QED
    BY <1>u, <2>1, <2>2 DEF Referenced
<1>8. Live'
  BY <1>t, <1>u, <1>7 DEF Live
<1> QED
  BY <1>1, <1>2, <1>6, <1>8 DEF IInv

\* What an operation under way knows of its own hierarchy.
LEMMA OwnGraphs ==
  ASSUME IInv, NEW r \in Graphs, op[r].ph # "idle"
  PROVE  /\ OpFacts(r) /\ Locked(r) /\ PhaseOK(r)
         /\ op[r] # NoOp /\ op[r].kind # "idle"
         /\ op[r].g \in Graphs /\ op[r].n \in Nodes
         /\ alive[op[r].g] # "none" /\ RootOf(op[r].g) = r
         /\ \A x \in Graphs : parent[x] = op[r].g => RootOf(x) = r
<1>1. OpFacts(r) /\ Locked(r) /\ PhaseOK(r)
  BY OpFactsHold DEF IInv, Operations
<1>2. op[r] # NoOp /\ op[r].kind # "idle"
  BY <1>1, NoOpType DEF OpFacts
<1>3. op[r].g \in Graphs /\ op[r].n \in Nodes /\ alive[op[r].g] # "none" /\ RootOf(op[r].g) = r
  BY <1>1, <1>2 DEF OpFacts, Locked
<1>4. ASSUME NEW x \in Graphs, parent[x] = op[r].g PROVE RootOf(x) = r
  BY <1>3, <1>4, NothingAssumption DEF IInv, Tree, RootOf
<1> QED
  BY <1>1, <1>2, <1>3, <1>4

\* A step that only ends an operation.
LEMMA EndKeeps ==
  ASSUME IInv, Typed', NEW r \in Graphs, op[r].ph # "idle", Done(r),
         UNCHANGED <<alive, parent, owner, params, refs, boxed, meta, owners, exec, launch, torn>>
  PROVE  IInv'
<1>1. OnlyOp(r) /\ op'[r] = NoOp
  BY DoneOp DEF IInv, Typed, TypeOK
<1>2. \A q \in Graphs \ {r} : Locked(q)' /\ PhaseOK(q)'
  <2>1. Grows /\ \A x \in Graphs : SameGraph(x)
    BY DEF Grows, SameGraph
  <2> QED
    BY <1>1, <2>1, OwnGraphs, Others DEF IInv, OnlyOp
<1>3. Operations'
  BY <1>1, <1>2, OverOK, OpsButOne
<1>4. Tree' /\ IndexFits' /\ Holds' /\ Live'
  BY DEF IInv, Tree, IndexFits, Fits, Holds, Live, Referenced
<1>5. Fresh'
  <2>1. \A v \in Versions : Seen(v)' => Seen(v)
    BY <1>1, NoOpType, NothingAssumption DEF Seen, OnlyOp, NoEntries
  <2> QED
    BY <2>1 DEF IInv, Fresh
<1> QED
  BY <1>3, <1>4, <1>5 DEF IInv

\* Failures that end an operation and leave its versions where they are.
LEMMA EndsKeep ==
  ASSUME IInv, Typed', NEW r \in Graphs, TailFails(r) \/ UndoFails(r) \/ SwapRejected(r)
  PROVE  IInv'
  BY EndKeeps DEF TailFails, UndoFails, SwapRejected

\* A step that only takes an operation to a phase nothing is known of.
LEMMA EmbedFailsKeeps ==
  ASSUME IInv, Typed', NEW r \in Graphs, EmbedFails(r)
  PROVE  IInv'
<1>1. OnlyOp(r) /\ SameWork(op'[r], op[r]) /\ op'[r].staged = op[r].staged /\ op'[r].ph = "undo"
  BY GotoOp DEF EmbedFails, IInv, Typed, TypeOK, Phases
<1>2. Grows /\ \A x \in Graphs : SameGraph(x)
  BY DEF EmbedFails, Grows, SameGraph
<1>3. op[r].kind = "embed" /\ op[r].ph # "idle"
  BY DEF EmbedFails
<1>4. \A q \in Graphs \ {r} : Locked(q)' /\ PhaseOK(q)'
  BY <1>1, <1>2, <1>3, OwnGraphs, Others DEF IInv, OnlyOp
<1>5. Locked(r)' /\ PhaseOK(r)'
  <2>1. Locked(r) /\ OpFacts(r)
    BY <1>3, OwnGraphs
  <2>2. op[r].src \in Graphs => RootOf(op[r].src) \in Graphs
    BY DEF RootOf, IInv, Typed, TypeOK
  <2> QED
    BY <1>1, <1>3, <2>1, <2>2 DEF EmbedFails, Locked, PhaseOK, Mutating, SameWork, RootOf, OpFacts, OnlyOp
<1>6. Operations'
  BY <1>4, <1>5, OpsButOne
<1>7. Tree' /\ IndexFits' /\ Holds' /\ Live'
  BY DEF EmbedFails, IInv, Tree, IndexFits, Fits, Holds, Live, Referenced
<1>8. Fresh'
  <2>1. \A v \in Versions : Seen(v)' => Seen(v)
    BY <1>1 DEF EmbedFails, Seen, OnlyOp, SameWork
  <2> QED
    BY <2>1 DEF EmbedFails, IInv, Fresh
<1> QED
  BY <1>6, <1>7, <1>8 DEF IInv

\* Rolling a version back takes it from nobody who uses it.
LEMMA MutateFailsKeeps ==
  ASSUME IInv, Typed', NEW r \in Graphs, MutateFails(r) \/ RestoreFails(r)
  PROVE  IInv'
<1> DEFINE o == op[r]
<1>t. Typed /\ TypeOK /\ Tree /\ IndexFits /\ Holds /\ Live /\ Fresh
  BY DEF IInv, Typed
<1>0. Mutating(r) /\ Rollback(r) /\ o.ph = "mutate"
      /\ UNCHANGED <<alive, parent, owner, boxed, meta, owners, exec, launch>>
  BY DEF MutateFails, RestoreFails, Mutating
<1>1. OnlyOp(r) /\ op'[r] = NoOp
  BY DoneOp, <1>t DEF MutateFails, RestoreFails, TypeOK
<1>2. /\ OpFacts(r) /\ PhaseOK(r) /\ op[r] # NoOp
      /\ o.g \in Graphs /\ o.n \in Nodes /\ RootOf(o.g) = r
  BY <1>0, OwnGraphs
<1>3. /\ o.v \in Versions \cup {None}
      /\ o.v # None => \A m \in Nodes : params[o.g][m] # o.v /\ meta[o.g][<<o.g, m>>] # o.v
  BY <1>0, <1>2 DEF PhaseOK, OpFacts
<1>4. \A x \in Graphs : refs'[x] = IF x = o.g THEN refs[x] \ {o.v} ELSE refs[x]
  BY <1>0, <1>t DEF Rollback, TypeOK
<1>5. \A x \in Graphs, m \in Nodes :
          \/ params'[x][m] = params[x][m]
          \/ x = o.g /\ m = o.n /\ params'[x][m] = o.v /\ torn' = torn \cup ({o.v} \cap Versions)
  BY <1>t, <1>2 DEF MutateFails, RestoreFails, TypeOK
<1>6. torn \subseteq torn' /\ \A x \in Graphs : x # o.g => params'[x] = params[x]
  BY <1>t, <1>2 DEF MutateFails, RestoreFails, TypeOK
<1>7. Operations'
  <2>1. Grows /\ \A x \in Graphs : RootOf(x) # r => SameGraph(x)
    BY <1>0, <1>2, <1>4, <1>6 DEF Grows, SameGraph
  <2>2. \A q \in Graphs \ {r} : Locked(q)' /\ PhaseOK(q)'
    BY <1>1, <1>2, <2>1, Others DEF IInv, OnlyOp
  <2> QED
    BY <1>1, <2>2, OverOK, OpsButOne
<1>8. Tree'
  BY <1>0, <1>t DEF Tree
<1>9. IndexFits'
  <2>1. ASSUME NEW x \in Graphs, NEW n \in Nodes, NEW m \in Nodes, n # m, meta[x][<<x, n>>] \in Versions
        PROVE  params'[x][m] # meta[x][<<x, n>>]
    <3>1. params[x][m] # meta[x][<<x, n>>]
      BY <1>t, <2>1 DEF IndexFits, Fits
    <3> QED
      BY <1>3, <1>5, <2>1, <3>1, NothingAssumption
  <2> QED
    BY <1>0, <2>1 DEF IndexFits, Fits
<1>10. Holds'
  <2>1. ASSUME NEW x \in Graphs, NEW m \in Nodes, params'[x][m] \in Versions \ torn'
        PROVE  params'[x][m] \in refs'[x]
    <3>1. params'[x][m] = params[x][m]
      BY <1>5, <2>1
    <3>2. params[x][m] \in refs[x]
      BY <1>6, <1>t, <2>1, <3>1 DEF Holds
    <3> QED
      BY <1>3, <1>4, <2>1, <3>1, <3>2, NothingAssumption
  <2>2. \A e \in Execs : exec'[e].uses \ torn' \subseteq exec'[e].holds
    BY <1>0, <1>6, <1>t DEF Holds
  <2>3. \A l \in Launches : launch'[l].uses \ torn' \subseteq launch'[l].holds
    BY <1>0, <1>6, <1>t DEF Holds
  <2> QED
    BY <2>1, <2>2, <2>3 DEF Holds
<1>11. Live'
  BY <1>0, <1>4, <1>t DEF Live, Referenced
<1>12. Fresh'
  <2>1. \A v \in Versions : Seen(v)' => Seen(v)
    BY <1>0, <1>1, <1>5, NoOpType, NothingAssumption DEF Seen, OnlyOp, NoEntries
  <2> QED
    BY <1>0, <1>t, <2>1 DEF Fresh
<1> QED
  BY <1>7, <1>8, <1>9, <1>10, <1>11, <1>12 DEF IInv

\* A fresh version is retained by the graph and known to its operation.
LEMMA PrepareKeeps ==
  ASSUME IInv, Typed', NEW g \in Graphs, NEW n \in Nodes, NEW k \in {"add", "set", "host", "destroy"},
         NEW v \in Versions \cup {None}, Prepare(g, n, k, v)
  PROVE  IInv'
<1>t. Typed /\ TypeOK /\ Tree /\ IndexFits /\ Holds /\ Live /\ Fresh
  BY DEF IInv, Typed
<1>r. PICK r \in Graphs : r = RootOf(g)
  BY <1>t DEF RootOf, TypeOK
<1>0. /\ Idle(r) /\ boxed[g]
      /\ v # None => owners[v] = "fresh"
      /\ owners' = [w \in Versions |-> IF w = v THEN "live" ELSE owners[w]]
      /\ refs' = [refs EXCEPT ![g] = @ \cup ({v} \cap Versions)]
      /\ op' = [op EXCEPT ![r] = [NewOp(k, "mutate", g, n) EXCEPT !.v = v]]
      /\ UNCHANGED <<alive, parent, owner, params, boxed, meta, exec, launch, torn>>
  BY <1>r DEF Prepare, Usable
<1>1. alive[g] # "none"
  BY <1>0, <1>t DEF Tree
<1>2. OnlyOp(r) /\ StartsNode(op'[r], k, g, n, v)
  BY <1>0, <1>t, PrepareOp, OpIs DEF TypeOK
<1>3. v # None => v \in Versions /\ ~Seen(v) /\ v \in refs'[g]
  BY <1>0, <1>t DEF Fresh, TypeOK
<1>4. Grows /\ \A x \in Graphs : SameGraph(x)
  BY <1>0, <1>t DEF Grows, SameGraph, TypeOK
<1>5. Operations'
  <2>1. \A q \in Graphs \ {r} : Locked(q)' /\ PhaseOK(q)'
    BY <1>0, <1>1, <1>2, <1>4, Others DEF IInv, OnlyOp
  <2>2. Locked(r)'
    BY <1>0, <1>1, <1>2, <1>r DEF Locked, StartsNode, RootOf
  <2>3. v # None => \A m \in Nodes : params[g][m] # v /\ meta[g][<<g, m>>] # v
    BY <1>3 DEF Seen, Key
  <2>4. PhaseOK(r)'
    BY <1>0, <1>2, <1>3, <2>3 DEF PhaseOK, Mutating, StartsNode
  <2> QED
    BY <2>1, <2>2, <2>4, OpsButOne
<1>6. Tree' /\ IndexFits'
  BY <1>0, <1>t DEF Tree, IndexFits, Fits
<1>7. Holds'
  BY <1>0, <1>t DEF Holds, TypeOK
<1>8. Live'
  BY <1>0, <1>t DEF Live, Referenced, TypeOK
<1>9. Fresh'
  <2>1. \A w \in Versions : Seen(w)' => Seen(w) \/ w = v
    BY <1>0, <1>2, NothingAssumption DEF Seen, OnlyOp, StartsNode, NoEntries
  <2> QED
    BY <1>0, <1>t, <2>1 DEF Fresh, TypeOK
<1> QED
  BY <1>5, <1>6, <1>7, <1>8, <1>9 DEF IInv

\* The CUDA call makes a node refer to the version prepared for it, which the graph retains.
LEMMA MutateKeeps ==
  ASSUME IInv, Typed', NEW r \in Graphs, Mutate(r)
  PROVE  IInv'
<1> DEFINE o == op[r]
           ds == IF o.kind = "destroy" THEN OwnedBy(o.g, o.n) ELSE {}
<1>t. Typed /\ TypeOK /\ Tree /\ IndexFits /\ Holds /\ Live /\ Fresh
  BY DEF IInv, Typed
<1>0. Mutating(r) /\ Goto(r, "publish") /\ o.ph = "mutate"
      /\ UNCHANGED <<parent, owner, boxed, meta, owners, exec, launch, torn>>
  BY DEF Mutate, Mutating
<1>1. OnlyOp(r) /\ SameWork(op'[r], o) /\ op'[r].staged = o.staged /\ op'[r].ph = "publish"
  BY <1>0, <1>t, GotoOp DEF TypeOK, Phases
<1>2. /\ OpFacts(r) /\ Locked(r) /\ PhaseOK(r) /\ op[r] # NoOp
      /\ o.g \in Graphs /\ o.n \in Nodes /\ RootOf(o.g) = r
      /\ \A x \in Graphs : parent[x] = o.g => RootOf(x) = r
  BY <1>0, OwnGraphs
<1>3. /\ o.v \in Versions \cup {None}
      /\ o.v # None =>
           /\ o.v \in refs[o.g]
           /\ \A m \in Nodes : params[o.g][m] # o.v /\ meta[o.g][<<o.g, m>>] # o.v
  BY <1>0, <1>2 DEF PhaseOK, OpFacts
<1>4. \A x \in Graphs :
        /\ alive'[x] = IF x \in ds THEN "destroyed" ELSE alive[x]
        /\ refs'[x] = IF x \in ds THEN {} ELSE refs[x]
        /\ x \in ds => params'[x] = NoNodes /\ alive[x] = "live" /\ parent[x] = o.g
        /\ x \notin ds /\ x # o.g => params'[x] = params[x]
  <2>1. CASE o.kind = "destroy"
    BY <1>t, <2>1 DEF Mutate, TypeOK, OwnedBy, Embedded
  <2>2. CASE o.kind # "destroy"
    BY <1>t, <2>2 DEF Mutate, TypeOK
  <2> QED
    BY <2>1, <2>2
<1>5. /\ o.g \notin ds => params'[o.g] = [params[o.g] EXCEPT ![o.n] = IF o.kind = "destroy" THEN Absent ELSE o.v]
      /\ \A m \in Nodes : NoNodes[m] = Absent
  <2>1. CASE o.kind = "destroy"
    BY <1>t, <1>2, <2>1 DEF Mutate, TypeOK, NoNodes
  <2>2. CASE o.kind # "destroy"
    BY <1>t, <1>2, <2>2 DEF Mutate, TypeOK, NoNodes
  <2> QED
    BY <2>1, <2>2
<1>6. \A x \in Graphs, m \in Nodes :
        \/ params'[x][m] = params[x][m] /\ (x # o.g \/ m # o.n) /\ x \notin ds
        \/ params'[x][m] = Absent
        \/ x = o.g /\ m = o.n /\ params'[x][m] = o.v /\ x \notin ds
  BY <1>2, <1>4, <1>5, <1>t DEF TypeOK
<1> HIDE DEF ds
<1>7. Operations'
  <2>1. Grows /\ \A x \in Graphs : RootOf(x) # r => SameGraph(x)
    BY <1>0, <1>2, <1>4 DEF Grows, SameGraph
  <2>2. \A q \in Graphs \ {r} : Locked(q)' /\ PhaseOK(q)'
    BY <1>1, <1>2, <2>1, Others DEF IInv, OnlyOp
  <2>3. \A x \in Graphs : RootOf(x)' = RootOf(x) /\ RootOf(x) \in Graphs
    BY <1>0, <1>t DEF RootOf, TypeOK
  <2>4. Locked(r)'
    BY <1>0, <1>1, <1>2, <1>4, <2>1, <2>3 DEF Locked, SameWork, OnlyOp, OpFacts, Mutating, Grows
  <2>5. /\ params'[o.g][o.n] \in {o.v, Absent}
        /\ o.v # None => \A m \in Nodes \ {o.n} : params'[o.g][m] # o.v
    BY <1>2, <1>3, <1>6, NothingAssumption
  <2>6. PhaseOK(r)'
    BY <1>0, <1>1, <1>2, <1>3, <2>5 DEF PhaseOK, Mutating, SameWork
  <2> QED
    BY <2>2, <2>4, <2>6, OpsButOne
<1>8. Tree'
  BY <1>0, <1>4, <1>t DEF Tree, TypeOK
<1>9. IndexFits'
  <2>1. ASSUME NEW x \in Graphs, NEW n \in Nodes, NEW m \in Nodes, n # m, meta[x][<<x, n>>] \in Versions
        PROVE  params'[x][m] # meta[x][<<x, n>>]
    <3>1. params[x][m] # meta[x][<<x, n>>]
      BY <1>t, <2>1 DEF IndexFits, Fits
    <3> QED
      BY ZenonT(60), <1>3, <1>6, <2>1, <3>1, NothingAssumption
  <2> QED
    BY <1>0, <2>1 DEF IndexFits, Fits
<1>10. Holds'
  <2>1. ASSUME NEW x \in Graphs, NEW m \in Nodes, params'[x][m] \in Versions \ torn
        PROVE  params'[x][m] \in refs'[x]
    BY <1>3, <1>4, <1>6, <1>t, <2>1, NothingAssumption DEF Holds
  <2> QED
    BY <1>0, <1>t, <2>1 DEF Holds
<1>11. Live'
  BY <1>0, <1>4, <1>t DEF Live, Referenced
<1>12. Fresh'
  <2>1. \A v \in Versions : Seen(v)' => Seen(v)
    BY <1>0, <1>1, <1>6, NothingAssumption DEF Seen, OnlyOp, SameWork
  <2> QED
    BY <1>0, <1>t, <2>1 DEF Fresh
<1> QED
  BY <1>7, <1>8, <1>9, <1>10, <1>11, <1>12 DEF IInv

\* The entry that is replaced names a version its node has already left.
LEMMA PublishKeeps ==
  ASSUME IInv, Typed', NEW r \in Graphs, Publish(r)
  PROVE  IInv'
<1> DEFINE o == op[r]
           prev == meta[o.g][<<o.g, o.n>>]
<1>t. Typed /\ TypeOK /\ Tree /\ IndexFits /\ Holds /\ Live /\ Fresh
  BY DEF IInv, Typed
<1>0. /\ o.ph = "publish"
      /\ meta' = [meta EXCEPT ![o.g][<<o.g, o.n>>] = o.v]
      /\ op' = [op EXCEPT ![r] = AfterPublish(o, prev)]
      /\ UNCHANGED <<alive, parent, owner, params, refs, boxed, owners, exec, launch, torn>>
  BY DEF Publish
<1>1. /\ OpFacts(r) /\ Locked(r) /\ PhaseOK(r) /\ op[r] # NoOp
      /\ o.g \in Graphs /\ o.n \in Nodes /\ RootOf(o.g) = r /\ alive[o.g] # "none"
      /\ <<o.g, o.n>> \in Key
  BY <1>0, OwnGraphs DEF Key
<1>2. prev \in Versions \cup {None}
  BY ZenonT(60), <1>1, <1>t DEF TypeOK
<1>3. /\ OnlyOp(r)
      /\ \/ op'[r] = NoOp
         \/ SameWork(op'[r], o) /\ op'[r].ph = "invalidate"
         \/ SameWork(op'[r], o) /\ op'[r].ph = "release" /\ op'[r].prev = prev /\ prev # None
  BY <1>0, <1>2, <1>t, AfterPublishOp DEF TypeOK
<1>4. /\ o.v \in Versions \cup {None}
      /\ params[o.g][o.n] \in {o.v, Absent}
      /\ o.v # None => prev # o.v /\ \A m \in Nodes \ {o.n} : params[o.g][m] # o.v
  BY <1>0, <1>1 DEF PhaseOK, OpFacts
<1>5. /\ \A x \in Graphs, k \in Key :
            meta'[x][k] = IF x = o.g /\ k = <<o.g, o.n>> THEN o.v ELSE meta[x][k]
      /\ \A x \in Graphs : x # o.g => meta'[x] = meta[x]
  BY <1>0, <1>1, <1>t DEF TypeOK
<1>6. ASSUME prev # None PROVE \A m \in Nodes : params[o.g][m] # prev
  <2>1. \A m \in Nodes \ {o.n} : params[o.g][m] # prev
    BY <1>1, <1>2, <1>6, <1>t DEF IndexFits, Fits
  <2>2. params[o.g][o.n] # prev
    BY <1>2, <1>4, <1>6, NothingAssumption
  <2> QED
    BY <2>1, <2>2
<1>7. Operations'
  <2>1. Grows /\ \A x \in Graphs : RootOf(x) # r => SameGraph(x)
    BY <1>0, <1>1, <1>5 DEF Grows, SameGraph
  <2>2. \A q \in Graphs \ {r} : Locked(q)' /\ PhaseOK(q)'
    BY <1>1, <1>3, <2>1, Others DEF IInv, OnlyOp
  <2>3. \A x \in Graphs : RootOf(x)' = RootOf(x) /\ RootOf(x) \in Graphs
    BY <1>0, <1>t DEF RootOf, TypeOK
  <2>4. ASSUME op'[r] # NoOp PROVE Locked(r)' /\ PhaseOK(r)'
    <3>0. SameWork(op'[r], o) /\ op'[r].ph # "commit"
      BY <1>3, <2>4
    <3>1. Locked(r)'
      <4>1. /\ UNCHANGED <<alive, parent>>
            /\ \A q \in Graphs \ {r} : op'[q] = op[q]
            /\ o.src \in Graphs \cup {None} /\ Locked(r)
            /\ o.kind \in {"embed", "swap"} => o.src \in Graphs /\ o.c \in Graphs
        BY <1>0, <1>1, <1>3 DEF OnlyOp, OpFacts
      <4> QED
        BY <1>1, <2>3, <3>0, <4>1 DEF Locked, SameWork
    <3>2. PhaseOK(r)'
      BY <1>0, <1>3, <1>6, <2>4 DEF PhaseOK, Mutating, SameWork
    <3> QED
      BY <3>1, <3>2
  <2>5. Locked(r)' /\ PhaseOK(r)'
    BY <2>4, OverOK
  <2> QED
    BY <2>2, <2>5, OpsButOne
<1>8. Tree'
  BY <1>0, <1>1, <1>5, <1>t DEF Tree
<1>9. IndexFits'
  <2>1. ASSUME NEW x \in Graphs, NEW n \in Nodes, NEW m \in Nodes, n # m, meta'[x][<<x, n>>] \in Versions
        PROVE  params[x][m] # meta'[x][<<x, n>>]
    <3>1. <<x, n>> \in Key
      BY DEF Key
    <3>2. CASE x = o.g /\ n = o.n
      BY <1>4, <1>5, <2>1, <3>1, <3>2, NothingAssumption
    <3>3. CASE ~(x = o.g /\ n = o.n)
      BY <1>5, <1>t, <2>1, <3>1, <3>3 DEF IndexFits, Fits
    <3> QED
      BY <3>2, <3>3
  <2> QED
    BY <1>0, <2>1 DEF IndexFits, Fits
<1>10. Holds' /\ Live'
  BY <1>0, <1>t DEF Holds, Live, Referenced
<1>11. Fresh'
  <2>1. op'[r].v \in {o.v, None} /\ op'[r].staged \in {o.staged, NoEntries}
    BY SMTT(30), <1>0, <1>1, <1>3, NoOpType DEF SameWork, OpFacts, AfterPublish
  <2>2. ASSUME NEW v \in Versions, Seen(v)' PROVE Seen(v)
    <3>1. ASSUME NEW x \in Graphs, NEW k \in Key, meta'[x][k] = v PROVE Seen(v)
      BY <1>5, <3>1 DEF Seen
    <3>2. ASSUME NEW q \in Graphs, op'[q].v = v PROVE Seen(v)
      BY <1>3, <2>1, <3>2, NothingAssumption DEF Seen, OnlyOp
    <3>3. ASSUME NEW q \in Graphs, NEW k \in Key, op'[q].staged[k] = v PROVE Seen(v)
      BY <1>3, <2>1, <3>3, NothingAssumption DEF Seen, OnlyOp, NoEntries
    <3>4. ASSUME NEW x \in Graphs, NEW m \in Nodes, params'[x][m] = v PROVE Seen(v)
      BY <1>0, <3>4 DEF Seen
    <3> QED
      BY <2>2, <3>1, <3>2, <3>3, <3>4 DEF Seen
  <2> QED
    BY <1>0, <1>t, <2>2 DEF Fresh
<1> QED
  BY <1>7, <1>8, <1>9, <1>10, <1>11 DEF IInv

\* The version released is used by no node of the graph.
LEMMA ReleaseKeeps ==
  ASSUME IInv, Typed', NEW r \in Graphs, ReleasePrevious(r)
  PROVE  IInv'
<1> DEFINE o == op[r]
<1>t. Typed /\ TypeOK /\ Tree /\ IndexFits /\ Holds /\ Live /\ Fresh
  BY DEF IInv, Typed
<1>0. /\ o.ph = "release"
      /\ refs' = [refs EXCEPT ![o.g] = @ \ {o.prev}]
      /\ op' = [op EXCEPT ![r] = AfterPublish(o, None)]
      /\ UNCHANGED <<alive, parent, owner, params, boxed, meta, owners, exec, launch, torn>>
  BY DEF ReleasePrevious
<1>1. /\ OpFacts(r) /\ Locked(r) /\ PhaseOK(r) /\ op[r] # NoOp
      /\ o.g \in Graphs /\ o.n \in Nodes /\ RootOf(o.g) = r /\ alive[o.g] # "none"
  BY <1>0, OwnGraphs
<1>2. /\ OnlyOp(r)
      /\ \/ op'[r] = NoOp
         \/ SameWork(op'[r], o) /\ op'[r].ph = "invalidate"
  BY <1>0, <1>t, AfterPublishOp DEF TypeOK
<1>3. \A m \in Nodes : params[o.g][m] # o.prev
  BY <1>0, <1>1 DEF PhaseOK
<1>4. \A x \in Graphs : refs'[x] = IF x = o.g THEN refs[x] \ {o.prev} ELSE refs[x]
  BY <1>0, <1>t DEF TypeOK
<1>5. Operations'
  <2>1. Grows /\ \A x \in Graphs : RootOf(x) # r => SameGraph(x)
    BY <1>0, <1>1, <1>4 DEF Grows, SameGraph
  <2>2. \A q \in Graphs \ {r} : Locked(q)' /\ PhaseOK(q)'
    BY <1>1, <1>2, <2>1, Others DEF IInv, OnlyOp
  <2>3. \A x \in Graphs : RootOf(x)' = RootOf(x) /\ RootOf(x) \in Graphs
    BY <1>0, <1>t DEF RootOf, TypeOK
  <2>4. ASSUME op'[r] # NoOp PROVE Locked(r)' /\ PhaseOK(r)'
    <3>1. Locked(r)'
      BY <1>0, <1>1, <1>2, <2>3, <2>4 DEF Locked, SameWork, OnlyOp, OpFacts
    <3>2. PhaseOK(r)'
      BY <1>2, <2>4 DEF PhaseOK, Mutating
    <3> QED
      BY <3>1, <3>2
  <2>5. Locked(r)' /\ PhaseOK(r)'
    BY <2>4, OverOK
  <2> QED
    BY <2>2, <2>5, OpsButOne
<1>6. Tree' /\ IndexFits'
  BY <1>0, <1>t DEF Tree, IndexFits, Fits
<1>7. Holds'
  BY <1>0, <1>3, <1>4, <1>t DEF Holds
<1>8. Live'
  BY <1>0, <1>4, <1>t DEF Live, Referenced
<1>9. Fresh'
  <2>1. op'[r].v \in {o.v, None} /\ op'[r].staged \in {o.staged, NoEntries}
    BY <1>0, <1>1, <1>2, NoOpType DEF SameWork, OpFacts, AfterPublish
  <2>2. \A v \in Versions : Seen(v)' => Seen(v)
    BY <1>0, <1>2, <2>1, NothingAssumption DEF Seen, OnlyOp, NoEntries
  <2> QED
    BY <1>0, <1>t, <2>2 DEF Fresh
<1> QED
  BY <1>5, <1>6, <1>7, <1>8, <1>9 DEF IInv

\* The entries of destroyed graphs go; their nodes are gone already.
LEMMA InvalidateKeeps ==
  ASSUME IInv, Typed', NEW r \in Graphs, Invalidate(r)
  PROVE  IInv'
<1> DEFINE o == op[r]
           bs == {c \in Graphs : parent[c] = o.g /\ owner[c] = o.n}
<1>t. Typed /\ TypeOK /\ Tree /\ IndexFits /\ Holds /\ Live /\ Fresh
  BY DEF IInv, Typed
<1>0. /\ o.ph = "invalidate" /\ Retire(bs) /\ Done(r)
      /\ UNCHANGED <<alive, parent, owner, params, refs, owners, exec, launch, torn>>
  BY DEF Invalidate
<1>1. op[r] # NoOp /\ \A x \in bs : RootOf(x) = r
  BY <1>0, OwnGraphs
<1>2. OnlyOp(r) /\ op'[r] = NoOp
  BY <1>0, <1>t, DoneOp DEF TypeOK
<1>3. \A x \in Graphs : /\ boxed'[x] = (boxed[x] /\ x \notin bs)
                        /\ meta'[x] = IF x \in bs THEN NoEntries ELSE meta[x]
  BY <1>0 DEF Retire
<1>4. \A k \in Key : NoEntries[k] = None
  BY DEF NoEntries
<1> HIDE DEF bs
<1>5. Operations'
  <2>1. Grows /\ \A x \in Graphs : RootOf(x) # r => SameGraph(x)
    BY <1>0, <1>1, <1>3 DEF Grows, SameGraph
  <2>2. \A q \in Graphs \ {r} : Locked(q)' /\ PhaseOK(q)'
    BY <1>1, <1>2, <2>1, Others DEF IInv, OnlyOp
  <2> QED
    BY <1>2, <2>2, OverOK, OpsButOne
<1>6. Tree'
  BY <1>0, <1>3, <1>t DEF Tree
<1>7. IndexFits'
  <2>1. \A x \in Graphs, n \in Nodes : <<x, n>> \in Key
    BY DEF Key
  <2> QED
    BY <1>0, <1>3, <1>4, <1>t, <2>1, NothingAssumption DEF IndexFits, Fits
<1>8. Holds' /\ Live'
  BY <1>0, <1>t DEF Holds, Live, Referenced
<1>9. Fresh'
  <2>1. \A v \in Versions : Seen(v)' => Seen(v)
    BY <1>0, <1>2, <1>3, <1>4, NoOpType, NothingAssumption DEF Seen, OnlyOp
  <2> QED
    BY <1>0, <1>t, <2>1 DEF Fresh
<1> QED
  BY <1>5, <1>6, <1>7, <1>8, <1>9 DEF IInv

\* What an embed, or the commit of a child update, knows of its clone.
LEMMA CloneFacts ==
  ASSUME IInv, NEW r \in Graphs, op[r].ph \in {"child", "rekey", "undo", "commit"}
  PROVE  /\ OpFacts(r) /\ Locked(r) /\ PhaseOK(r) /\ op[r] # NoOp
         /\ op[r].g \in Graphs /\ op[r].n \in Nodes /\ alive[op[r].g] # "none"
         /\ op[r].src \in Graphs /\ op[r].c \in Graphs
         /\ alive[op[r].c] # "none" /\ parent[op[r].c] = op[r].g
         /\ parent[op[r].g] = None /\ op[r].g = r
         /\ RootOf(op[r].c) = r
         /\ \A x \in Graphs : parent[x] = op[r].g => RootOf(x) = r
<1>1. op[r].ph # "idle"
  OBVIOUS
<1>2. /\ OpFacts(r) /\ Locked(r) /\ PhaseOK(r) /\ op[r] # NoOp /\ op[r].kind # "idle"
      /\ op[r].g \in Graphs /\ op[r].n \in Nodes /\ alive[op[r].g] # "none"
      /\ RootOf(op[r].g) = r
      /\ \A x \in Graphs : parent[x] = op[r].g => RootOf(x) = r
  BY <1>1, OwnGraphs
<1>3. op[r].kind \in {"embed", "swap"} /\ (op[r].kind = "embed" \/ op[r].ph = "commit")
  BY <1>2 DEF OpFacts
<1>4. /\ op[r].src \in Graphs /\ op[r].c \in Graphs
      /\ alive[op[r].c] # "none" /\ parent[op[r].c] = op[r].g /\ parent[op[r].g] = None
  BY <1>2, <1>3 DEF OpFacts, Locked
<1>5. op[r].g = r
  BY <1>2, <1>4 DEF RootOf
<1> QED
  BY <1>2, <1>4, <1>5

\* A clone shares the versions of its original and has references of its own.
LEMMA EmbedChildKeeps ==
  ASSUME IInv, Typed', NEW r \in Graphs, EmbedChild(r)
  PROVE  IInv'
<1> DEFINE o == op[r]
<1>t. Typed /\ TypeOK /\ Tree /\ IndexFits /\ Holds /\ Live /\ Fresh
  BY DEF IInv, Typed
<1>0. /\ o.kind = "embed" /\ o.ph = "child"
      /\ boxed' = [boxed EXCEPT ![o.c] = TRUE]
      /\ op' = [op EXCEPT ![r] = [o EXCEPT !.ph = "rekey", !.staged = meta[o.src]]]
      /\ UNCHANGED <<alive, parent, owner, params, refs, meta, owners, exec, launch, torn>>
  BY DEF EmbedChild
<1>1. /\ OpFacts(r) /\ Locked(r) /\ PhaseOK(r) /\ op[r] # NoOp
      /\ o.src \in Graphs /\ o.c \in Graphs /\ alive[o.c] # "none"
  BY <1>0, CloneFacts
<1>2. /\ OnlyOp(r) /\ SameWork(op'[r], o)
      /\ op'[r].staged = meta[o.src] /\ op'[r].ph = "rekey"
  BY <1>0, <1>1, <1>t, ChildOp DEF TypeOK
<1>3. Grows /\ \A x \in Graphs : SameGraph(x)
  BY <1>0 DEF Grows, SameGraph
<1>4. Operations'
  <2>1. \A q \in Graphs \ {r} : Locked(q)' /\ PhaseOK(q)'
    BY <1>1, <1>2, <1>3, Others DEF IInv, OnlyOp
  <2>2. RootOf(o.src)' = RootOf(o.src) /\ RootOf(o.src) \in Graphs /\ RootOf(o.g)' = RootOf(o.g)
    BY <1>0, <1>1, <1>t DEF RootOf, TypeOK
  <2>3. Locked(r)'
    BY <1>0, <1>1, <1>2, <2>2 DEF Locked, SameWork, OnlyOp
  <2>4. Fits(meta[o.src], o.src, o.c)
    BY <1>0, <1>1 DEF PhaseOK
  <2>5. PhaseOK(r)'
    BY <1>0, <1>2, <2>4 DEF PhaseOK, Mutating, SameWork, Fits
  <2> QED
    BY <2>1, <2>3, <2>5, OpsButOne
<1>5. Tree'
  BY <1>0, <1>1, <1>t DEF Tree, TypeOK
<1>6. IndexFits' /\ Holds' /\ Live'
  BY <1>0, <1>t DEF IndexFits, Fits, Holds, Live, Referenced
<1>7. Fresh'
  <2>1. \A v \in Versions : Seen(v)' => Seen(v)
    BY <1>0, <1>1, <1>2 DEF Seen, OnlyOp, SameWork
  <2> QED
    BY <1>0, <1>t, <2>1 DEF Fresh
<1> QED
  BY <1>4, <1>5, <1>6, <1>7 DEF IInv

\* The clone's entries are the source's, and so are its parameters.
LEMMA EmbedRekeyKeeps ==
  ASSUME IInv, Typed', NEW r \in Graphs, EmbedRekey(r)
  PROVE  IInv'
<1> DEFINE o == op[r]
<1>t. Typed /\ TypeOK /\ Tree /\ IndexFits /\ Holds /\ Live /\ Fresh
  BY DEF IInv, Typed
<1>0. /\ o.kind = "embed" /\ o.ph = "rekey"
      /\ meta' = [meta EXCEPT ![o.c] = Rekeyed(o.staged, o.src, o.c)]
      /\ Done(r)
      /\ UNCHANGED <<alive, parent, owner, params, refs, boxed, owners, exec, launch, torn>>
  BY DEF EmbedRekey
<1>1. /\ OpFacts(r) /\ PhaseOK(r) /\ op[r] # NoOp
      /\ o.src \in Graphs /\ o.c \in Graphs /\ alive[o.c] # "none" /\ RootOf(o.c) = r
  BY <1>0, CloneFacts
<1>2. OnlyOp(r) /\ op'[r] = NoOp
  BY <1>0, <1>t, DoneOp DEF TypeOK
<1>3. \A x \in Graphs : meta'[x] = IF x = o.c THEN Rekeyed(o.staged, o.src, o.c) ELSE meta[x]
  BY <1>0, <1>t DEF TypeOK
<1>4. /\ \A n \in Nodes : Rekeyed(o.staged, o.src, o.c)[<<o.c, n>>] = o.staged[<<o.src, n>>]
      /\ \A k \in Key : Rekeyed(o.staged, o.src, o.c)[k] = None
                          \/ \E n \in Nodes : Rekeyed(o.staged, o.src, o.c)[k] = o.staged[<<o.src, n>>]
  BY <1>1, RekeyedType DEF OpFacts
<1>5. Operations'
  <2>1. Grows /\ \A x \in Graphs : RootOf(x) # r => SameGraph(x)
    BY <1>0, <1>1, <1>3 DEF Grows, SameGraph
  <2>2. \A q \in Graphs \ {r} : Locked(q)' /\ PhaseOK(q)'
    BY <1>1, <1>2, <2>1, Others DEF IInv, OnlyOp
  <2> QED
    BY <1>2, <2>2, OverOK, OpsButOne
<1>6. Tree'
  BY <1>0, <1>1, <1>3, <1>t DEF Tree
<1>7. IndexFits'
  <2>1. Fits(o.staged, o.src, o.c)
    BY <1>0, <1>1 DEF PhaseOK
  <2>2. \A n \in Nodes : meta'[o.c][<<o.c, n>>] = o.staged[<<o.src, n>>]
    BY <1>1, <1>3, <1>4
  <2>3. Fits(meta'[o.c], o.c, o.c)
    BY <2>1, <2>2 DEF Fits
  <2> QED
    BY <1>0, <1>3, <1>t, <2>3 DEF IndexFits, Fits
<1>8. Holds' /\ Live'
  BY <1>0, <1>t DEF Holds, Live, Referenced
<1>9. Fresh'
  <2>1. ASSUME NEW v \in Versions, NEW k \in Key, Rekeyed(o.staged, o.src, o.c)[k] = v PROVE Seen(v)
    BY ZenonT(60), <1>1, <1>4, <2>1, NothingAssumption DEF Seen, Key
  <2>2. \A v \in Versions : Seen(v)' => Seen(v)
    BY <1>0, <1>2, <1>3, <2>1, NoOpType, NothingAssumption DEF Seen, OnlyOp, NoEntries
  <2> QED
    BY <1>0, <1>t, <2>2 DEF Fresh
<1> QED
  BY <1>5, <1>6, <1>7, <1>8, <1>9 DEF IInv

\* Destroying the clone takes its nodes and its references together.
LEMMA EmbedUndoKeeps ==
  ASSUME IInv, Typed', NEW r \in Graphs, EmbedUndo(r)
  PROVE  IInv'
<1> DEFINE o == op[r]
<1>t. Typed /\ TypeOK /\ Tree /\ IndexFits /\ Holds /\ Live /\ Fresh
  BY DEF IInv, Typed
<1>0. /\ o.ph = "undo" /\ Goto(r, "invalidate")
      /\ alive' = [alive EXCEPT ![o.c] = "destroyed"]
      /\ params' = [params EXCEPT ![o.g][o.n] = Absent, ![o.c] = NoNodes]
      /\ refs' = [refs EXCEPT ![o.c] = {}]
      /\ UNCHANGED <<parent, owner, boxed, meta, owners, exec, launch, torn>>
  BY DEF EmbedUndo
<1>1. /\ OpFacts(r) /\ Locked(r) /\ op[r] # NoOp
      /\ o.g \in Graphs /\ o.n \in Nodes /\ o.src \in Graphs /\ o.c \in Graphs
      /\ alive[o.c] # "none" /\ RootOf(o.c) = r /\ RootOf(o.g) = r
  BY <1>0, CloneFacts, OwnGraphs
<1>2. OnlyOp(r) /\ SameWork(op'[r], o) /\ op'[r].staged = o.staged /\ op'[r].ph = "invalidate"
  BY <1>0, <1>t, GotoOp DEF TypeOK, Phases
<1>u. UNCHANGED <<parent, owner, boxed, meta, owners, exec, launch, torn>>
  BY <1>0
<1>3. \A x \in Graphs :
        /\ alive'[x] = IF x = o.c THEN "destroyed" ELSE alive[x]
        /\ refs'[x] = IF x = o.c THEN {} ELSE refs[x]
        /\ x # o.c /\ x # o.g => params'[x] = params[x]
        /\ x = o.c => params'[x] = NoNodes
  BY <1>0, <1>t DEF TypeOK
<1>4. \A x \in Graphs, m \in Nodes :
        params'[x][m] = Absent \/ (params'[x][m] = params[x][m] /\ x # o.c)
  BY SMTT(30), <1>0, <1>1, <1>3, <1>t DEF TypeOK, NoNodes
<1>5. Operations'
  <2>1. Grows /\ \A x \in Graphs : RootOf(x) # r => SameGraph(x)
    BY <1>u, <1>1, <1>3 DEF Grows, SameGraph
  <2>2. \A q \in Graphs \ {r} : Locked(q)' /\ PhaseOK(q)'
    BY <1>1, <1>2, <2>1, Others DEF IInv, OnlyOp
  <2>3. RootOf(o.src)' = RootOf(o.src) /\ RootOf(o.src) \in Graphs /\ RootOf(o.g)' = RootOf(o.g)
    BY <1>u, <1>1, <1>2, <1>t DEF RootOf, TypeOK, SameWork
  <2>4. Locked(r)'
    BY <1>0, <1>1, <1>2, <1>3, <2>3 DEF Locked, SameWork, OnlyOp, OpFacts
  <2>5. PhaseOK(r)'
    BY <1>0, <1>1, <1>2 DEF PhaseOK, Mutating, SameWork, OpFacts
  <2> QED
    BY <2>2, <2>4, <2>5, OpsButOne
<1>6. Tree'
  BY <1>0, <1>1, <1>3, <1>t DEF Tree
<1>7. IndexFits'
  <2>1. ASSUME NEW x \in Graphs, NEW n \in Nodes, NEW m \in Nodes, n # m, meta[x][<<x, n>>] \in Versions
        PROVE  params'[x][m] # meta[x][<<x, n>>]
    <3>1. params[x][m] # meta[x][<<x, n>>]
      BY <1>t, <2>1 DEF IndexFits, Fits
    <3> QED
      BY <1>4, <2>1, <3>1, NothingAssumption
  <2> QED
    BY <1>0, <2>1 DEF IndexFits, Fits
<1>8. Holds'
  <2>1. ASSUME NEW x \in Graphs, NEW m \in Nodes, params'[x][m] \in Versions \ torn
        PROVE  params'[x][m] \in refs'[x]
    BY <1>3, <1>4, <1>t, <2>1, NothingAssumption DEF Holds
  <2> QED
    BY <1>0, <1>t, <2>1 DEF Holds
<1>9. Live'
  BY <1>0, <1>3, <1>t DEF Live, Referenced
<1>10. Fresh'
  <2>1. \A v \in Versions : Seen(v)' => Seen(v)
    BY <1>u, <1>2, <1>4, NothingAssumption DEF Seen, OnlyOp, SameWork
  <2> QED
    BY <1>0, <1>t, <2>1 DEF Fresh
<1> QED
  BY <1>5, <1>6, <1>7, <1>8, <1>9, <1>10 DEF IInv

\* The driver replaces an embedded graph and its references by those of the source.
LEMMA SwapMutateKeeps ==
  ASSUME IInv, Typed', NEW r \in Graphs, SwapMutate(r)
  PROVE  IInv'
<1> DEFINE o == op[r]
           old == OwnedBy(o.g, o.n)
<1>t. Typed /\ TypeOK /\ Tree /\ IndexFits /\ Holds /\ Live /\ Fresh
  BY DEF IInv, Typed
<1>0. o.kind = "swap" /\ o.ph = "mutate" /\ alive[o.c] = "none" /\ Goto(r, "commit")
  BY DEF SwapMutate
<1>u. UNCHANGED <<boxed, meta, owners, exec, launch, torn>>
  BY DEF SwapMutate
<1>1. /\ OpFacts(r) /\ Locked(r) /\ PhaseOK(r) /\ op[r] # NoOp
      /\ o.g \in Graphs /\ o.n \in Nodes /\ o.src \in Graphs /\ o.c \in Graphs
      /\ RootOf(o.g) = r /\ parent[o.g] = None
      /\ alive[o.g] # "none" /\ alive[o.src] # "none" /\ o.src # o.g
      /\ \A x \in Graphs : parent[x] = o.g => RootOf(x) = r
  BY <1>0, OwnGraphs, NothingAssumption DEF OpFacts, Locked
<1>2. OnlyOp(r) /\ SameWork(op'[r], o) /\ op'[r].staged = o.staged /\ op'[r].ph = "commit"
  BY <1>0, <1>t, GotoOp DEF TypeOK, Phases
<1>3. \A x \in Graphs :
        /\ alive'[x] = IF x = o.c THEN "live" ELSE IF x \in old THEN "destroyed" ELSE alive[x]
        /\ refs'[x] = IF x = o.c THEN refs[o.src] ELSE IF x \in old THEN {} ELSE refs[x]
        /\ params'[x] = IF x = o.c THEN params[o.src] ELSE IF x \in old THEN NoNodes ELSE params[x]
        /\ parent'[x] = IF x = o.c THEN o.g ELSE parent[x]
        /\ x \in old => alive[x] = "live" /\ parent[x] = o.g
  BY <1>1, <1>t DEF SwapMutate, DriverClone, TypeOK, OwnedBy, Embedded
<1>4. \A m \in Nodes : NoNodes[m] = Absent
  BY DEF NoNodes
<1>5. o.c # o.g /\ o.c # o.src /\ \A x \in Graphs : parent[x] # o.c
  BY <1>0, <1>1, <1>t, NothingAssumption DEF Tree
<1> HIDE DEF old
<1>6. \A x \in Graphs, m \in Nodes :
        \/ x = o.c /\ params'[x][m] = params[o.src][m]
        \/ x # o.c /\ params'[x][m] = params[x][m] /\ x \notin old
        \/ params'[x][m] = Absent
  BY <1>3, <1>4
<1>7. Grows /\ \A x \in Graphs : alive[x] # "none" /\ RootOf(x) # r => SameGraph(x)
  BY <1>0, <1>1, <1>3, <1>u DEF Grows, SameGraph
<1>8. Operations'
  <2>1. \A q \in Graphs \ {r} : Locked(q)' /\ PhaseOK(q)'
    BY <1>1, <1>2, <1>7, Others DEF IInv, OnlyOp
  <2>2. \A x \in {o.g, o.src} : parent'[x] = parent[x] /\ alive'[x] # "none"
    BY <1>1, <1>3, <1>5
  <2>3. op'[r].src = o.src /\ op'[r].g = o.g /\ op'[r].c = o.c /\ op'[r].kind = "swap" /\ op'[r].v = o.v
    BY <1>0, <1>2 DEF SameWork
  <2>4. Locked(r)'
    <3>1. RootOf(o.src) \in Graphs
      BY <1>1, <1>t DEF RootOf, TypeOK
    <3>2. (IF parent'[o.src] = None THEN o.src ELSE parent'[o.src]) = RootOf(o.src)
      BY <2>2 DEF RootOf
    <3>3. RootOf(o.src) = r \/ op'[RootOf(o.src)] = NoOp
      BY <1>1, <1>2, <3>1, NothingAssumption DEF Locked, OnlyOp
    <3>4. (IF parent'[o.g] = None THEN o.g ELSE parent'[o.g]) = r
      BY <1>1, <2>2 DEF RootOf
    <3> QED
      BY <1>1, <1>2, <1>3, <2>2, <2>3, <3>2, <3>3, <3>4 DEF Locked, RootOf
  <2>5. Fits(o.staged, o.src, o.src)
    BY <1>0, <1>1 DEF PhaseOK
  <2>6. \A n, m \in Nodes : n # m /\ o.staged[<<o.src, n>>] \in Versions =>
            params'[o.c][m] # o.staged[<<o.src, n>>]
    BY <1>1, <1>3, <2>5 DEF Fits
  <2>7. PhaseOK(r)'
    BY <1>2, <2>3, <2>6 DEF PhaseOK, Mutating, Fits
  <2> QED
    BY <2>1, <2>4, <2>7, OpsButOne
<1>9. Tree'
  <2>1. ASSUME NEW x \in Graphs, alive'[x] = "none"
        PROVE  parent'[x] = None /\ meta'[x] = NoEntries /\ ~boxed'[x]
    BY <1>3, <1>u, <1>t, <2>1 DEF Tree
  <2>2. ASSUME NEW x \in Graphs, parent'[x] # None
        PROVE  parent'[parent'[x]] = None /\ alive'[parent'[x]] # "none"
    <3>1. CASE x = o.c
      BY <1>1, <1>3, <1>5, <3>1
    <3>2. CASE x # o.c
      <4>1. parent'[x] = parent[x] /\ parent[x] \in Graphs /\ parent[x] # o.c
        BY <1>3, <1>5, <1>t, <2>2, <3>2 DEF TypeOK
      <4> QED
        BY <1>3, <1>t, <2>2, <4>1 DEF Tree
    <3> QED
      BY <3>1, <3>2
  <2> QED
    BY <2>1, <2>2 DEF Tree
<1>10. IndexFits'
  <2>1. ASSUME NEW x \in Graphs, NEW n \in Nodes, NEW m \in Nodes, n # m, meta[x][<<x, n>>] \in Versions
        PROVE  params'[x][m] # meta[x][<<x, n>>]
    <3>1. params[x][m] # meta[x][<<x, n>>]
      BY <1>t, <2>1 DEF IndexFits, Fits
    <3>2. x # o.c
      <4>1. NoEntries[<<x, n>>] = None
        BY DEF NoEntries, Key
      <4> QED
        BY <1>0, <1>1, <1>t, <2>1, <4>1, NothingAssumption DEF Tree
    <3> QED
      BY <1>6, <2>1, <3>1, <3>2, NothingAssumption
  <2> QED
    BY <1>u, <2>1 DEF IndexFits, Fits
<1>11. Holds'
  <2>1. ASSUME NEW x \in Graphs, NEW m \in Nodes, params'[x][m] \in Versions \ torn
        PROVE  params'[x][m] \in refs'[x]
    BY <1>1, <1>3, <1>6, <1>t, <2>1, NothingAssumption DEF Holds
  <2> QED
    BY <1>u, <1>t, <2>1 DEF Holds
<1>12. Live'
  <2>1. \A v \in Versions : Referenced(v)' => Referenced(v)
    BY <1>1, <1>3, <1>u DEF Referenced
  <2> QED
    BY <1>u, <1>t, <2>1 DEF Live
<1>13. Fresh'
  <2>1. \A v \in Versions : Seen(v)' => Seen(v)
    BY <1>1, <1>u, <1>2, <1>6, NothingAssumption DEF Seen, OnlyOp, SameWork
  <2> QED
    BY <1>u, <1>t, <2>1 DEF Fresh
<1> QED
  BY <1>8, <1>9, <1>10, <1>11, <1>12, <1>13 DEF IInv

\* The entries staged before the update fit the graph that CUDA put in place.
LEMMA SwapCommitKeeps ==
  ASSUME IInv, Typed', NEW r \in Graphs, SwapCommit(r)
  PROVE  IInv'
<1> DEFINE o == op[r]
           old == {x \in Graphs : parent[x] = o.g /\ owner[x] = o.n} \ {o.c}
<1>t. Typed /\ TypeOK /\ Tree /\ IndexFits /\ Holds /\ Live /\ Fresh
  BY DEF IInv, Typed
<1>0. o.ph = "commit" /\ Done(r)
  BY DEF SwapCommit
<1>u. UNCHANGED <<alive, parent, owner, params, refs, owners, exec, launch, torn>>
  BY DEF SwapCommit
<1>1. /\ OpFacts(r) /\ PhaseOK(r) /\ op[r] # NoOp
      /\ o.src \in Graphs /\ o.c \in Graphs /\ alive[o.c] # "none" /\ RootOf(o.c) = r
      /\ \A x \in old : x \in Graphs /\ RootOf(x) = r
  BY <1>0, CloneFacts
<1>2. OnlyOp(r) /\ op'[r] = NoOp
  BY <1>0, <1>t, DoneOp DEF TypeOK
<1>3. PICK found \in BOOLEAN :
        \A x \in Graphs :
          /\ boxed'[x] = IF x = o.c THEN found ELSE boxed[x] /\ x \notin old
          /\ meta'[x] = IF x = o.c /\ found THEN Rekeyed(o.staged, o.src, o.c)
                        ELSE IF x \in old THEN NoEntries ELSE meta[x]
  BY ZenonT(60) DEF SwapCommit
<1>4. /\ \A n \in Nodes : Rekeyed(o.staged, o.src, o.c)[<<o.c, n>>] = o.staged[<<o.src, n>>]
      /\ \A k \in Key : Rekeyed(o.staged, o.src, o.c)[k] = None
                          \/ \E n \in Nodes : Rekeyed(o.staged, o.src, o.c)[k] = o.staged[<<o.src, n>>]
      /\ \A k \in Key : NoEntries[k] = None
  BY <1>1, RekeyedType DEF OpFacts, NoEntries
<1> HIDE DEF old
<1>5. Operations'
  <2>1. Grows /\ \A x \in Graphs : RootOf(x) # r => SameGraph(x)
    BY <1>u, <1>1, <1>3 DEF Grows, SameGraph
  <2>2. \A q \in Graphs \ {r} : Locked(q)' /\ PhaseOK(q)'
    BY <1>1, <1>2, <2>1, Others DEF IInv, OnlyOp
  <2> QED
    BY <1>2, <2>2, OverOK, OpsButOne
<1>6. Tree'
  BY <1>u, <1>1, <1>3, <1>t DEF Tree
<1>7. IndexFits'
  <2>1. Fits(o.staged, o.src, o.c)
    BY <1>0, <1>1 DEF PhaseOK
  <2>2. \A x \in Graphs, n \in Nodes :
            \/ meta'[x][<<x, n>>] = meta[x][<<x, n>>]
            \/ meta'[x][<<x, n>>] = None
            \/ x = o.c /\ meta'[x][<<x, n>>] = o.staged[<<o.src, n>>]
    BY <1>3, <1>4 DEF Key
  <2>3. ASSUME NEW x \in Graphs, NEW n \in Nodes, NEW m \in Nodes, n # m, meta'[x][<<x, n>>] \in Versions
        PROVE  params[x][m] # meta'[x][<<x, n>>]
    <3>1. meta[x][<<x, n>>] \in Versions => params[x][m] # meta[x][<<x, n>>]
      BY <1>t, <2>3 DEF IndexFits, Fits
    <3>2. o.staged[<<o.src, n>>] \in Versions => params[o.c][m] # o.staged[<<o.src, n>>]
      BY <2>1, <2>3 DEF Fits
    <3> QED
      BY <2>2, <2>3, <3>1, <3>2, NothingAssumption
  <2> QED
    BY <1>u, <2>3 DEF IndexFits, Fits
<1>8. Holds' /\ Live'
  BY <1>u, <1>t DEF Holds, Live, Referenced
<1>9. Fresh'
  <2>1. ASSUME NEW v \in Versions, NEW k \in Key, Rekeyed(o.staged, o.src, o.c)[k] = v PROVE Seen(v)
    <3>1. PICK n \in Nodes : v = o.staged[<<o.src, n>>]
      BY <1>4, <2>1, NothingAssumption
    <3>2. <<o.src, n>> \in Key
      BY <1>1 DEF Key
    <3> QED
      BY <3>1, <3>2 DEF Seen
  <2>2. ASSUME NEW v \in Versions, NEW x \in Graphs, NEW k \in Key, meta'[x][k] = v PROVE Seen(v)
    BY <1>3, <1>4, <2>1, <2>2, NothingAssumption DEF Seen
  <2>3. \A v \in Versions : Seen(v)' => Seen(v)
    BY <1>u, <1>2, <1>4, <2>2, NoOpType, NothingAssumption DEF Seen, OnlyOp
  <2> QED
    BY <1>u, <1>t, <2>3 DEF Fresh
<1> QED
  BY <1>5, <1>6, <1>7, <1>8, <1>9 DEF IInv

\* A graph that can be cloned exists and is idle, and so is the one it goes to.
LEMMA EmbeddableFacts ==
  ASSUME IInv, NEW g \in Graphs, NEW src \in Graphs, NEW c \in Graphs, Embeddable(src, g, c)
  PROVE  /\ Idle(g) /\ RootOf(g) = g /\ parent[g] = None /\ alive[g] # "none"
         /\ RootOf(src) \in Graphs /\ op[RootOf(src)] = NoOp /\ alive[src] # "none" /\ src # g
         /\ alive[c] = "none" /\ c # g /\ c # src
         /\ \A x \in Graphs : parent[x] # c
         /\ \A k \in Key : meta[c][k] = None
<1>1. /\ Idle(RootOf(g)) /\ boxed[g] /\ Idle(RootOf(src)) /\ boxed[src]
      /\ src # g /\ parent[g] = None /\ alive[c] = "none"
  BY DEF Embeddable, Usable
<1>2. RootOf(g) = g /\ RootOf(src) \in Graphs
  BY <1>1 DEF RootOf, IInv, Typed, TypeOK
<1>3. op[RootOf(src)] = NoOp
  BY <1>1, <1>2, OpFactsHold DEF Idle, OpFacts, IInv
<1>4. alive[g] # "none" /\ alive[src] # "none" /\ meta[c] = NoEntries
  BY <1>1 DEF IInv, Tree
<1>5. \A x \in Graphs : parent[x] # c
  BY <1>1, NothingAssumption DEF IInv, Tree
<1> QED
  BY <1>1, <1>2, <1>3, <1>4, <1>5 DEF NoEntries

\* The source's entries fit the source while nobody works on it.
LEMMA SwapPrepareKeeps ==
  ASSUME IInv, Typed', NEW g \in Graphs, NEW src \in Graphs, NEW c \in Graphs, NEW n \in Nodes,
         SwapPrepare(g, n, src, c)
  PROVE  IInv'
<1>t. Typed /\ TypeOK /\ Tree /\ IndexFits /\ Holds /\ Live /\ Fresh
  BY DEF IInv, Typed
<1>u. UNCHANGED <<alive, parent, owner, params, refs, boxed, meta, owners, exec, launch, torn>>
  BY DEF SwapPrepare
<1>1. OnlyOp(g) /\ StartsClone(op'[g], "swap", "mutate", g, n, src, c, meta[src])
  BY <1>t, SwapOp, OpIs DEF SwapPrepare, TypeOK
<1>2. /\ Idle(g) /\ RootOf(g) = g /\ parent[g] = None /\ alive[g] # "none"
      /\ RootOf(src) \in Graphs /\ op[RootOf(src)] = NoOp /\ alive[src] # "none" /\ src # g
      /\ RootOf(src) # g
  BY EmbeddableFacts DEF SwapPrepare
<1>3. Operations'
  <2>1. Grows /\ \A x \in Graphs : SameGraph(x)
    BY <1>u DEF Grows, SameGraph
  <2>2. \A q \in Graphs \ {g} : Locked(q)' /\ PhaseOK(q)'
    BY <1>1, <1>2, <2>1, Others DEF IInv, OnlyOp
  <2>3. Locked(g)'
    BY <1>1, <1>2, <1>u DEF Locked, StartsClone, OnlyOp, RootOf
  <2>4. Fits(meta[src], src, src)
    BY <1>t DEF IndexFits
  <2>5. PhaseOK(g)'
    BY <1>1, <1>u, <2>4 DEF PhaseOK, Mutating, StartsClone, Fits
  <2> QED
    BY <2>2, <2>3, <2>5, OpsButOne
<1>4. Tree' /\ IndexFits' /\ Holds' /\ Live'
  BY <1>u, <1>t DEF Tree, IndexFits, Fits, Holds, Live, Referenced
<1>5. Fresh'
  <2>1. \A v \in Versions : Seen(v)' => Seen(v)
    BY <1>u, <1>1, NothingAssumption DEF Seen, OnlyOp, StartsClone
  <2> QED
    BY <1>u, <1>t, <2>1 DEF Fresh
<1> QED
  BY <1>3, <1>4, <1>5 DEF IInv

\* The clone takes over references together with parameters.
LEMMA EmbedAddKeeps ==
  ASSUME IInv, Typed', NEW g \in Graphs, NEW src \in Graphs, NEW c \in Graphs, NEW n \in Nodes,
         EmbedAdd(g, n, src, c)
  PROVE  IInv'
<1>t. Typed /\ TypeOK /\ Tree /\ IndexFits /\ Holds /\ Live /\ Fresh
  BY DEF IInv, Typed
<1>u. UNCHANGED <<boxed, meta, owners, exec, launch, torn>>
  BY DEF EmbedAdd
<1>1. OnlyOp(g) /\ StartsClone(op'[g], "embed", "child", g, n, src, c, NoEntries)
  BY <1>t, EmbedOp, OpIs DEF EmbedAdd, TypeOK
<1>2. /\ Idle(g) /\ RootOf(g) = g /\ parent[g] = None /\ alive[g] # "none"
      /\ RootOf(src) \in Graphs /\ op[RootOf(src)] = NoOp /\ alive[src] # "none" /\ src # g
      /\ alive[c] = "none" /\ c # g /\ c # src
      /\ \A x \in Graphs : parent[x] # c
      /\ \A k \in Key : meta[c][k] = None
  BY EmbeddableFacts DEF EmbedAdd
<1>3. \A x \in Graphs :
        /\ alive'[x] = IF x = c THEN "live" ELSE alive[x]
        /\ refs'[x] = IF x = c THEN refs[src] ELSE refs[x]
        /\ parent'[x] = IF x = c THEN g ELSE parent[x]
        /\ x = c => params'[x] = params[src]
        /\ x # c /\ x # g => params'[x] = params[x]
  BY <1>t, <1>2 DEF EmbedAdd, DriverClone, TypeOK
<1>4. \A x \in Graphs, m \in Nodes :
        \/ x = c /\ params'[x][m] = params[src][m]
        \/ x # c /\ params'[x][m] = params[x][m]
        \/ params'[x][m] = None
  BY <1>t, <1>2 DEF EmbedAdd, TypeOK
<1>5. Operations'
  <2>1. Grows /\ \A x \in Graphs : alive[x] # "none" /\ RootOf(x) # g => SameGraph(x)
    BY <1>2, <1>3, <1>u DEF Grows, SameGraph
  <2>2. \A q \in Graphs \ {g} : Locked(q)' /\ PhaseOK(q)'
    BY <1>1, <1>2, <2>1, Others DEF IInv, OnlyOp
  <2>3. Locked(g)'
    <3>1. (IF parent'[src] = None THEN src ELSE parent'[src]) = RootOf(src)
      BY <1>2, <1>3 DEF RootOf
    <3>2. RootOf(src) = g \/ op'[RootOf(src)] = NoOp
      BY <1>1, <1>2 DEF OnlyOp
    <3> QED
      BY <1>1, <1>2, <1>3, <3>1, <3>2 DEF Locked, StartsClone, RootOf
  <2>4. Fits(meta[src], src, src)
    BY <1>t DEF IndexFits
  <2>5. \A i, m \in Nodes : i # m /\ meta'[src][<<src, i>>] \in Versions =>
            params'[c][m] # meta'[src][<<src, i>>]
    BY <1>3, <1>u, <2>4 DEF Fits
  <2>6. PhaseOK(g)'
    BY <1>1, <2>5 DEF PhaseOK, Mutating, StartsClone, Fits
  <2> QED
    BY <2>2, <2>3, <2>6, OpsButOne
<1>6. Tree'
  <2>1. ASSUME NEW x \in Graphs, alive'[x] = "none"
        PROVE  parent'[x] = None /\ meta'[x] = NoEntries /\ ~boxed'[x]
    BY <1>3, <1>u, <1>t, <2>1 DEF Tree
  <2>2. ASSUME NEW x \in Graphs, parent'[x] # None
        PROVE  parent'[parent'[x]] = None /\ alive'[parent'[x]] # "none"
    <3>1. CASE x = c
      BY <1>2, <1>3, <3>1
    <3>2. CASE x # c
      <4>1. parent'[x] = parent[x] /\ parent[x] \in Graphs /\ parent[x] # c
        BY <1>2, <1>3, <1>t, <2>2, <3>2 DEF TypeOK
      <4> QED
        BY <1>3, <1>t, <2>2, <4>1 DEF Tree
    <3> QED
      BY <3>1, <3>2
  <2> QED
    BY <2>1, <2>2 DEF Tree
<1>7. IndexFits'
  <2>1. ASSUME NEW x \in Graphs, NEW i \in Nodes, NEW m \in Nodes, i # m, meta[x][<<x, i>>] \in Versions
        PROVE  params'[x][m] # meta[x][<<x, i>>]
    <3>1. params[x][m] # meta[x][<<x, i>>]
      BY <1>t, <2>1 DEF IndexFits, Fits
    <3>2. x # c
      BY <1>2, <2>1, NothingAssumption DEF Key
    <3> QED
      BY <1>4, <2>1, <3>1, <3>2, NothingAssumption
  <2> QED
    BY <1>u, <2>1 DEF IndexFits, Fits
<1>8. Holds'
  <2>1. ASSUME NEW x \in Graphs, NEW m \in Nodes, params'[x][m] \in Versions \ torn
        PROVE  params'[x][m] \in refs'[x]
    BY <1>3, <1>4, <1>t, <2>1, NothingAssumption DEF Holds
  <2> QED
    BY <1>u, <1>t, <2>1 DEF Holds
<1>9. Live'
  <2>1. \A v \in Versions : Referenced(v)' => Referenced(v)
    BY <1>3, <1>u DEF Referenced
  <2> QED
    BY <1>u, <1>t, <2>1 DEF Live
<1>10. Fresh'
  <2>1. \A v \in Versions : Seen(v)' => Seen(v)
    BY <1>u, <1>1, <1>4, NothingAssumption DEF Seen, OnlyOp, StartsClone, NoEntries
  <2> QED
    BY <1>u, <1>t, <2>1 DEF Fresh
<1> QED
  BY <1>5, <1>6, <1>7, <1>8, <1>9, <1>10 DEF IInv

\* A destroyed hierarchy uses nothing and gives up every reference.
LEMMA CloseKeeps ==
  ASSUME IInv, Typed', NEW r \in Graphs, CloseGraph(r)
  PROVE  IInv'
<1> DEFINE ds == {r} \cup Embedded(r)
<1>t. Typed /\ TypeOK /\ Tree /\ IndexFits /\ Holds /\ Live /\ Fresh
  BY DEF IInv, Typed
<1>u. UNCHANGED <<parent, owner, owners, exec, launch, op, torn>>
  BY DEF CloseGraph
<1>1. boxed[r] /\ parent[r] = None /\ Idle(r) /\ DriverDestroy(ds) /\ Retire(ds)
  BY DEF CloseGraph
<1>2. \A x \in ds : x \in Graphs /\ RootOf(x) = r /\ alive[x] # "none"
  BY <1>1, <1>t, NothingAssumption DEF Embedded, RootOf, Tree
<1>3. \A x \in Graphs :
        /\ alive'[x] = IF x \in ds THEN "destroyed" ELSE alive[x]
        /\ params'[x] = IF x \in ds THEN NoNodes ELSE params[x]
        /\ refs'[x] = IF x \in ds THEN {} ELSE refs[x]
        /\ boxed'[x] = (boxed[x] /\ x \notin ds)
        /\ meta'[x] = IF x \in ds THEN NoEntries ELSE meta[x]
  BY <1>1 DEF DriverDestroy, Retire
<1>4. (\A m \in Nodes : NoNodes[m] = Absent) /\ (\A k \in Key : NoEntries[k] = None)
  BY DEF NoNodes, NoEntries
<1> HIDE DEF ds
<1>5. Operations'
  <2>1. Grows /\ \A x \in Graphs : RootOf(x) # r => SameGraph(x)
    BY <1>2, <1>3, <1>u DEF Grows, SameGraph
  <2>2. \A q \in Graphs \ {r} : Locked(q)' /\ PhaseOK(q)'
    BY <1>1, <1>u, <2>1, Others DEF IInv
  <2>3. op'[r] = NoOp
    BY <1>1, <1>u, <1>t, OpFactsHold DEF Idle, OpFacts
  <2> QED
    BY <2>2, <2>3, OverOK, OpsButOne
<1>6. Tree'
  BY <1>3, <1>u, <1>t DEF Tree, TypeOK
<1>7. IndexFits'
  <2>1. \A x \in Graphs, i \in Nodes : <<x, i>> \in Key
    BY DEF Key
  <2> QED
    BY <1>3, <1>4, <1>t, <2>1, NothingAssumption DEF IndexFits, Fits
<1>8. Holds'
  BY <1>3, <1>4, <1>u, <1>t, NothingAssumption DEF Holds
<1>9. Live'
  BY <1>3, <1>u, <1>t DEF Live, Referenced
<1>10. Fresh'
  <2>1. \A v \in Versions : Seen(v)' => Seen(v)
    BY <1>3, <1>4, <1>u, NothingAssumption DEF Seen
  <2> QED
    BY <1>u, <1>t, <2>1 DEF Fresh
<1> QED
  BY <1>5, <1>6, <1>7, <1>8, <1>9, <1>10 DEF IInv

-----------------------------------------------------------------------------
\* No graph exists at first.
LEMMA InvInit == Init => IInv
<1> SUFFICES ASSUME Init PROVE IInv
  OBVIOUS
<1>1. /\ \A g \in Graphs : /\ alive[g] = "none" /\ parent[g] = None /\ meta[g] = NoEntries
                           /\ ~boxed[g] /\ params[g] = NoNodes /\ refs[g] = {} /\ op[g] = NoOp
      /\ \A v \in Versions : owners[v] = "fresh"
      /\ \A e \in Execs : exec[e] = Gone
      /\ \A l \in Launches : launch[l] = Gone
      /\ torn = {}
  BY DEF Init
<1>2. /\ \A m \in Nodes : NoNodes[m] = Absent
      /\ \A k \in Key : NoEntries[k] = None
      /\ Gone.uses = {} /\ Gone.holds = {}
  BY DEF NoNodes, NoEntries, Gone
<1>3. Typed
  BY TypeInit
<1>4. Tree
  BY <1>1 DEF Tree
<1>5. Operations
  BY <1>1, NoOpType DEF Operations, Locked, PhaseOK, Mutating
<1>6. IndexFits
  <2>1. \A x \in Graphs, n \in Nodes : meta[x][<<x, n>>] = None
    BY <1>1, <1>2 DEF Key
  <2> QED
    BY <2>1, NothingAssumption DEF IndexFits, Fits
<1>7. Holds /\ Live
  BY <1>1, <1>2, NothingAssumption DEF Holds, Live, Referenced
<1>8. Fresh
  BY <1>1, <1>2, NoOpType, NothingAssumption DEF Fresh, Seen
<1> QED
  BY <1>3, <1>4, <1>5, <1>6, <1>7, <1>8 DEF IInv

\* Every action keeps the invariant, by the lemmas above.
LEMMA InvNext == IInv /\ [Next]_vars => IInv'
<1> SUFFICES ASSUME IInv, [Next]_vars PROVE IInv'
  OBVIOUS
<1>t. Typed'
  BY TypeNext DEF IInv
<1>1. ASSUME NEW g \in Graphs, CreateGraph(g) \/ CloseGraph(g) \/ DiscoverChild(g) PROVE IInv'
  BY <1>1, <1>t, CreateKeeps, CloseKeeps, DiscoverKeeps
<1>2. ASSUME NEW r \in Graphs, Continue(r) PROVE IInv'
  BY <1>2, <1>t, MutateKeeps, MutateFailsKeeps, PublishKeeps, EndsKeep, ReleaseKeeps, InvalidateKeeps,
     EmbedChildKeeps, EmbedRekeyKeeps, EmbedFailsKeeps, EmbedUndoKeeps,
     SwapMutateKeeps, SwapCommitKeeps
  DEF Continue
<1>3. ASSUME NEW g \in Graphs, NEW n \in Nodes, StartNode(g, n) PROVE IInv'
  BY <1>3, <1>t, PrepareKeeps, FailuresKeep DEF StartNode
<1>4. ASSUME NEW g \in Graphs, NEW src \in Graphs, NEW c \in Graphs, NEW n \in Nodes,
             EmbedAdd(g, n, src, c) \/ SwapPrepare(g, n, src, c)
      PROVE  IInv'
  BY <1>4, <1>t, EmbedAddKeeps, SwapPrepareKeeps
<1>5. ASSUME NEW g \in Graphs, NEW e \in Execs, Instantiate(g, e) \/ ExecUpdate(g, e) PROVE IInv'
  BY <1>5, <1>t, ConsumersKeep
<1>6. ASSUME NEW e \in Execs, NEW l \in Launches, ExecDestroy(e) \/ Launch(e, l) \/ Complete(l) PROVE IInv'
  BY <1>6, <1>t, ConsumersKeep
<1>7. CASE Drain \/ \E v \in Versions : EnqueueCleanup(v)
  BY <1>7, <1>t, ReclaimKeeps
<1>8. CASE UNCHANGED vars
  <2>1. Operations' /\ IndexFits' /\ Fresh'
    BY <1>8, Quiet DEF vars, IInv
  <2>2. Tree' /\ Holds' /\ Live'
    BY <1>8 DEF vars, IInv, Tree, Holds, Live, Referenced
  <2> QED
    BY <1>t, <2>1, <2>2 DEF IInv
<1> QED
  BY <1>1, <1>2, <1>3, <1>4, <1>5, <1>6, <1>7, <1>8 DEF Next

\* The inductive invariant holds in every reachable state.
LEMMA InvAlways == Spec => []IInv
  BY InvInit, InvNext, PTL DEF Spec

\* What is used and not torn out is retained, and what is retained is alive.
LEMMA UsedIsAlive == IInv => OthersAlive
<1> SUFFICES ASSUME IInv, NEW v \in Versions \ torn, Used(v) PROVE owners[v] = "live"
  BY DEF OthersAlive
<1>1. Referenced(v)
  BY DEF IInv, Holds, Used, Referenced, VersionsOf
<1> QED
  BY <1>1 DEF IInv, Live

\* GRAPH_ATTACHMENTS.md: the resources of a version stay alive until every
\* graph, executable and launch that uses it is done with it; the exception is
\* a version that RestoreFails rolled back although the driver had taken it.
THEOREM ResourcesAlive == Spec => []OthersAlive
  BY InvAlways, UsedIsAlive, PTL

-----------------------------------------------------------------------------
(* The version torn out of a graph is the only exception, and without it    *)
(* GraphAttachments implements ParameterLifetime.                          *)

\* Only a failing restoration of a context tears a version out of a graph.
LEMMA TornByRestore == [Next]_vars => torn' = torn \/ "restore" \in Faults
<1> SUFFICES ASSUME [Next]_vars PROVE torn' = torn \/ "restore" \in Faults
  OBVIOUS
<1>1. ASSUME NEW g \in Graphs, CreateGraph(g) \/ CloseGraph(g) \/ DiscoverChild(g) PROVE torn' = torn
  BY <1>1 DEF CreateGraph, CloseGraph, DiscoverChild
<1>2. ASSUME NEW r \in Graphs, Continue(r) PROVE torn' = torn \/ "restore" \in Faults
  BY <1>2 DEF Continue, Mutate, MutateFails, RestoreFails, Publish, TailFails, ReleasePrevious, Invalidate,
     EmbedChild, EmbedRekey, EmbedFails, EmbedUndo, UndoFails, SwapMutate, SwapRejected, SwapCommit
<1>3. ASSUME NEW g \in Graphs, NEW n \in Nodes, StartNode(g, n) PROVE torn' = torn
  BY <1>3 DEF StartNode, Prepare, CreateFails, RetainFails
<1>4. ASSUME NEW g, NEW src, NEW c, NEW n, EmbedAdd(g, n, src, c) \/ SwapPrepare(g, n, src, c)
      PROVE  torn' = torn
  BY <1>4 DEF EmbedAdd, SwapPrepare
<1>5. ASSUME NEW g, NEW e, NEW l, NEW v,
             \/ Instantiate(g, e) \/ ExecUpdate(g, e) \/ ExecDestroy(e) \/ Launch(e, l) \/ Complete(l)
             \/ EnqueueCleanup(v) \/ Drain \/ UNCHANGED vars
      PROVE  torn' = torn
  BY <1>5 DEF Instantiate, ExecUpdate, ExecDestroy, Launch, Complete, EnqueueCleanup, Drain, vars
<1> QED
  BY <1>1, <1>2, <1>3, <1>4, <1>5 DEF Next

\* Where the caller's context can always be restored, every version in use is
\* alive, without exception.
THEOREM ResourcesAliveIfRestored ==
  ASSUME "restore" \notin Faults PROVE Spec => []ParametersAlive
<1>1. Init => torn = {}
  BY DEF Init
<1>2. torn = {} /\ [Next]_vars => (torn = {})'
  BY TornByRestore
<1>3. OthersAlive /\ torn = {} => ParametersAlive
  BY DEF OthersAlive, ParametersAlive
<1> QED
  BY <1>1, <1>2, <1>3, ResourcesAlive, PTL DEF Spec

\* A step changes the consumers or the resources, never both.
LEMMA OneOrTheOther ==
  ASSUME TypeOK, [Next]_vars
  PROVE  \/ UNCHANGED owners
         \/ /\ UNCHANGED <<params, exec, launch, torn>>
            /\ \A v \in Versions : owners[v] = "released" => owners'[v] = "released"
<1>1. ASSUME NEW g \in Graphs, CreateGraph(g) \/ CloseGraph(g) \/ DiscoverChild(g) PROVE UNCHANGED owners
  BY <1>1 DEF CreateGraph, CloseGraph, DiscoverChild
<1>2. ASSUME NEW r \in Graphs, Continue(r) PROVE UNCHANGED owners
  BY <1>2 DEF Continue, Mutate, MutateFails, RestoreFails, Publish, TailFails, ReleasePrevious, Invalidate,
     EmbedChild, EmbedRekey, EmbedFails, EmbedUndo, UndoFails, SwapMutate, SwapRejected, SwapCommit
<1>3. ASSUME NEW g \in Graphs, NEW n \in Nodes, StartNode(g, n)
      PROVE  /\ UNCHANGED <<params, exec, launch, torn>>
             /\ \A v \in Versions : owners[v] = "released" => owners'[v] = "released"
  BY <1>3, NothingAssumption DEF StartNode, Prepare, CreateFails, RetainFails, TypeOK
<1>4. ASSUME NEW g, NEW src, NEW c, NEW n, EmbedAdd(g, n, src, c) \/ SwapPrepare(g, n, src, c)
      PROVE  UNCHANGED owners
  BY <1>4 DEF EmbedAdd, SwapPrepare
<1>5. ASSUME NEW g, NEW e, NEW l,
             \/ Instantiate(g, e) \/ ExecUpdate(g, e) \/ ExecDestroy(e) \/ Launch(e, l) \/ Complete(l)
             \/ UNCHANGED vars
      PROVE  UNCHANGED owners
  BY <1>5 DEF Instantiate, ExecUpdate, ExecDestroy, Launch, Complete, vars
<1>6. ASSUME Drain \/ \E v \in Versions : EnqueueCleanup(v)
      PROVE  /\ UNCHANGED <<params, exec, launch, torn>>
             /\ \A v \in Versions : owners[v] = "released" => owners'[v] = "released"
  BY <1>6 DEF Drain, EnqueueCleanup, TypeOK
<1> QED
  BY <1>1, <1>2, <1>3, <1>4, <1>5, <1>6 DEF Next

Consumers == Graphs \cup Execs \cup Launches

LifetimeUses ==
    [c \in Consumers |->
        IF c \in Graphs THEN VersionsOf(c) \ torn
        ELSE IF c \in Execs THEN exec[c].uses \ torn ELSE launch[c].uses \ torn]

LifetimeReleased == {v \in Versions : owners[v] = "released"}

\* In the abstract state no consumer uses a released version.
LEMMA UsesAreAlive ==
  TypeOK /\ OthersAlive => LifetimeUses \in [Consumers -> SUBSET (Versions \ LifetimeReleased)]
<1> SUFFICES ASSUME TypeOK, OthersAlive
             PROVE  LifetimeUses \in [Consumers -> SUBSET (Versions \ LifetimeReleased)]
  OBVIOUS
<1>1. ASSUME NEW c \in Consumers, NEW v \in LifetimeUses[c]
      PROVE  v \in Versions /\ v \notin torn /\ Used(v)
  <2>1. CASE c \in Graphs
    BY <1>1, <2>1 DEF LifetimeUses, VersionsOf, Used
  <2>2. CASE c \notin Graphs /\ c \in Execs
    BY <1>1, <2>2 DEF LifetimeUses, Used, TypeOK, Consumer
  <2>3. CASE c \notin Graphs /\ c \notin Execs
    BY <1>1, <2>3 DEF LifetimeUses, Used, TypeOK, Consumer, Consumers
  <2> QED
    BY <2>1, <2>2, <2>3
<1>2. \A c \in Consumers : LifetimeUses[c] \subseteq Versions \ LifetimeReleased
  BY <1>1 DEF OthersAlive, LifetimeReleased
<1> QED
  BY <1>2 DEF LifetimeUses

\* Every step is a change of consumers, a release, or a stutter of ParameterLifetime.
LEMMA LifetimeStep ==
  IInv /\ IInv' /\ [Next]_vars => [Lifetime!Next]_(Lifetime!vars)
<1> SUFFICES ASSUME IInv, IInv', [Next]_vars PROVE [Lifetime!Next]_(Lifetime!vars)
  OBVIOUS
<1>1. TypeOK
  BY DEF IInv, Typed
<1>2. (LifetimeUses \in [Consumers -> SUBSET (Versions \ LifetimeReleased)])'
  <2>1. TypeOK'
    BY DEF IInv, Typed
  <2>2. OthersAlive'
    BY UsedIsAlive, PTL
  <2> QED
    BY <2>1, <2>2, UsesAreAlive, PTL
<1>3. CASE UNCHANGED owners
  <2>1. LifetimeReleased' = LifetimeReleased
    BY <1>3 DEF LifetimeReleased
  <2>2. Lifetime!Change
    BY <1>2, <2>1 DEF Lifetime!Change, LifetimeUses, LifetimeReleased, Consumers
  <2> QED
    BY <2>2 DEF Lifetime!Next
<1>4. CASE /\ UNCHANGED <<params, exec, launch, torn>>
           /\ \A v \in Versions : owners[v] = "released" => owners'[v] = "released"
  <2>1. LifetimeUses' = LifetimeUses
    BY <1>4 DEF LifetimeUses, VersionsOf
  <2>2. LifetimeReleased \subseteq LifetimeReleased' /\ LifetimeReleased' \in SUBSET Versions
    BY <1>4 DEF LifetimeReleased
  <2>3. \A c \in Consumers : LifetimeUses[c] \cap LifetimeReleased' = {}
    BY <1>2, <2>1
  <2>4. Lifetime!Release
    BY <2>1, <2>2, <2>3 DEF Lifetime!Release, LifetimeUses, LifetimeReleased, Consumers
  <2> QED
    BY <2>4 DEF Lifetime!Next
<1> QED
  BY <1>1, <1>3, <1>4, OneOrTheOther

\* GraphAttachments implements ParameterLifetime: a version's resources go
\* once, when no consumer uses them, and no consumer takes them up again.
THEOREM LifetimeRefined == Spec => ImplementsLifetime
<1>1. Init => Lifetime!Init
  <2> SUFFICES ASSUME Init PROVE Lifetime!Init
    OBVIOUS
  <2>1. LifetimeReleased = {}
    BY DEF Init, LifetimeReleased
  <2>2. \A c \in Consumers : LifetimeUses[c] = {}
    BY NothingAssumption DEF Init, LifetimeUses, VersionsOf, NoNodes, Gone, Consumers
  <2>3. LifetimeUses = [c \in Consumers |-> {}]
    BY <2>2 DEF LifetimeUses
  <2> QED
    BY <2>1, <2>3 DEF Lifetime!Init, LifetimeUses, LifetimeReleased, Consumers
<1> QED
  BY <1>1, InvAlways, LifetimeStep, PTL DEF Spec, ImplementsLifetime, Lifetime!Spec

-----------------------------------------------------------------------------
(* The index: no entry dangles, and a lookup finds what the node has now.   *)

\* What a failed restore may have left in a node instead of its entry.
Slack == IF "restore" \in Faults THEN torn \cup {None} ELSE {}

\* Every entry of e is for a node of x, is retained (rs) and is there once; the
\* node has its version as parameters (p), but for nodes that are being changed.
Shows(e, x, p, rs, slack, but) ==
    \A k \in Key : e[k] # None =>
        /\ k[1] = x
        /\ e[k] \in rs
        /\ \A l \in Key : e[l] = e[k] => l = k
        /\ p[k[2]] \in {e[k]} \cup slack \/ k[2] \in but

\* The node that CUDA has changed and the index does not show yet.
Pending(g) == LET o == op[RootOf(g)] IN IF o.ph = "publish" /\ o.g = g THEN {o.n} ELSE {}

\* CUDA has destroyed g, and the operation that made it do so will retire its box.
Retiring(g) ==
    LET o == op[RootOf(g)] IN
    /\ o.g = parent[g] /\ o.n = owner[g]
    /\ \/ o.ph \in {"publish", "release"} /\ o.kind = "destroy"
       \/ o.ph \in {"invalidate", "commit"}

IndexOK(g) ==
    /\ alive[g] = "live" => Shows(meta[g], g, params[g], refs[g], Slack, Pending(g))
    /\ alive[g] = "destroyed" => (meta[g] = NoEntries /\ ~boxed[g]) \/ Retiring(g)

\* What an operation is about to put into the index, or to take out of it.
StagedOK(r) ==
    LET o == op[r] IN
    /\ o.kind # "idle" => alive[o.g] = "live"
    /\ o.kind = "destroy" => o.v = None
    /\ o.kind \in {"host", "embed"} => meta[o.g][<<o.g, o.n>>] = None
    /\ o.ph = "publish" /\ o.v # None =>
          /\ o.v \in refs[o.g] /\ params[o.g][o.n] = o.v
          /\ \A k \in Key : meta[o.g][k] # o.v
    /\ o.ph = "publish" /\ o.kind # "destroy" => params[o.g][o.n] = o.v
    /\ o.ph = "release" => \A k \in Key : meta[o.g][k] # o.prev
    /\ o.ph \in {"child", "rekey", "undo", "commit"} =>
          alive[o.c] = "live" /\ owner[o.c] = o.n /\ meta[o.c] = NoEntries
    /\ o.ph = "child" => Shows(meta[o.src], o.src, params[o.c], refs[o.c], Slack, {})
    /\ o.ph \in {"rekey", "commit"} => Shows(o.staged, o.src, params[o.c], refs[o.c], Slack, {})
    /\ o.kind = "swap" /\ o.ph = "mutate" =>
          Shows(o.staged, o.src, params[o.src], refs[o.src], Slack, {})

Indexed == \A g \in Graphs : IndexOK(g)
Staged == \A r \in Graphs : StagedOK(r)

IndexInv == IInv /\ Indexed /\ Staged

\* More references, more slack and more exceptions do no harm.
LEMMA ShowsMore ==
  ASSUME NEW e, NEW x, NEW p, NEW rs, NEW slack, NEW but, Shows(e, x, p, rs, slack, but),
         NEW ss, \A k \in Key : e[k] # None /\ e[k] \in rs => e[k] \in ss,
         NEW more, slack \subseteq more, NEW others, but \subseteq others
  PROVE  Shows(e, x, p, ss, more, others)
  BY DEF Shows

\* No entries show whatever one likes.
LEMMA ShowsNothing ==
  ASSUME NEW e, \A k \in Key : e[k] = None, NEW x, NEW p, NEW rs, NEW slack, NEW but
  PROVE  Shows(e, x, p, rs, slack, but)
  BY DEF Shows

\* The exceptions grow only.
LEMMA SlackGrows == ASSUME torn \subseteq torn' PROVE Slack \subseteq Slack'
  BY DEF Slack

\* g is what it was, but for references it may have gained.
Untouched(g) ==
    /\ params'[g] = params[g] /\ meta'[g] = meta[g] /\ alive'[g] = alive[g]
    /\ parent'[g] = parent[g] /\ owner'[g] = owner[g] /\ boxed'[g] = boxed[g]
    /\ refs[g] \subseteq refs'[g]

\* The index of a graph stays right if the operation does not forget about it.
LEMMA IndexKept ==
  ASSUME NEW g \in Graphs, IndexOK(g), Untouched(g), torn \subseteq torn',
         Pending(g) \subseteq Pending(g)', Retiring(g) => Retiring(g)'
  PROVE  IndexOK(g)'
<1>1. ASSUME alive[g] = "live" PROVE Shows(meta'[g], g, params'[g], refs'[g], Slack', Pending(g)')
  BY <1>1, SlackGrows, ShowsMore DEF IndexOK, Untouched
<1> QED
  BY <1>1 DEF IndexOK, Untouched

\* A graph on whose hierarchy nothing happens.
LEMMA IndexFrame ==
  ASSUME NEW g \in Graphs, IndexOK(g), Untouched(g), torn \subseteq torn',
         op'[RootOf(g)] = op[RootOf(g)]
  PROVE  IndexOK(g)'
<1>1. RootOf(g)' = RootOf(g)
  BY DEF RootOf, Untouched
<1>2. Pending(g) \subseteq Pending(g)' /\ (Retiring(g) => Retiring(g)')
  BY <1>1 DEF Pending, Retiring, Untouched
<1> QED
  BY <1>2, IndexKept

\* Only the hierarchy of r matters, if anything happens there alone.
LEMMA IndexOthers ==
  ASSUME Typed, Indexed, NEW r \in Graphs, torn \subseteq torn',
         \A q \in Graphs \ {r} : op'[q] = op[q],
         \A x \in Graphs : IndexOK(x)' \/ (RootOf(x) # r /\ Untouched(x))
  PROVE  Indexed'
<1>1. \A x \in Graphs : RootOf(x) \in Graphs
  BY DEF RootOf, Typed, TypeOK
<1> QED
  BY <1>1, IndexFrame DEF Indexed

\* What an operation has in hand stays right if its graphs stay.
LEMMA StagedFrame ==
  ASSUME Typed, NEW r \in Graphs, StagedOK(r), op'[r] = op[r], torn \subseteq torn',
         op[r].kind # "idle" => Untouched(op[r].g),
         op[r].src # None => Untouched(op[r].src),
         op[r].ph \in {"child", "rekey", "undo", "commit"} => Untouched(op[r].c)
  PROVE  StagedOK(r)'
<1> DEFINE o == op[r]
<1>1. OpFacts(r)
  BY OpFactsHold
<1>2. o.kind \in {"embed", "swap"} => o.src # None
  BY <1>1, NothingAssumption DEF OpFacts
<1>3. Slack \subseteq Slack'
  BY SlackGrows
<1>4. ASSUME o.ph = "child" PROVE Shows(meta'[o.src], o.src, params'[o.c], refs'[o.c], Slack', {})
  <2>1. Untouched(o.src) /\ Untouched(o.c)
    BY <1>1, <1>2, <1>4 DEF OpFacts
  <2>2. Shows(meta[o.src], o.src, params[o.c], refs[o.c], Slack, {})
    BY <1>4 DEF StagedOK
  <2> QED
    BY <1>3, <2>1, <2>2, ShowsMore DEF Untouched
<1>5. ASSUME o.ph \in {"rekey", "commit"} PROVE Shows(o.staged, o.src, params'[o.c], refs'[o.c], Slack', {})
  <2>1. Untouched(o.c)
    BY <1>5
  <2>2. Shows(o.staged, o.src, params[o.c], refs[o.c], Slack, {})
    BY <1>5 DEF StagedOK
  <2> QED
    BY <1>3, <2>1, <2>2, ShowsMore DEF Untouched
<1>6. ASSUME o.kind = "swap", o.ph = "mutate"
      PROVE  Shows(o.staged, o.src, params'[o.src], refs'[o.src], Slack', {})
  <2>1. Untouched(o.src)
    BY <1>2, <1>6
  <2>2. Shows(o.staged, o.src, params[o.src], refs[o.src], Slack, {})
    BY <1>6 DEF StagedOK
  <2> QED
    BY <1>3, <2>1, <2>2, ShowsMore DEF Untouched
<1>7. /\ o.kind # "idle" => alive'[o.g] = "live"
      /\ o.kind = "destroy" => o.v = None
      /\ o.kind \in {"host", "embed"} => meta'[o.g][<<o.g, o.n>>] = None
  BY DEF StagedOK, Untouched
<1>8. /\ o.ph = "publish" /\ o.v # None =>
           /\ o.v \in refs'[o.g] /\ params'[o.g][o.n] = o.v
           /\ \A k \in Key : meta'[o.g][k] # o.v
      /\ o.ph = "publish" /\ o.kind # "destroy" => params'[o.g][o.n] = o.v
      /\ o.ph = "release" => \A k \in Key : meta'[o.g][k] # o.prev
  BY <1>1 DEF StagedOK, Untouched, OpFacts
<1>9. o.ph \in {"child", "rekey", "undo", "commit"} =>
          alive'[o.c] = "live" /\ owner'[o.c] = o.n /\ meta'[o.c] = NoEntries
  BY DEF StagedOK, Untouched
<1> QED
  BY <1>4, <1>5, <1>6, <1>7, <1>8, <1>9 DEF StagedOK

\* Operations on other hierarchies than that of r.
LEMMA StagedOthers ==
  ASSUME IInv, Staged, NEW r \in Graphs, torn \subseteq torn',
         op[r] # NoOp \/ Idle(r),
         \A q \in Graphs \ {r} : op'[q] = op[q],
         \A x \in Graphs : alive[x] # "none" /\ RootOf(x) # r => Untouched(x),
         StagedOK(r)'
  PROVE  Staged'
<1> SUFFICES ASSUME NEW q \in Graphs \ {r} PROVE StagedOK(q)'
  BY DEF Staged
<1>1. OpFacts(q) /\ Locked(q) /\ StagedOK(q) /\ Typed
  BY OpFactsHold DEF IInv, Operations, Staged
<1>2. \A x \in Graphs : RootOf(x) \in Graphs
  BY DEF RootOf, IInv, Typed, TypeOK
<1>3. op[q].src # None =>
          op[q].src \in Graphs /\ alive[op[q].src] # "none" /\ RootOf(op[q].src) # r
  BY <1>1 DEF OpFacts, Locked, Idle
<1>4. op[q].kind # "idle" => op[q].g \in Graphs /\ alive[op[q].g] # "none" /\ RootOf(op[q].g) # r
  BY <1>1 DEF Locked, OpFacts
<1>5. ASSUME op[q].ph \in {"child", "rekey", "undo", "commit"}
      PROVE  op[q].c \in Graphs /\ alive[op[q].c] # "none" /\ RootOf(op[q].c) = q
  BY <1>5, CloneFacts
<1> QED
  BY <1>1, <1>3, <1>4, <1>5, StagedFrame

\* No operation has nothing in hand.
LEMMA OverStaged == ASSUME NEW r \in Graphs, op'[r] = NoOp PROVE StagedOK(r)'
  BY NoOpType DEF StagedOK

\* An idle hierarchy has its live graphs shown as they are, and no others boxed.
LEMMA UsableShows ==
  ASSUME IInv, Indexed, NEW g \in Graphs, Usable(g)
  PROVE  /\ alive[g] = "live" /\ RootOf(g) \in Graphs /\ op[RootOf(g)] = NoOp
         /\ Shows(meta[g], g, params[g], refs[g], Slack, {})
<1>1. RootOf(g) \in Graphs /\ boxed[g] /\ op[RootOf(g)].kind = "idle"
  BY DEF Usable, Idle, RootOf, IInv, Typed, TypeOK
<1>2. op[RootOf(g)] = NoOp
  BY <1>1, OpFactsHold DEF OpFacts, IInv
<1>3. ~Retiring(g) /\ Pending(g) = {}
  BY <1>2, NoOpType DEF Retiring, Pending
<1>4. alive[g] \in {"none", "live", "destroyed"} /\ alive[g] # "none"
  BY <1>1 DEF IInv, Typed, TypeOK, Tree
<1>5. IndexOK(g)
  BY DEF Indexed
<1> QED
  BY <1>1, <1>2, <1>3, <1>4, <1>5 DEF IndexOK

\* A step of the operation of r, or one that starts it.
LEMMA StepOf ==
  ASSUME IndexInv, NEW r \in Graphs, OnlyOp(r), torn \subseteq torn',
         op[r] # NoOp \/ Idle(r),
         \A x \in Graphs : alive[x] # "none" /\ RootOf(x) # r => Untouched(x),
         \A x \in Graphs : IndexOK(x)' \/ (RootOf(x) # r /\ Untouched(x)),
         StagedOK(r)'
  PROVE  Indexed' /\ Staged'
  BY IndexOthers, StagedOthers DEF IndexInv, IInv, OnlyOp

\* A step that changes no graph, no operation and no entry of the index.
LEMMA IndexQuiet ==
  ASSUME IndexInv, UNCHANGED <<op, torn>>, \A x \in Graphs : Untouched(x)
  PROVE  Indexed' /\ Staged'
<1>1. \A x \in Graphs : RootOf(x) \in Graphs
  BY DEF RootOf, IndexInv, IInv, Typed, TypeOK
<1>2. Indexed'
  BY <1>1, IndexFrame DEF IndexInv, Indexed
<1>3. ASSUME NEW r \in Graphs PROVE StagedOK(r)'
  <2>1. OpFacts(r) /\ Locked(r) /\ Typed
    BY OpFactsHold DEF IndexInv, IInv, Operations
  <2>2. op[r].ph \in {"child", "rekey", "undo", "commit"} => op[r].c \in Graphs
    BY CloneFacts DEF IndexInv
  <2> QED
    BY <2>1, <2>2, StagedFrame DEF IndexInv, Staged, OpFacts
<1> QED
  BY <1>2, <1>3 DEF Staged

\* A new graph has no entries; a discovered one is live.
LEMMA CreateIndex ==
  ASSUME IndexInv, NEW g \in Graphs, CreateGraph(g) \/ DiscoverChild(g)
  PROVE  Indexed' /\ Staged'
<1>t. Typed /\ TypeOK /\ Tree /\ Operations
  BY DEF IndexInv, IInv, Typed
<1>1. \A x \in Graphs \ {g} : Untouched(x)
  BY <1>t DEF CreateGraph, DiscoverChild, Untouched, TypeOK
<1>2. UNCHANGED <<parent, owner, params, refs, meta, op, torn>>
  BY DEF CreateGraph, DiscoverChild
<1>3. alive'[g] = "live"
  BY <1>t DEF CreateGraph, DiscoverChild, TypeOK
<1>4. \A x \in Graphs : RootOf(x) \in Graphs
  BY <1>t DEF RootOf, TypeOK
<1>5. IndexOK(g)'
  <2>1. CASE CreateGraph(g)
    <3>1. \A k \in Key : meta'[g][k] = None
      BY <2>1, <1>2, <1>t DEF CreateGraph, Tree, NoEntries
    <3> QED
      BY <3>1, <1>3, ShowsNothing DEF IndexOK
  <2>2. CASE DiscoverChild(g)
    <3>1. Shows(meta[g], g, params[g], refs[g], Slack, Pending(g))
      BY <2>2 DEF DiscoverChild, IndexInv, Indexed, IndexOK
    <3>2. Pending(g)' = Pending(g) /\ Slack' = Slack
      BY <1>2 DEF Pending, RootOf, Slack
    <3> QED
      BY <3>1, <3>2, <1>2, <1>3 DEF IndexOK
  <2> QED
    BY <2>1, <2>2
<1>6. Indexed'
  BY <1>1, <1>2, <1>4, <1>5, IndexFrame DEF IndexInv, Indexed
<1>7. Staged'
  <2>1. ASSUME NEW r \in Graphs PROVE StagedOK(r)'
    <3>1. OpFacts(r) /\ Locked(r) /\ StagedOK(r)
      BY <1>t, OpFactsHold DEF IndexInv, Operations, Staged
    <3>2. op[r].ph \in {"child", "rekey", "undo", "commit"} => op[r].c \in Graphs
      BY CloneFacts DEF IndexInv
    <3>3. \A x \in Graphs : alive[x] = "live" => alive'[x] = "live"
      BY <1>1, <1>3 DEF Untouched
    <3>4. Slack' = Slack
      BY <1>2 DEF Slack
    <3> QED
      BY <1>2, <3>1, <3>2, <3>3, <3>4 DEF StagedOK, OpFacts
  <2> QED
    BY <2>1 DEF Staged
<1> QED
  BY <1>6, <1>7

\* The index of a closed hierarchy is empty, and its graphs are not boxed.
LEMMA CloseIndex ==
  ASSUME IndexInv, NEW r \in Graphs, CloseGraph(r)
  PROVE  Indexed' /\ Staged'
<1> DEFINE ds == {r} \cup Embedded(r)
<1>t. Typed /\ TypeOK /\ Tree
  BY DEF IndexInv, IInv, Typed
<1>u. UNCHANGED <<parent, owner, owners, exec, launch, op, torn>>
  BY DEF CloseGraph
<1>1. boxed[r] /\ parent[r] = None /\ Idle(r) /\ DriverDestroy(ds) /\ Retire(ds)
  BY DEF CloseGraph
<1>2. \A x \in ds : x \in Graphs /\ RootOf(x) = r
  BY <1>1, <1>t, NothingAssumption DEF Embedded, RootOf
<1>3. \A x \in Graphs :
        /\ alive'[x] = IF x \in ds THEN "destroyed" ELSE alive[x]
        /\ params'[x] = IF x \in ds THEN NoNodes ELSE params[x]
        /\ refs'[x] = IF x \in ds THEN {} ELSE refs[x]
        /\ boxed'[x] = (boxed[x] /\ x \notin ds)
        /\ meta'[x] = IF x \in ds THEN NoEntries ELSE meta[x]
  BY <1>1 DEF DriverDestroy, Retire
<1>4. \A x \in Graphs : x \notin ds => Untouched(x)
  BY <1>3, <1>u, <1>t DEF Untouched, TypeOK
<1> HIDE DEF ds
<1>5. \A x \in Graphs : IndexOK(x)'
  <2>1. ASSUME NEW x \in Graphs, x \in ds PROVE IndexOK(x)'
    BY <1>3, <2>1 DEF IndexOK
  <2>2. ASSUME NEW x \in Graphs, x \notin ds PROVE IndexOK(x)'
    BY <1>4, <1>u, <2>2, IndexFrame DEF IndexInv, Indexed
  <2> QED
    BY <2>1, <2>2
<1>6. OnlyOp(r) /\ op'[r] = NoOp
  BY <1>1, <1>u, <1>t, OpFactsHold DEF OnlyOp, TypeOK, Idle, OpFacts
<1> QED
  BY <1>1, <1>2, <1>4, <1>5, <1>6, <1>u, StepOf, OverStaged

\* What no entry names may come, change its state and go.
LEMMA OtherIndex ==
  ASSUME IndexInv,
         \/ \E g, n, k, v : CreateFails(g, n, k, v) \/ RetainFails(g, n, k, v)
         \/ \E g, e : Instantiate(g, e) \/ ExecUpdate(g, e)
         \/ \E e, l : ExecDestroy(e) \/ Launch(e, l) \/ Complete(l)
         \/ \E v : EnqueueCleanup(v)
         \/ Drain
         \/ UNCHANGED vars
  PROVE  Indexed' /\ Staged'
<1>1. UNCHANGED <<alive, parent, owner, params, refs, boxed, meta, op, torn>>
  BY DEF CreateFails, RetainFails, Instantiate, ExecUpdate, ExecDestroy, Launch, Complete,
         EnqueueCleanup, Drain, vars
<1> QED
  BY <1>1, IndexQuiet DEF Untouched

\* A step that only ends an operation which has nothing left to show or to retire.
LEMMA EndIndex ==
  ASSUME IndexInv, NEW r \in Graphs, op[r].ph # "idle", Done(r),
         UNCHANGED <<alive, parent, owner, params, refs, boxed, meta, owners, exec, launch, torn>>,
         \A x \in Graphs : RootOf(x) = r => ~Retiring(x) /\ (alive[x] = "live" => IndexOK(x)')
  PROVE  Indexed' /\ Staged'
<1>t. Typed /\ TypeOK
  BY DEF IndexInv, IInv, Typed
<1>1. OnlyOp(r) /\ op'[r] = NoOp
  BY <1>t, DoneOp DEF TypeOK
<1>2. \A x \in Graphs : Untouched(x)
  BY DEF Untouched
<1>3. op[r] # NoOp
  BY OwnGraphs DEF IndexInv
<1>4. ASSUME NEW x \in Graphs, RootOf(x) = r PROVE IndexOK(x)'
  <2>1. CASE alive[x] = "live"
    BY <1>4, <2>1
  <2>2. CASE alive[x] # "live"
    BY <1>4, <2>2 DEF IndexInv, Indexed, IndexOK
  <2> QED
    BY <2>1, <2>2
<1> QED
  BY <1>1, <1>2, <1>3, <1>4, StepOf, OverStaged

\* The node of a lost callback has no entry; the others are shown as before.
LEMMA FailureIndex ==
  ASSUME IndexInv, NEW r \in Graphs, TailFails(r) \/ UndoFails(r) \/ SwapRejected(r)
  PROVE  Indexed' /\ Staged'
<1> DEFINE o == op[r]
<1>1. /\ Done(r)
      /\ UNCHANGED <<alive, parent, owner, params, refs, boxed, meta, owners, exec, launch, torn>>
      /\ \/ o.ph = "publish" /\ o.kind = "host"
         \/ o.ph = "undo"
         \/ o.ph = "mutate"
  BY DEF TailFails, UndoFails, SwapRejected
<1>2. o.ph # "idle" /\ StagedOK(r)
  BY <1>1 DEF IndexInv, Staged
<1>3. op'[r] = NoOp
  BY <1>1, DoneOp DEF IndexInv, IInv, Typed, TypeOK
<1>4. ASSUME NEW x \in Graphs, RootOf(x) = r
      PROVE  ~Retiring(x) /\ (alive[x] = "live" => IndexOK(x)')
  <2>1. ~Retiring(x)
    BY <1>1, <1>4 DEF Retiring
  <2>2. ASSUME alive[x] = "live" PROVE Shows(meta[x], x, params[x], refs[x], Slack, {})
    <3>1. Shows(meta[x], x, params[x], refs[x], Slack, Pending(x))
      BY <2>2 DEF IndexInv, Indexed, IndexOK
    <3>2. CASE o.ph # "publish" \/ o.g # x
      BY <1>4, <3>1, <3>2 DEF Pending
    <3>3. CASE o.ph = "publish" /\ o.g = x
      <4>1. meta[x][<<x, o.n>>] = None
        BY <1>1, <1>2, <3>3 DEF StagedOK
      <4>2. Pending(x) = {o.n}
        BY <1>4, <3>3 DEF Pending
      <4>3. \A k \in Key : k[1] = x /\ k[2] = o.n => k = <<x, o.n>>
        BY DEF Key
      <4> QED
        BY <3>1, <4>1, <4>2, <4>3 DEF Shows
    <3> QED
      BY <3>2, <3>3
  <2>3. ASSUME alive[x] = "live" PROVE IndexOK(x)'
    <3>1. Slack' = Slack
      BY <1>1 DEF Slack
    <3>2. Pending(x)' = {}
      BY <1>1, <1>3, <1>4, NoOpType DEF Pending, RootOf
    <3> QED
      BY <1>1, <2>2, <2>3, <3>1, <3>2 DEF IndexOK
  <2> QED
    BY <2>1, <2>3
<1> QED
  BY <1>1, <1>2, <1>4, EndIndex

\* A graph of another node, or of no operation at all, is shown as before.
LEMMA IndexSame ==
  ASSUME IndexInv, NEW r \in Graphs, NEW x \in Graphs, RootOf(x) = r, Untouched(x), torn \subseteq torn',
         Pending(x) \subseteq Pending(x)', Retiring(x) => Retiring(x)'
  PROVE  IndexOK(x)'
  BY IndexKept DEF IndexInv, Indexed

\* Nothing is there to add before CUDA has done it.
LEMMA PrepareIndex ==
  ASSUME IndexInv, NEW g \in Graphs, NEW n \in Nodes, NEW k \in {"add", "set", "host", "destroy"},
         NEW v \in Versions \cup {None}, Prepare(g, n, k, v)
  PROVE  Indexed' /\ Staged'
<1>t. Typed /\ TypeOK /\ Tree
  BY DEF IndexInv, IInv, Typed
<1>r. PICK r \in Graphs : r = RootOf(g)
  BY <1>t DEF RootOf, TypeOK
<1>0. /\ Idle(r) /\ Usable(g) /\ Applicable(k, g, n, v)
      /\ refs' = [refs EXCEPT ![g] = @ \cup ({v} \cap Versions)]
      /\ op' = [op EXCEPT ![r] = [NewOp(k, "mutate", g, n) EXCEPT !.v = v]]
      /\ UNCHANGED <<alive, parent, owner, params, boxed, meta, exec, launch, torn>>
  BY <1>r DEF Prepare, Usable
<1>1. OnlyOp(r) /\ StartsNode(op'[r], k, g, n, v)
  BY <1>0, <1>t, PrepareOp, OpIs DEF TypeOK
<1>2. \A x \in Graphs : Untouched(x)
  BY <1>0, <1>t DEF Untouched, TypeOK
<1>3. /\ alive[g] = "live" /\ op[r] = NoOp
      /\ Shows(meta[g], g, params[g], refs[g], Slack, {})
  BY <1>0, <1>r, UsableShows DEF IndexInv
<1>4. ASSUME NEW x \in Graphs, RootOf(x) = r PROVE IndexOK(x)'
  <2>1. ~Retiring(x) /\ Pending(x) = {}
    BY <1>3, <1>4, NoOpType DEF Retiring, Pending
  <2> QED
    BY <1>0, <1>2, <1>4, <2>1, IndexSame
<1>5. params[g][n] = Absent => meta[g][<<g, n>>] = None
  <2>1. <<g, n>> \in Key /\ <<g, n>>[2] = n
    BY DEF Key
  <2>2. meta[g][<<g, n>>] \in Versions \cup {None}
    BY ZenonT(60), <2>1, <1>t DEF TypeOK
  <2>3. Absent \notin Slack
    BY <1>t, NothingAssumption DEF Slack, TypeOK
  <2> QED
    BY <1>3, <2>1, <2>2, <2>3, NothingAssumption DEF Shows
<1>6. StagedOK(r)'
  BY <1>0, <1>1, <1>3, <1>5, NothingAssumption DEF StagedOK, StartsNode, Applicable
<1> QED
  BY <1>0, <1>1, <1>2, <1>4, <1>6, StepOf

\* The node is between two versions, or as it was; its entry is the previous one.
LEMMA MutateFailsIndex ==
  ASSUME IndexInv, NEW r \in Graphs, MutateFails(r) \/ RestoreFails(r)
  PROVE  Indexed' /\ Staged'
<1> DEFINE o == op[r]
<1>t. Typed /\ TypeOK
  BY DEF IndexInv, IInv, Typed
<1>0. Mutating(r) /\ Rollback(r) /\ o.ph = "mutate" /\ torn \subseteq torn'
      /\ UNCHANGED <<alive, parent, owner, boxed, meta, owners, exec, launch>>
  BY DEF MutateFails, RestoreFails, Mutating
<1>1. OnlyOp(r) /\ op'[r] = NoOp
  BY DoneOp, <1>t DEF MutateFails, RestoreFails, TypeOK
<1>2. /\ OpFacts(r) /\ PhaseOK(r) /\ op[r] # NoOp /\ StagedOK(r)
      /\ o.g \in Graphs /\ o.n \in Nodes /\ RootOf(o.g) = r
  BY <1>0, OwnGraphs DEF IndexInv, Staged
<1>3. /\ o.v \in Versions \cup {None}
      /\ o.v # None => \A m \in Nodes : meta[o.g][<<o.g, m>>] # o.v
  BY <1>0, <1>2 DEF PhaseOK, OpFacts
<1>4. \A x \in Graphs : refs'[x] = IF x = o.g THEN refs[x] \ {o.v} ELSE refs[x]
  BY <1>0, <1>t DEF Rollback, TypeOK
<1>g. PICK g \in Graphs : g = o.g
  BY <1>2
<1>5. \A m \in Nodes : params'[g][m] \in {params[g][m]} \cup Slack'
  <2>1. CASE MutateFails(r)
    BY <2>1 DEF MutateFails
  <2>2. CASE RestoreFails(r)
    <3>1. \A m \in Nodes : params'[g][m] = IF m = o.n THEN o.v ELSE params[g][m]
      BY <2>2, <1>t, <1>2, <1>g DEF RestoreFails, TypeOK
    <3>2. "restore" \in Faults /\ torn' = torn \cup ({o.v} \cap Versions)
      BY <2>2 DEF RestoreFails
    <3>3. o.v \in Slack'
      BY <3>2, <1>3 DEF Slack
    <3> QED
      BY <3>1, <3>3
  <2> QED
    BY <2>1, <2>2
<1>6. \A x \in Graphs : x # o.g => Untouched(x)
  BY <1>0, <1>4, <1>t, <1>2 DEF MutateFails, RestoreFails, TypeOK, Untouched
<1>7. \A x \in Graphs : RootOf(x) = r => ~Retiring(x) /\ Pending(x) = {}
  BY <1>0 DEF Retiring, Pending, Mutating
<1>8. IndexOK(g)'
  <2>1. alive[g] = "live" /\ alive'[g] = "live"
    BY <1>0, <1>2, <1>g DEF StagedOK, Mutating
  <2>2. Shows(meta[g], g, params[g], refs[g], Slack, {})
    BY <1>2, <1>g, <1>7, <2>1 DEF IndexInv, Indexed, IndexOK
  <2>3. Slack \subseteq Slack'
    BY <1>0, SlackGrows
  <2>4. \A k \in Key : k[2] \in Nodes /\ k = <<k[1], k[2]>>
    BY DEF Key
  <2>5. \A k \in Key : meta[g][k] # None => meta[g][k] # o.v
    BY <1>3, <1>g, <2>2, <2>4 DEF Shows
  <2>6. Shows(meta[g], g, params'[g], refs'[g], Slack', {})
    BY <1>4, <1>g, <1>5, <2>2, <2>3, <2>4, <2>5 DEF Shows
  <2>7. Shows(meta[g], g, params'[g], refs'[g], Slack', Pending(g)')
    BY <2>6, ShowsMore
  <2> QED
    BY <1>0, <2>1, <2>7 DEF IndexOK
<1>9. ASSUME NEW x \in Graphs, RootOf(x) = r PROVE IndexOK(x)'
  BY <1>0, <1>6, <1>7, <1>8, <1>9, <1>g, IndexSame
<1> QED
  BY <1>0, <1>1, <1>2, <1>6, <1>9, StepOf, OverStaged

\* CUDA has changed the node: its entry is pending, those of a destroyed graph
\* will be retired.
LEMMA MutateIndex ==
  ASSUME IndexInv, NEW r \in Graphs, Mutate(r)
  PROVE  Indexed' /\ Staged'
<1> DEFINE o == op[r]
           ds == IF o.kind = "destroy" THEN OwnedBy(o.g, o.n) ELSE {}
<1>t. Typed /\ TypeOK /\ Tree
  BY DEF IndexInv, IInv, Typed
<1>0. Mutating(r) /\ Goto(r, "publish") /\ o.ph = "mutate" /\ o.kind \in {"add", "set", "host", "destroy"}
      /\ UNCHANGED <<parent, owner, boxed, meta, owners, exec, launch, torn>>
  BY DEF Mutate, Mutating
<1>1. OnlyOp(r) /\ SameWork(op'[r], o) /\ op'[r].staged = o.staged /\ op'[r].ph = "publish"
  BY <1>0, <1>t, GotoOp DEF TypeOK, Phases
<1>2. /\ OpFacts(r) /\ PhaseOK(r) /\ op[r] # NoOp /\ StagedOK(r)
      /\ o.g \in Graphs /\ o.n \in Nodes /\ RootOf(o.g) = r
      /\ \A x \in Graphs : parent[x] = o.g => RootOf(x) = r
  BY <1>0, OwnGraphs DEF IndexInv, Staged
<1>3. /\ o.v \in Versions \cup {None}
      /\ o.v # None =>
           /\ o.v \in refs[o.g]
           /\ \A m \in Nodes : meta[o.g][<<o.g, m>>] # o.v
  BY <1>0, <1>2 DEF PhaseOK, OpFacts
<1>4. /\ alive[o.g] = "live"
      /\ o.kind = "destroy" => o.v = None
      /\ o.kind = "host" => meta[o.g][<<o.g, o.n>>] = None
  BY <1>0, <1>2 DEF StagedOK
<1>5. \A x \in Graphs :
        /\ alive'[x] = IF x \in ds THEN "destroyed" ELSE alive[x]
        /\ refs'[x] = IF x \in ds THEN {} ELSE refs[x]
        /\ x \in ds => alive[x] = "live" /\ parent[x] = o.g /\ owner[x] = o.n /\ o.kind = "destroy"
        /\ x \notin ds /\ x # o.g => params'[x] = params[x]
  <2>1. CASE o.kind = "destroy"
    BY <1>t, <2>1 DEF Mutate, TypeOK, OwnedBy, Embedded
  <2>2. CASE o.kind # "destroy"
    BY <1>t, <2>2 DEF Mutate, TypeOK
  <2> QED
    BY <2>1, <2>2
<1>6. o.g \notin ds
  BY <1>2, <1>5, <1>t, NothingAssumption DEF Tree
<1>7. params'[o.g] = [params[o.g] EXCEPT ![o.n] = IF o.kind = "destroy" THEN Absent ELSE o.v]
  <2>1. CASE o.kind = "destroy"
    BY <1>t, <1>2, <1>6, <2>1 DEF Mutate, TypeOK
  <2>2. CASE o.kind # "destroy"
    BY <1>t, <1>2, <2>2 DEF Mutate, TypeOK
  <2> QED
    BY <2>1, <2>2
<1> HIDE DEF ds
<1>8. \A x \in Graphs : x # o.g /\ x \notin ds => Untouched(x)
  BY <1>0, <1>5 DEF Untouched
<1>9. \A x \in Graphs : RootOf(x) = r => ~Retiring(x) /\ Pending(x) = {}
  BY <1>0 DEF Retiring, Pending
<1>10. \A x \in Graphs : RootOf(x)' = RootOf(x)
  BY <1>0 DEF RootOf
<1>11. Shows(meta[o.g], o.g, params[o.g], refs[o.g], Slack, {})
  BY <1>2, <1>4, <1>9 DEF IndexInv, Indexed, IndexOK
<1>g. PICK g \in Graphs : g = o.g
  BY <1>2
<1>12. IndexOK(g)'
  <2>1. Pending(g)' = {o.n}
    BY <1>1, <1>2, <1>10, <1>g DEF Pending, SameWork
  <2>2. \A m \in Nodes : m # o.n => params'[g][m] = params[g][m]
    BY <1>7, <1>g, <1>t, <1>2 DEF TypeOK
  <2>3. \A k \in Key : k[2] \in Nodes
    BY DEF Key
  <2>4. Shows(meta[g], g, params'[g], refs[g], Slack, {o.n})
    BY <1>11, <1>g, <2>2, <2>3 DEF Shows
  <2>5. refs'[g] = refs[g] /\ Slack' = Slack /\ meta' = meta /\ alive'[g] = "live"
    BY <1>0, <1>2, <1>g, <1>4, <1>5, <1>6 DEF Slack
  <2> QED
    BY <2>1, <2>4, <2>5 DEF IndexOK
<1>13. ASSUME NEW x \in Graphs, RootOf(x) = r PROVE IndexOK(x)'
  <2>1. CASE x \in ds
    <3>1. Retiring(x)'
      BY <1>0, <1>1, <1>5, <1>10, <1>13, <2>1 DEF Retiring, SameWork
    <3> QED
      BY <1>5, <2>1, <3>1 DEF IndexOK
  <2>2. CASE x # o.g /\ x \notin ds
    BY <1>0, <1>8, <1>9, <1>13, <2>2, IndexSame
  <2> QED
    BY <1>12, <1>g, <2>1, <2>2
<1>14. StagedOK(r)'
  <2>1. SameWork(op'[r], o) /\ alive'[o.g] = "live" /\ meta' = meta /\ refs'[o.g] = refs[o.g]
    BY <1>0, <1>1, <1>2, <1>4, <1>5, <1>6
  <2>2. o.kind # "destroy" => params'[o.g][o.n] = o.v
    BY <1>2, <1>7, <1>t DEF TypeOK
  <2>3. \A k \in Key : k[2] \in Nodes /\ k = <<k[1], k[2]>>
    BY DEF Key
  <2>4. ASSUME NEW k \in Key, o.v # None PROVE meta[o.g][k] # o.v
    <3>1. meta[o.g][k] # None => k = <<o.g, k[2]>>
      BY <1>11, <2>3 DEF Shows
    <3> QED
      BY <1>3, <2>3, <2>4, <3>1
  <2> QED
    BY <1>0, <1>1, <1>3, <1>4, <2>1, <2>2, <2>4 DEF StagedOK, SameWork
<1> QED
  BY <1>0, <1>1, <1>2, <1>5, <1>8, <1>13, <1>14, StepOf

\* What remains to be done after publication depends on the kind of operation.
LEMMA AfterPublishKind ==
  ASSUME op \in [Graphs -> Operation], NEW r \in Graphs, NEW prev \in Versions \cup {None},
         op' = [op EXCEPT ![r] = AfterPublish(op[r], prev)]
  PROVE  /\ prev # None => op'[r] # NoOp /\ op'[r].ph = "release"
         /\ prev = None /\ op[r].kind = "destroy" => op'[r] # NoOp /\ op'[r].ph = "invalidate"
         /\ prev = None /\ op[r].kind # "destroy" => op'[r] = NoOp
<1>1. op'[r] = AfterPublish(op[r], prev) /\ op[r] \in Operation
  OBVIOUS
<1>2. prev # None => AfterPublish(op[r], prev).ph = "release"
  BY <1>1 DEF AfterPublish, Operation
<1>3. prev = None /\ op[r].kind = "destroy" => AfterPublish(op[r], prev).ph = "invalidate"
  BY <1>1 DEF AfterPublish, Operation
<1>4. prev = None /\ op[r].kind # "destroy" => AfterPublish(op[r], prev) = NoOp
  BY DEF AfterPublish
<1> QED
  BY <1>1, <1>2, <1>3, <1>4, NoOpType

\* The entry is the version the node has now, and nobody else's.
LEMMA PublishIndex ==
  ASSUME IndexInv, NEW r \in Graphs, Publish(r)
  PROVE  Indexed' /\ Staged'
<1> DEFINE o == op[r]
           prev == meta[o.g][<<o.g, o.n>>]
<1>t. Typed /\ TypeOK
  BY DEF IndexInv, IInv, Typed
<1>0. /\ o.ph = "publish"
      /\ meta' = [meta EXCEPT ![o.g][<<o.g, o.n>>] = o.v]
      /\ op' = [op EXCEPT ![r] = AfterPublish(o, prev)]
      /\ UNCHANGED <<alive, parent, owner, params, refs, boxed, owners, exec, launch, torn>>
  BY DEF Publish
<1>1. /\ OpFacts(r) /\ op[r] # NoOp /\ StagedOK(r)
      /\ o.g \in Graphs /\ o.n \in Nodes /\ RootOf(o.g) = r /\ o.kind # "idle"
      /\ <<o.g, o.n>> \in Key
  BY <1>0, OwnGraphs DEF Key, IndexInv, Staged
<1>g. PICK g \in Graphs, n \in Nodes : g = o.g /\ n = o.n
  BY <1>1
<1>2. prev \in Versions \cup {None}
  BY ZenonT(60), <1>1, <1>t DEF TypeOK
<1>3. /\ OnlyOp(r)
      /\ \/ op'[r] = NoOp /\ prev = None /\ o.kind # "destroy"
         \/ SameWork(op'[r], o) /\ op'[r].ph = "invalidate" /\ o.kind = "destroy"
         \/ SameWork(op'[r], o) /\ op'[r].ph = "release" /\ op'[r].prev = prev /\ prev # None
  BY <1>0, <1>2, <1>t, AfterPublishOp, AfterPublishKind DEF TypeOK
<1>4. /\ alive[g] = "live"
      /\ o.v # None => o.v \in refs[g] /\ params[g][n] = o.v /\ \A k \in Key : meta[g][k] # o.v
      /\ o.kind = "destroy" => o.v = None
      /\ o.kind = "host" => prev = None
  BY <1>0, <1>1, <1>g DEF StagedOK
<1>5. /\ \A k \in Key : meta'[g][k] = IF k = <<g, n>> THEN o.v ELSE meta[g][k]
      /\ \A x \in Graphs : x # g => meta'[x] = meta[x]
  BY <1>0, <1>1, <1>g, <1>t DEF TypeOK
<1>6. \A x \in Graphs : x # g => Untouched(x)
  BY <1>0, <1>5 DEF Untouched
<1>7. \A x \in Graphs : RootOf(x)' = RootOf(x)
  BY <1>0 DEF RootOf
<1>8. \A x \in Graphs : RootOf(x) = r => /\ Retiring(x) => Retiring(x)'
                                         /\ x # g => Pending(x) = {}
                                         /\ Pending(x)' = {}
  BY <1>0, <1>3, <1>7, <1>g, NoOpType DEF Retiring, Pending, SameWork
<1>9. Shows(meta[g], g, params[g], refs[g], Slack, {n})
  <2>1. Pending(g) = {n}
    BY <1>0, <1>1, <1>g DEF Pending
  <2> QED
    BY <1>4, <2>1 DEF IndexInv, Indexed, IndexOK
<1>10. Shows(meta'[g], g, params[g], refs[g], Slack, {})
  <2> SUFFICES ASSUME NEW k \in Key, meta'[g][k] # None
               PROVE  /\ k[1] = g
                      /\ meta'[g][k] \in refs[g]
                      /\ \A l \in Key : meta'[g][l] = meta'[g][k] => l = k
                      /\ params[g][k[2]] \in {meta'[g][k]} \cup Slack
    BY DEF Shows
  <2>1. <<g, n>>[1] = g /\ <<g, n>>[2] = n /\ k = <<k[1], k[2]>>
    BY DEF Key
  <2>2. CASE k = <<g, n>>
    BY <1>4, <1>5, <2>1, <2>2
  <2>3. CASE k # <<g, n>>
    <3>1. meta'[g][k] = meta[g][k]
      BY <1>5, <2>3
    <3>2. /\ k[1] = g /\ meta[g][k] \in refs[g] /\ \A l \in Key : meta[g][l] = meta[g][k] => l = k
          /\ params[g][k[2]] \in {meta[g][k]} \cup Slack \/ k[2] \in {n}
      BY <1>9, <3>1 DEF Shows
    <3>3. k[2] # n
      BY <2>1, <2>3, <3>2
    <3> QED
      BY <1>4, <1>5, <3>1, <3>2, <3>3
  <2> QED
    BY <2>2, <2>3
<1>11. IndexOK(g)'
  <2>1. Pending(g)' = {} /\ Slack' = Slack
    BY <1>0, <1>1, <1>8, <1>g DEF Slack
  <2> QED
    BY <1>0, <1>4, <1>10, <2>1 DEF IndexOK
<1>12. ASSUME NEW x \in Graphs, RootOf(x) = r PROVE IndexOK(x)'
  <2>1. CASE x = g
    BY <1>11, <2>1
  <2>2. CASE x # g
    <3>1. Untouched(x) /\ Pending(x) \subseteq Pending(x)' /\ (Retiring(x) => Retiring(x)')
      BY <1>6, <1>8, <1>12, <2>2
    <3> QED
      BY <1>0, <1>12, <3>1, IndexSame
  <2> QED
    BY <2>1, <2>2
<1>13. StagedOK(r)'
  <2>1. CASE op'[r] = NoOp
    BY <2>1, OverStaged
  <2>2. ASSUME SameWork(op'[r], o), op'[r].ph = "invalidate", o.kind = "destroy" PROVE StagedOK(r)'
    BY <1>0, <1>4, <1>g, <2>2 DEF StagedOK, SameWork
  <2>3. ASSUME SameWork(op'[r], o), op'[r].ph = "release", op'[r].prev = prev, prev # None
        PROVE  StagedOK(r)'
    <3>1. \A k \in Key : meta'[g][k] # prev
      <4>1. \A k \in Key : meta[g][k] = prev => k = <<g, n>>
        BY <1>9, <1>1, <1>g, <2>3 DEF Shows
      <4>2. o.v # prev
        BY <1>1, <1>4, <1>g, <2>3
      <4> QED
        BY <1>5, <4>1, <4>2
    <3>2. o.kind # "host" /\ o.kind # "embed"
      <4>1. o.kind # "host"
        BY <1>4, <2>3
      <4>2. o.kind = "embed" => prev = None
        BY <1>1 DEF StagedOK
      <4> QED
        BY <4>1, <4>2, <2>3
    <3> QED
      BY <1>0, <1>4, <1>g, <2>3, <3>1, <3>2 DEF StagedOK, SameWork
  <2> QED
    BY <1>3, <2>1, <2>2, <2>3
<1>14. ASSUME NEW x \in Graphs, RootOf(x) # r PROVE Untouched(x)
  BY <1>1, <1>6, <1>14, <1>g
<1> QED
  BY <1>0, <1>1, <1>3, <1>12, <1>13, <1>14, StepOf

\* The previous version has left the index.
LEMMA ReleaseIndex ==
  ASSUME IndexInv, NEW r \in Graphs, ReleasePrevious(r)
  PROVE  Indexed' /\ Staged'
<1> DEFINE o == op[r]
<1>t. Typed /\ TypeOK
  BY DEF IndexInv, IInv, Typed
<1>0. /\ o.ph = "release"
      /\ refs' = [refs EXCEPT ![o.g] = @ \ {o.prev}]
      /\ op' = [op EXCEPT ![r] = AfterPublish(o, None)]
      /\ UNCHANGED <<alive, parent, owner, params, boxed, meta, owners, exec, launch, torn>>
  BY DEF ReleasePrevious
<1>1. /\ OpFacts(r) /\ op[r] # NoOp /\ StagedOK(r)
      /\ o.g \in Graphs /\ o.n \in Nodes /\ RootOf(o.g) = r /\ o.kind # "idle"
  BY <1>0, OwnGraphs DEF IndexInv, Staged
<1>g. PICK g \in Graphs : g = o.g
  BY <1>1
<1>2. /\ OnlyOp(r)
      /\ \/ op'[r] = NoOp /\ o.kind # "destroy"
         \/ SameWork(op'[r], o) /\ op'[r].ph = "invalidate" /\ o.kind = "destroy"
  BY <1>0, <1>t, AfterPublishOp, AfterPublishKind DEF TypeOK
<1>3. alive[g] = "live" /\ \A k \in Key : meta[g][k] # o.prev
  BY <1>0, <1>1, <1>g DEF StagedOK
<1>4. \A x \in Graphs : refs'[x] = IF x = g THEN refs[x] \ {o.prev} ELSE refs[x]
  BY <1>0, <1>g, <1>t DEF TypeOK
<1>5. \A x \in Graphs : x # g => Untouched(x)
  BY <1>0, <1>4 DEF Untouched
<1>6. \A x \in Graphs : RootOf(x)' = RootOf(x)
  BY <1>0 DEF RootOf
<1>7. \A x \in Graphs : RootOf(x) = r => /\ Retiring(x) => Retiring(x)'
                                         /\ Pending(x) = {} /\ Pending(x)' = {}
  BY <1>0, <1>2, <1>6, NoOpType DEF Retiring, Pending, SameWork
<1>8. IndexOK(g)'
  <2>1. Shows(meta[g], g, params[g], refs[g], Slack, {})
    <3>1. Pending(g) = {}
      BY <1>1, <1>7, <1>g
    <3> QED
      BY <1>3, <3>1 DEF IndexInv, Indexed, IndexOK
  <2>2. Shows(meta[g], g, params[g], refs'[g], Slack, {})
    BY <1>3, <1>4, <2>1 DEF Shows
  <2>3. Pending(g)' = {} /\ Slack' = Slack
    BY <1>0, <1>1, <1>7, <1>g DEF Slack
  <2> QED
    BY <1>0, <1>3, <2>2, <2>3 DEF IndexOK
<1>9. ASSUME NEW x \in Graphs, RootOf(x) = r PROVE IndexOK(x)'
  <2>1. CASE x = g
    BY <1>8, <2>1
  <2>2. CASE x # g
    <3>1. Untouched(x) /\ Pending(x) \subseteq Pending(x)' /\ (Retiring(x) => Retiring(x)')
      BY <1>5, <1>7, <1>9, <2>2
    <3> QED
      BY <1>0, <1>9, <3>1, IndexSame
  <2> QED
    BY <2>1, <2>2
<1>10. StagedOK(r)'
  <2>1. o.kind = "destroy" => o.v = None
    BY <1>1 DEF StagedOK
  <2> QED
    BY <1>0, <1>2, <1>3, <1>g, <2>1, OverStaged DEF StagedOK, SameWork
<1>11. ASSUME NEW x \in Graphs, RootOf(x) # r PROVE Untouched(x)
  BY <1>1, <1>5, <1>11, <1>g
<1> QED
  BY <1>0, <1>1, <1>2, <1>9, <1>10, <1>11, StepOf

\* The boxes of the graphs CUDA has destroyed are retired.
LEMMA InvalidateIndex ==
  ASSUME IndexInv, NEW r \in Graphs, Invalidate(r)
  PROVE  Indexed' /\ Staged'
<1> DEFINE o == op[r]
           bs == {c \in Graphs : parent[c] = o.g /\ owner[c] = o.n}
<1>t. Typed /\ TypeOK
  BY DEF IndexInv, IInv, Typed
<1>0. /\ o.ph = "invalidate" /\ Retire(bs) /\ Done(r)
      /\ UNCHANGED <<alive, parent, owner, params, refs, owners, exec, launch, torn>>
  BY DEF Invalidate
<1>1. op[r] # NoOp /\ \A x \in bs : RootOf(x) = r
  BY <1>0, OwnGraphs DEF IndexInv
<1>2. OnlyOp(r) /\ op'[r] = NoOp
  BY <1>0, <1>t, DoneOp DEF TypeOK
<1>3. \A x \in Graphs : /\ boxed'[x] = (boxed[x] /\ x \notin bs)
                        /\ meta'[x] = IF x \in bs THEN NoEntries ELSE meta[x]
  BY <1>0 DEF Retire
<1>4. \A k \in Key : NoEntries[k] = None
  BY DEF NoEntries
<1>5. \A x \in Graphs : RootOf(x) = r => Pending(x) = {} /\ (Retiring(x) => x \in bs)
  BY <1>0 DEF Pending, Retiring
<1> HIDE DEF bs
<1>6. \A x \in Graphs : x \notin bs => Untouched(x)
  BY <1>0, <1>3, <1>t DEF Untouched, TypeOK
<1>7. ASSUME NEW x \in Graphs, RootOf(x) = r PROVE IndexOK(x)'
  <2>1. CASE x \in bs
    <3>1. meta'[x] = NoEntries /\ ~boxed'[x]
      BY <1>3, <2>1
    <3> QED
      BY <1>4, <3>1, ShowsNothing DEF IndexOK
  <2>2. CASE x \notin bs
    <3>1. Untouched(x) /\ Pending(x) \subseteq Pending(x)' /\ (Retiring(x) => Retiring(x)')
      BY <1>5, <1>6, <1>7, <2>2
    <3> QED
      BY <1>0, <1>7, <3>1, IndexSame
  <2> QED
    BY <2>1, <2>2
<1>8. ASSUME NEW x \in Graphs, RootOf(x) # r PROVE Untouched(x)
  BY <1>1, <1>6, <1>8
<1> QED
  BY <1>0, <1>1, <1>2, <1>7, <1>8, StepOf, OverStaged

\* The source's entries, once moved to the clone, show the clone.
LEMMA RekeyedShows ==
  ASSUME NEW e \in [Key -> Versions \cup {None}], NEW src \in Graphs, NEW c \in Graphs,
         NEW p, NEW rs, NEW slack, Shows(e, src, p, rs, slack, {})
  PROVE  Shows(Rekeyed(e, src, c), c, p, rs, slack, {})
<1> SUFFICES ASSUME NEW k \in Key, Rekeyed(e, src, c)[k] # None
             PROVE  /\ k[1] = c
                    /\ Rekeyed(e, src, c)[k] \in rs
                    /\ \A l \in Key : Rekeyed(e, src, c)[l] = Rekeyed(e, src, c)[k] => l = k
                    /\ p[k[2]] \in {Rekeyed(e, src, c)[k]} \cup slack
  BY DEF Shows
<1>1. \A l \in Key : /\ l[2] \in Nodes /\ <<src, l[2]>> \in Key /\ l = <<l[1], l[2]>>
                     /\ <<src, l[2]>>[2] = l[2]
                     /\ Rekeyed(e, src, c)[l] = IF l[1] = c THEN e[<<src, l[2]>>] ELSE None
  BY DEF Key, Rekeyed
<1>2. k[1] = c /\ Rekeyed(e, src, c)[k] = e[<<src, k[2]>>] /\ e[<<src, k[2]>>] # None
  BY <1>1
<1>3. /\ e[<<src, k[2]>>] \in rs /\ p[k[2]] \in {e[<<src, k[2]>>]} \cup slack
      /\ \A l \in Key : e[l] = e[<<src, k[2]>>] => l = <<src, k[2]>>
  BY <1>1, <1>2 DEF Shows
<1>4. ASSUME NEW l \in Key, Rekeyed(e, src, c)[l] = Rekeyed(e, src, c)[k] PROVE l = k
  <2>1. l[1] = c /\ e[<<src, l[2]>>] = e[<<src, k[2]>>]
    BY <1>1, <1>2, <1>4
  <2>2. <<src, l[2]>> = <<src, k[2]>>
    BY <1>1, <1>3, <2>1
  <2>3. l[2] = k[2]
    BY <2>2
  <2> QED
    BY <1>1, <1>2, <2>1, <2>3
<1> QED
  BY <1>2, <1>3, <1>4

\* What the lemmas on clones below start from.
LEMMA CloneIndex ==
  ASSUME IndexInv, NEW r \in Graphs, op[r].ph \in {"child", "rekey", "undo", "commit"}
  PROVE  /\ OpFacts(r) /\ op[r] # NoOp /\ op[r].kind # "idle" /\ StagedOK(r) /\ Typed /\ TypeOK
         /\ op[r].g \in Graphs /\ op[r].n \in Nodes /\ op[r].src \in Graphs /\ op[r].c \in Graphs
         /\ op[r].g = r /\ RootOf(r) = r /\ parent[r] = None
         /\ parent[op[r].c] = r /\ RootOf(op[r].c) = r /\ op[r].c # r
         /\ \A x \in Graphs : parent[x] = r => RootOf(x) = r
         /\ \A x \in Graphs : RootOf(x) = r => Pending(x) = {}
  BY CloneFacts, NothingAssumption DEF IndexInv, IInv, Staged, Typed, Pending, OpFacts, RootOf

\* A box comes into being, and the source's entries are copied.
LEMMA EmbedChildIndex ==
  ASSUME IndexInv, NEW r \in Graphs, EmbedChild(r)
  PROVE  Indexed' /\ Staged'
<1> DEFINE o == op[r]
<1>0. /\ o.kind = "embed" /\ o.ph = "child"
      /\ boxed' = [boxed EXCEPT ![o.c] = TRUE]
      /\ op' = [op EXCEPT ![r] = [o EXCEPT !.ph = "rekey", !.staged = meta[o.src]]]
      /\ UNCHANGED <<alive, parent, owner, params, refs, meta, owners, exec, launch, torn>>
  BY DEF EmbedChild
<1>1. /\ op[r] # NoOp /\ StagedOK(r) /\ TypeOK
      /\ o.src \in Graphs /\ o.c \in Graphs /\ RootOf(o.c) = r /\ o.g = r
      /\ \A x \in Graphs : RootOf(x) = r => Pending(x) = {}
  BY <1>0, CloneIndex
<1>c. PICK c \in Graphs : c = o.c
  BY <1>1
<1>2. /\ OnlyOp(r) /\ SameWork(op'[r], o)
      /\ op'[r].staged = meta[o.src] /\ op'[r].ph = "rekey"
  BY <1>0, <1>1, ChildOp DEF TypeOK
<1>3. \A x \in Graphs : x # c => Untouched(x)
  BY <1>0, <1>c DEF Untouched
<1>4. alive[c] = "live" /\ meta[c] = NoEntries
  BY <1>0, <1>1, <1>c DEF StagedOK
<1>5. \A x \in Graphs : RootOf(x) = r => ~Retiring(x)
  BY <1>0 DEF Retiring
<1>6. IndexOK(c)'
  <2>1. \A k \in Key : meta'[c][k] = None
    BY <1>0, <1>4 DEF NoEntries
  <2> QED
    BY <1>0, <1>4, <2>1, ShowsNothing DEF IndexOK
<1>7. ASSUME NEW x \in Graphs, RootOf(x) = r PROVE IndexOK(x)'
  <2>1. CASE x = c
    BY <1>6, <2>1
  <2>2. CASE x # c
    <3>1. Untouched(x) /\ Pending(x) \subseteq Pending(x)' /\ (Retiring(x) => Retiring(x)')
      BY <1>1, <1>3, <1>5, <1>7, <2>2
    <3> QED
      BY <1>0, <1>7, <3>1, IndexSame
  <2> QED
    BY <2>1, <2>2
<1>8. StagedOK(r)'
  <2>1. Slack' = Slack
    BY <1>0 DEF Slack
  <2> QED
    BY <1>0, <1>1, <1>2, <2>1 DEF StagedOK, SameWork
<1>9. ASSUME NEW x \in Graphs, RootOf(x) # r PROVE Untouched(x)
  BY <1>1, <1>3, <1>9, <1>c
<1> QED
  BY <1>0, <1>1, <1>2, <1>7, <1>8, <1>9, StepOf

\* The clone gets the source's entries, under its own name.
LEMMA EmbedRekeyIndex ==
  ASSUME IndexInv, NEW r \in Graphs, EmbedRekey(r)
  PROVE  Indexed' /\ Staged'
<1> DEFINE o == op[r]
<1>0. /\ o.kind = "embed" /\ o.ph = "rekey"
      /\ meta' = [meta EXCEPT ![o.c] = Rekeyed(o.staged, o.src, o.c)]
      /\ Done(r)
      /\ UNCHANGED <<alive, parent, owner, params, refs, boxed, owners, exec, launch, torn>>
  BY DEF EmbedRekey
<1>1. /\ OpFacts(r) /\ op[r] # NoOp /\ StagedOK(r) /\ TypeOK
      /\ o.src \in Graphs /\ o.c \in Graphs /\ RootOf(o.c) = r
      /\ \A x \in Graphs : RootOf(x) = r => Pending(x) = {}
  BY <1>0, CloneIndex
<1>c. PICK c \in Graphs, src \in Graphs, e \in [Key -> Versions \cup {None}] :
          c = o.c /\ src = o.src /\ e = o.staged
  BY <1>1 DEF OpFacts
<1>2. OnlyOp(r) /\ op'[r] = NoOp
  BY <1>0, <1>1, DoneOp DEF TypeOK
<1>3. \A x \in Graphs : meta'[x] = IF x = c THEN Rekeyed(e, src, c) ELSE meta[x]
  BY <1>0, <1>1, <1>c DEF TypeOK
<1>4. \A x \in Graphs : x # c => Untouched(x)
  BY <1>0, <1>3 DEF Untouched
<1>5. \A x \in Graphs : RootOf(x) = r => ~Retiring(x)
  BY <1>0 DEF Retiring
<1>6. IndexOK(c)'
  <2>1. Shows(e, src, params[c], refs[c], Slack, {}) /\ alive[c] = "live"
    BY <1>0, <1>1, <1>c DEF StagedOK
  <2>2. Shows(meta'[c], c, params[c], refs[c], Slack, {})
    BY <1>3, <2>1, RekeyedShows
  <2>3. Pending(c)' = {} /\ Slack' = Slack
    BY <1>0, <1>1, <1>2, <1>c, NoOpType DEF Slack, Pending, RootOf
  <2> QED
    BY <1>0, <2>1, <2>2, <2>3 DEF IndexOK
<1>7. ASSUME NEW x \in Graphs, RootOf(x) = r PROVE IndexOK(x)'
  <2>1. CASE x = c
    BY <1>6, <2>1
  <2>2. CASE x # c
    <3>1. Untouched(x) /\ Pending(x) \subseteq Pending(x)' /\ (Retiring(x) => Retiring(x)')
      BY <1>1, <1>4, <1>5, <1>7, <2>2
    <3> QED
      BY <1>0, <1>7, <3>1, IndexSame
  <2> QED
    BY <2>1, <2>2
<1>8. ASSUME NEW x \in Graphs, RootOf(x) # r PROVE Untouched(x)
  BY <1>1, <1>4, <1>8, <1>c
<1> QED
  BY <1>0, <1>1, <1>2, <1>7, <1>8, StepOf, OverStaged

\* A failure is on its way; nothing is shown yet.
LEMMA EmbedFailsIndex ==
  ASSUME IndexInv, NEW r \in Graphs, EmbedFails(r)
  PROVE  Indexed' /\ Staged'
<1> DEFINE o == op[r]
<1>0. /\ o.kind = "embed" /\ o.ph \in {"child", "rekey"} /\ Goto(r, "undo")
      /\ UNCHANGED <<alive, parent, owner, params, refs, boxed, meta, owners, exec, launch, torn>>
  BY DEF EmbedFails
<1>1. /\ op[r] # NoOp /\ StagedOK(r) /\ TypeOK
      /\ \A x \in Graphs : RootOf(x) = r => Pending(x) = {}
  BY <1>0, CloneIndex
<1>2. OnlyOp(r) /\ SameWork(op'[r], o) /\ op'[r].ph = "undo"
  BY <1>0, <1>1, GotoOp DEF TypeOK, Phases
<1>3. \A x \in Graphs : Untouched(x)
  BY <1>0 DEF Untouched
<1>4. ASSUME NEW x \in Graphs, RootOf(x) = r PROVE IndexOK(x)'
  <2>1. ~Retiring(x)
    BY <1>0, <1>4 DEF Retiring
  <2> QED
    BY <1>0, <1>1, <1>3, <1>4, <2>1, IndexSame
<1>5. StagedOK(r)'
  BY <1>0, <1>1, <1>2 DEF StagedOK, SameWork
<1> QED
  BY <1>0, <1>1, <1>2, <1>3, <1>4, <1>5, StepOf

\* The clone is gone, its box will be; its node never had an entry.
LEMMA EmbedUndoIndex ==
  ASSUME IndexInv, NEW r \in Graphs, EmbedUndo(r)
  PROVE  Indexed' /\ Staged'
<1> DEFINE o == op[r]
<1>0. /\ o.ph = "undo" /\ Goto(r, "invalidate")
      /\ alive' = [alive EXCEPT ![o.c] = "destroyed"]
      /\ params' = [params EXCEPT ![o.g][o.n] = Absent, ![o.c] = NoNodes]
      /\ refs' = [refs EXCEPT ![o.c] = {}]
      /\ UNCHANGED <<parent, owner, boxed, meta, owners, exec, launch, torn>>
  BY DEF EmbedUndo
<1>1. /\ OpFacts(r) /\ op[r] # NoOp /\ StagedOK(r) /\ TypeOK /\ o.kind = "embed"
      /\ o.g = r /\ o.n \in Nodes /\ o.c \in Graphs /\ o.c # r
      /\ RootOf(r) = r /\ RootOf(o.c) = r /\ parent[o.c] = r
      /\ \A x \in Graphs : RootOf(x) = r => Pending(x) = {}
  BY <1>0, CloneIndex DEF OpFacts
<1>c. PICK c \in Graphs, n \in Nodes : c = o.c /\ n = o.n
  BY <1>1
<1>2. OnlyOp(r) /\ SameWork(op'[r], o) /\ op'[r].ph = "invalidate"
  BY <1>0, <1>1, GotoOp DEF TypeOK, Phases
<1>3. /\ alive[r] = "live" /\ owner[c] = n /\ meta[r][<<r, n>>] = None
  BY <1>0, <1>1, <1>c DEF StagedOK
<1>4. \A x \in Graphs :
        /\ alive'[x] = IF x = c THEN "destroyed" ELSE alive[x]
        /\ refs'[x] = IF x = c THEN {} ELSE refs[x]
        /\ x # c /\ x # r => params'[x] = params[x]
  BY <1>0, <1>1, <1>c DEF TypeOK
<1>5. \A m \in Nodes : m # n => params'[r][m] = params[r][m]
  BY <1>0, <1>1, <1>c DEF TypeOK
<1>6. \A x \in Graphs : x # c /\ x # r => Untouched(x)
  BY <1>0, <1>4 DEF Untouched
<1>7. \A x \in Graphs : RootOf(x) = r => ~Retiring(x)
  BY <1>0 DEF Retiring
<1>8. IndexOK(r)'
  <2>1. Shows(meta[r], r, params[r], refs[r], Slack, {})
    BY <1>1, <1>3 DEF IndexInv, Indexed, IndexOK
  <2>2. \A k \in Key : k[2] \in Nodes /\ k = <<k[1], k[2]>>
    BY DEF Key
  <2>3. Shows(meta[r], r, params'[r], refs[r], Slack, {})
    BY <1>3, <1>5, <2>1, <2>2 DEF Shows
  <2>4. Slack' = Slack /\ refs'[r] = refs[r] /\ alive'[r] = "live"
    BY <1>0, <1>1, <1>3, <1>4, <1>c DEF Slack
  <2>5. Shows(meta'[r], r, params'[r], refs'[r], Slack', Pending(r)')
    BY <1>0, <2>3, <2>4, ShowsMore
  <2> QED
    BY <2>4, <2>5 DEF IndexOK
<1>9. IndexOK(c)'
  <2>1. RootOf(c)' = r /\ parent'[c] = r /\ owner'[c] = n /\ alive'[c] = "destroyed"
    BY <1>0, <1>1, <1>3, <1>4, <1>c DEF RootOf
  <2>2. Retiring(c)'
    BY <1>1, <1>2, <1>c, <2>1 DEF Retiring, SameWork
  <2> QED
    BY <2>1, <2>2 DEF IndexOK
<1>10. ASSUME NEW x \in Graphs, RootOf(x) = r PROVE IndexOK(x)'
  <2>1. CASE x = c \/ x = r
    BY <1>8, <1>9, <2>1
  <2>2. CASE x # c /\ x # r
    <3>1. Untouched(x) /\ Pending(x) \subseteq Pending(x)' /\ (Retiring(x) => Retiring(x)')
      BY <1>1, <1>6, <1>7, <1>10, <2>2
    <3> QED
      BY <1>0, <1>10, <3>1, IndexSame
  <2> QED
    BY <2>1, <2>2
<1>11. StagedOK(r)'
  <2>1. alive'[r] = "live" /\ meta' = meta
    BY <1>0, <1>1, <1>3, <1>4, <1>c
  <2> QED
    BY <1>1, <1>2, <1>3, <1>c, <2>1 DEF StagedOK, SameWork
<1>12. ASSUME NEW x \in Graphs, RootOf(x) # r PROVE Untouched(x)
  BY <1>1, <1>6, <1>12, <1>c
<1> QED
  BY <1>0, <1>1, <1>2, <1>10, <1>11, <1>12, StepOf

\* The new embedded graph shows nothing yet; the boxes of the old ones will be retired.
LEMMA SwapMutateIndex ==
  ASSUME IndexInv, NEW r \in Graphs, SwapMutate(r)
  PROVE  Indexed' /\ Staged'
<1> DEFINE o == op[r]
           old == OwnedBy(o.g, o.n)
<1>t. Typed /\ TypeOK /\ Tree
  BY DEF IndexInv, IInv, Typed
<1>0. o.kind = "swap" /\ o.ph = "mutate" /\ alive[o.c] = "none" /\ Goto(r, "commit")
  BY DEF SwapMutate
<1>u. UNCHANGED <<boxed, meta, owners, exec, launch, torn>>
  BY DEF SwapMutate
<1>1. /\ OpFacts(r) /\ op[r] # NoOp /\ StagedOK(r)
      /\ o.g \in Graphs /\ o.n \in Nodes /\ o.src \in Graphs /\ o.c \in Graphs
      /\ RootOf(o.g) = r /\ parent[o.g] = None /\ alive[o.g] = "live"
      /\ \A x \in Graphs : parent[x] = o.g => RootOf(x) = r
  BY <1>0, OwnGraphs, NothingAssumption DEF OpFacts, Locked, IndexInv, Staged, StagedOK
<1>g. o.g = r
  BY <1>1 DEF RootOf
<1>c. PICK c \in Graphs, n \in Nodes, src \in Graphs : c = o.c /\ n = o.n /\ src = o.src
  BY <1>1
<1>2. OnlyOp(r) /\ SameWork(op'[r], o) /\ op'[r].staged = o.staged /\ op'[r].ph = "commit"
  BY <1>0, <1>t, GotoOp DEF TypeOK, Phases
<1>3. \A x \in Graphs :
        /\ alive'[x] = IF x = c THEN "live" ELSE IF x \in old THEN "destroyed" ELSE alive[x]
        /\ refs'[x] = IF x = c THEN refs[src] ELSE IF x \in old THEN {} ELSE refs[x]
        /\ params'[x] = IF x = c THEN params[src] ELSE IF x \in old THEN NoNodes ELSE params[x]
        /\ parent'[x] = IF x = c THEN r ELSE parent[x]
        /\ owner'[x] = IF x = c THEN n ELSE owner[x]
        /\ x \in old => alive[x] = "live" /\ parent[x] = r /\ owner[x] = n
  BY <1>1, <1>c, <1>g, <1>t DEF SwapMutate, DriverClone, TypeOK, OwnedBy, Embedded
<1>4. c # r /\ meta[c] = NoEntries /\ r \notin old /\ parent[c] = None /\ RootOf(c) # r
  BY <1>0, <1>1, <1>3, <1>c, <1>g, <1>t, NothingAssumption DEF Tree, RootOf
<1> HIDE DEF old
<1>5. \A x \in Graphs : x # c /\ x \notin old => Untouched(x)
  BY <1>3, <1>u DEF Untouched
<1>6. \A x \in Graphs : RootOf(x) = r => ~Retiring(x) /\ Pending(x) = {}
  BY <1>0 DEF Retiring, Pending
<1>7. IndexOK(c)'
  <2>1. \A k \in Key : meta'[c][k] = None
    BY <1>4, <1>u DEF NoEntries
  <2> QED
    BY <1>3, <2>1, ShowsNothing DEF IndexOK
<1>8. ASSUME NEW x \in Graphs, x # c, RootOf(x) = r PROVE IndexOK(x)'
  <2>1. CASE x \in old
    <3>1. RootOf(x)' = r /\ parent'[x] = r /\ owner'[x] = n /\ alive'[x] = "destroyed"
      BY <1>1, <1>3, <1>8, <2>1, NothingAssumption DEF RootOf
    <3>2. Retiring(x)'
      BY <1>2, <1>c, <1>g, <3>1 DEF Retiring, SameWork
    <3> QED
      BY <3>1, <3>2 DEF IndexOK
  <2>2. CASE x \notin old
    <3>1. Untouched(x) /\ Pending(x) \subseteq Pending(x)' /\ (Retiring(x) => Retiring(x)')
      BY <1>5, <1>6, <1>8, <2>2
    <3> QED
      BY <1>u, <1>8, <3>1, IndexSame
  <2> QED
    BY <2>1, <2>2
<1>9. StagedOK(r)'
  <2>1. Slack' = Slack /\ alive'[r] = "live"
    BY <1>1, <1>3, <1>4, <1>g, <1>u DEF Slack
  <2>2. Shows(o.staged, src, params[src], refs[src], Slack, {})
    BY <1>0, <1>1, <1>c DEF StagedOK
  <2>3. Shows(o.staged, src, params'[c], refs'[c], Slack', {})
    BY <1>3, <2>1, <2>2
  <2>4. /\ op'[r].src = src /\ op'[r].g = r /\ op'[r].c = c /\ op'[r].n = n
        /\ op'[r].kind = "swap" /\ op'[r].staged = o.staged /\ op'[r].ph = "commit"
    BY <1>0, <1>2, <1>c, <1>g DEF SameWork
  <2>5. alive'[c] = "live" /\ owner'[c] = n /\ meta'[c] = NoEntries
    BY <1>3, <1>4, <1>u
  <2> QED
    BY <2>1, <2>3, <2>4, <2>5 DEF StagedOK
<1>10. ASSUME NEW x \in Graphs, RootOf(x) # r, x # c PROVE Untouched(x)
  <2>1. x \notin old
    BY <1>1, <1>3, <1>10, <1>g
  <2> QED
    BY <1>5, <1>10, <2>1
<1>11. alive[c] = "none"
  BY <1>0, <1>c
<1> QED
  BY <1>1, <1>2, <1>7, <1>8, <1>9, <1>10, <1>11, <1>u, StepOf

\* The new embedded graph is shown, or has no box; the old boxes are retired.
LEMMA SwapCommitIndex ==
  ASSUME IndexInv, NEW r \in Graphs, SwapCommit(r)
  PROVE  Indexed' /\ Staged'
<1> DEFINE o == op[r]
<1>0. o.ph = "commit" /\ Done(r)
  BY DEF SwapCommit
<1>u. UNCHANGED <<alive, parent, owner, params, refs, owners, exec, launch, torn>>
  BY DEF SwapCommit
<1>1. /\ OpFacts(r) /\ op[r] # NoOp /\ StagedOK(r) /\ TypeOK
      /\ o.g = r /\ o.n \in Nodes /\ o.src \in Graphs /\ o.c \in Graphs /\ RootOf(o.c) = r
      /\ \A x \in Graphs : parent[x] = r => RootOf(x) = r
      /\ \A x \in Graphs : RootOf(x) = r => Pending(x) = {}
  BY <1>0, CloneIndex
<1>c. PICK c \in Graphs, n \in Nodes, src \in Graphs, e \in [Key -> Versions \cup {None}] :
          c = o.c /\ n = o.n /\ src = o.src /\ e = o.staged
  BY <1>1 DEF OpFacts
<1> DEFINE old == {x \in Graphs : parent[x] = r /\ owner[x] = n} \ {c}
<1>2. OnlyOp(r) /\ op'[r] = NoOp
  BY <1>0, <1>1, DoneOp DEF TypeOK
<1>3. PICK found \in BOOLEAN :
        \A x \in Graphs :
          /\ boxed'[x] = IF x = c THEN found ELSE boxed[x] /\ x \notin old
          /\ meta'[x] = IF x = c /\ found THEN Rekeyed(e, src, c)
                        ELSE IF x \in old THEN NoEntries ELSE meta[x]
  <2>1. old = {x \in Graphs : parent[x] = o.g /\ owner[x] = o.n} \ {o.c}
    BY <1>1, <1>c
  <2> HIDE DEF old
  <2> QED
    BY ZenonT(60), <1>c, <2>1 DEF SwapCommit
<1>4. /\ \A x \in old : RootOf(x) = r
      /\ \A x \in Graphs : Retiring(x) /\ RootOf(x) = r /\ x # c => x \in old
      /\ c \notin old
  BY <1>1, <1>c DEF Retiring
<1>5. \A k \in Key : NoEntries[k] = None
  BY DEF NoEntries
<1> HIDE DEF old
<1>6. \A x \in Graphs : x # c /\ x \notin old => Untouched(x)
  BY <1>1, <1>3, <1>u DEF Untouched, TypeOK
<1>7. IndexOK(c)'
  <2>1. /\ Shows(e, src, params[c], refs[c], Slack, {})
        /\ alive[c] = "live" /\ meta[c] = NoEntries
    BY <1>0, <1>1, <1>c DEF StagedOK
  <2>2. Shows(meta'[c], c, params[c], refs[c], Slack, {})
    <3>1. CASE found
      <4>1. meta'[c] = Rekeyed(e, src, c)
        BY <1>3, <3>1
      <4> QED
        BY <2>1, <4>1, RekeyedShows
    <3>2. CASE ~found
      <4>1. \A k \in Key : meta'[c][k] = None
        BY <1>3, <1>4, <1>5, <2>1, <3>2
      <4> QED
        BY <4>1, ShowsNothing
    <3> QED
      BY <3>1, <3>2
  <2>3. Pending(c)' = {} /\ Slack' = Slack
    BY <1>u, <1>1, <1>2, <1>c, NoOpType DEF Slack, Pending, RootOf
  <2> QED
    BY <1>u, <2>1, <2>2, <2>3 DEF IndexOK
<1>8. ASSUME NEW x \in Graphs, RootOf(x) = r PROVE IndexOK(x)'
  <2>1. CASE x = c
    BY <1>7, <2>1
  <2>2. CASE x # c /\ x \in old
    <3>1. meta'[x] = NoEntries /\ ~boxed'[x]
      BY <1>3, <2>2
    <3> QED
      BY <1>5, <3>1, ShowsNothing DEF IndexOK
  <2>3. CASE x # c /\ x \notin old
    <3>1. Untouched(x) /\ Pending(x) \subseteq Pending(x)' /\ (Retiring(x) => Retiring(x)')
      BY <1>1, <1>4, <1>6, <1>8, <2>3
    <3> QED
      BY <1>u, <1>8, <3>1, IndexSame
  <2> QED
    BY <2>1, <2>2, <2>3
<1>9. ASSUME NEW x \in Graphs, RootOf(x) # r PROVE Untouched(x)
  BY <1>1, <1>4, <1>6, <1>9, <1>c
<1> QED
  BY <1>u, <1>1, <1>2, <1>8, <1>9, StepOf, OverStaged

\* The source's entries are copied while nobody works on the source.
LEMMA SwapPrepareIndex ==
  ASSUME IndexInv, NEW g \in Graphs, NEW src \in Graphs, NEW c \in Graphs, NEW n \in Nodes,
         SwapPrepare(g, n, src, c)
  PROVE  Indexed' /\ Staged'
<1>t. Typed /\ TypeOK
  BY DEF IndexInv, IInv, Typed
<1>u. UNCHANGED <<alive, parent, owner, params, refs, boxed, meta, owners, exec, launch, torn>>
  BY DEF SwapPrepare
<1>1. OnlyOp(g) /\ StartsClone(op'[g], "swap", "mutate", g, n, src, c, meta[src])
  BY <1>t, SwapOp, OpIs DEF SwapPrepare, TypeOK
<1>2. Idle(g) /\ RootOf(g) = g /\ Usable(g) /\ Usable(src)
  BY EmbeddableFacts DEF SwapPrepare, IndexInv, Embeddable
<1>3. /\ alive[g] = "live" /\ op[g] = NoOp
      /\ Shows(meta[src], src, params[src], refs[src], Slack, {})
  BY <1>2, UsableShows DEF IndexInv
<1>4. \A x \in Graphs : Untouched(x)
  BY <1>u DEF Untouched
<1>5. ASSUME NEW x \in Graphs, RootOf(x) = g PROVE IndexOK(x)'
  <2>1. ~Retiring(x) /\ Pending(x) = {}
    BY <1>3, <1>5, NoOpType DEF Retiring, Pending
  <2> QED
    BY <1>u, <1>4, <1>5, <2>1, IndexSame
<1>6. StagedOK(g)'
  <2>1. Slack' = Slack
    BY <1>u DEF Slack
  <2> QED
    BY <1>1, <1>3, <1>u, <2>1 DEF StagedOK, StartsClone
<1> QED
  BY <1>u, <1>1, <1>2, <1>4, <1>5, <1>6, StepOf

\* The new node has no entry, and neither has the clone.
LEMMA EmbedAddIndex ==
  ASSUME IndexInv, NEW g \in Graphs, NEW src \in Graphs, NEW c \in Graphs, NEW n \in Nodes,
         EmbedAdd(g, n, src, c)
  PROVE  Indexed' /\ Staged'
<1>t. Typed /\ TypeOK /\ Tree
  BY DEF IndexInv, IInv, Typed
<1>u. UNCHANGED <<boxed, meta, owners, exec, launch, torn>>
  BY DEF EmbedAdd
<1>1. OnlyOp(g) /\ StartsClone(op'[g], "embed", "child", g, n, src, c, NoEntries)
  BY <1>t, EmbedOp, OpIs DEF EmbedAdd, TypeOK
<1>2. /\ Idle(g) /\ RootOf(g) = g /\ parent[g] = None /\ Usable(g) /\ Usable(src)
      /\ params[g][n] = Absent
      /\ src # g /\ alive[c] = "none" /\ c # g /\ c # src
      /\ parent[c] = None /\ meta[c] = NoEntries
  BY <1>t, EmbeddableFacts DEF EmbedAdd, IndexInv, Embeddable, Tree
<1>3. /\ alive[g] = "live" /\ op[g] = NoOp
      /\ Shows(meta[g], g, params[g], refs[g], Slack, {})
      /\ Shows(meta[src], src, params[src], refs[src], Slack, {})
  BY <1>2, UsableShows DEF IndexInv
<1>4. \A x \in Graphs :
        /\ alive'[x] = IF x = c THEN "live" ELSE alive[x]
        /\ refs'[x] = IF x = c THEN refs[src] ELSE refs[x]
        /\ parent'[x] = IF x = c THEN g ELSE parent[x]
        /\ owner'[x] = IF x = c THEN n ELSE owner[x]
        /\ x = c => params'[x] = params[src]
        /\ x # c /\ x # g => params'[x] = params[x]
  BY <1>t, <1>2 DEF EmbedAdd, DriverClone, TypeOK
<1>5. \A m \in Nodes : m # n => params'[g][m] = params[g][m]
  BY <1>t, <1>2 DEF EmbedAdd, TypeOK
<1>6. meta[g][<<g, n>>] = None
  <2>1. <<g, n>> \in Key /\ <<g, n>>[2] = n
    BY DEF Key
  <2>2. meta[g][<<g, n>>] \in Versions \cup {None}
    BY ZenonT(60), <2>1, <1>t DEF TypeOK
  <2>3. Absent \notin Slack
    BY <1>t, NothingAssumption DEF Slack, TypeOK
  <2> QED
    BY <1>2, <1>3, <2>1, <2>2, <2>3, NothingAssumption DEF Shows
<1>7. \A x \in Graphs : x # c /\ x # g => Untouched(x)
  BY <1>4, <1>u DEF Untouched
<1>8. \A x \in Graphs : RootOf(x) = g => ~Retiring(x) /\ Pending(x) = {}
  BY <1>3, NoOpType DEF Retiring, Pending
<1>9. Slack' = Slack
  BY <1>u DEF Slack
<1>10. IndexOK(g)'
  <2>1. \A k \in Key : k[2] \in Nodes /\ k = <<k[1], k[2]>>
    BY DEF Key
  <2>2. Shows(meta[g], g, params'[g], refs[g], Slack, {})
    BY <1>3, <1>5, <1>6, <2>1 DEF Shows
  <2>3. refs'[g] = refs[g] /\ alive'[g] = "live"
    BY <1>2, <1>3, <1>4
  <2>4. Shows(meta'[g], g, params'[g], refs'[g], Slack', Pending(g)')
    BY <1>9, <1>u, <2>2, <2>3, ShowsMore
  <2> QED
    BY <2>3, <2>4 DEF IndexOK
<1>11. IndexOK(c)'
  <2>1. \A k \in Key : meta'[c][k] = None
    BY <1>2, <1>u DEF NoEntries
  <2> QED
    BY <1>4, <2>1, ShowsNothing DEF IndexOK
<1>12. ASSUME NEW x \in Graphs, RootOf(x) = g, x # c PROVE IndexOK(x)'
  <2>1. CASE x = g
    BY <1>10, <2>1
  <2>2. CASE x # g
    <3>1. Untouched(x) /\ Pending(x) \subseteq Pending(x)' /\ (Retiring(x) => Retiring(x)')
      BY <1>7, <1>8, <1>12, <2>2
    <3> QED
      BY <1>u, <1>12, <3>1, IndexSame
  <2> QED
    BY <2>1, <2>2
<1>13. StagedOK(g)'
  <2>1. Shows(meta'[src], src, params'[c], refs'[c], Slack', {})
    BY <1>3, <1>4, <1>9, <1>u
  <2>2. alive'[g] = "live" /\ alive'[c] = "live" /\ owner'[c] = n /\ meta'[c] = NoEntries
        /\ meta'[g][<<g, n>>] = None
    BY <1>2, <1>3, <1>4, <1>6, <1>u
  <2> QED
    BY <1>1, <2>1, <2>2 DEF StagedOK, StartsClone
<1>14. ASSUME NEW x \in Graphs, RootOf(x) # g, x # c PROVE Untouched(x)
  BY <1>2, <1>7, <1>14
<1> QED
  BY <1>1, <1>2, <1>11, <1>12, <1>13, <1>14, <1>u, StepOf

\* Without graphs and operations there is nothing to show.
LEMMA IndexInit == Init => IndexInv
<1> SUFFICES ASSUME Init PROVE IndexInv
  OBVIOUS
<1>1. \A g \in Graphs : alive[g] = "none" /\ op[g] = NoOp
  BY DEF Init
<1> QED
  BY <1>1, InvInit, NoOpType DEF IndexInv, Indexed, IndexOK, Staged, StagedOK

\* Every action keeps the index right, by the lemmas above.
LEMMA IndexNext == IndexInv /\ [Next]_vars => IndexInv'
<1> SUFFICES ASSUME IndexInv, [Next]_vars PROVE Indexed' /\ Staged'
  BY InvNext DEF IndexInv
<1>1. ASSUME NEW g \in Graphs, CreateGraph(g) \/ CloseGraph(g) \/ DiscoverChild(g)
      PROVE  Indexed' /\ Staged'
  BY <1>1, CreateIndex, CloseIndex
<1>2. ASSUME NEW r \in Graphs, Continue(r) PROVE Indexed' /\ Staged'
  BY <1>2, MutateIndex, MutateFailsIndex, PublishIndex, FailureIndex, ReleaseIndex, InvalidateIndex,
     EmbedChildIndex, EmbedRekeyIndex, EmbedFailsIndex, EmbedUndoIndex,
     SwapMutateIndex, SwapCommitIndex
  DEF Continue
<1>3. ASSUME NEW g \in Graphs, NEW n \in Nodes, StartNode(g, n) PROVE Indexed' /\ Staged'
  BY <1>3, PrepareIndex, OtherIndex DEF StartNode
<1>4. ASSUME NEW g \in Graphs, NEW src \in Graphs, NEW c \in Graphs, NEW n \in Nodes,
             EmbedAdd(g, n, src, c) \/ SwapPrepare(g, n, src, c)
      PROVE  Indexed' /\ Staged'
  BY <1>4, EmbedAddIndex, SwapPrepareIndex
<1>5. ASSUME \/ \E g, e : Instantiate(g, e) \/ ExecUpdate(g, e)
             \/ \E e, l : ExecDestroy(e) \/ Launch(e, l) \/ Complete(l)
             \/ \E v : EnqueueCleanup(v)
             \/ Drain
             \/ UNCHANGED vars
      PROVE  Indexed' /\ Staged'
  BY <1>5, OtherIndex
<1> QED
  BY <1>1, <1>2, <1>3, <1>4, <1>5 DEF Next

\* The second inductive invariant holds in every reachable state.
LEMMA IndexAlways == Spec => []IndexInv
  BY IndexInit, IndexNext, PTL DEF Spec

\* An entry of the index points to an attachment its graph retains, or is on its
\* way out by the operation that destroyed the graph, whatever calls fail.
THEOREM IndexNeverDangles == Spec => []MetadataNeverDangles
<1>1. ASSUME IndexInv PROVE MetadataNeverDangles
  <2> SUFFICES ASSUME NEW g \in Graphs, NEW k \in Key, meta[g][k] # None
               PROVE  \/ meta[g][k] \in refs[g]
                      \/ /\ alive[g] = "destroyed"
                         /\ op[RootOf(g)].g = parent[g] /\ op[RootOf(g)].n = owner[g]
    BY DEF MetadataNeverDangles
  <2>1. NoEntries[k] = None
    BY DEF NoEntries
  <2>2. alive[g] \in {"live", "destroyed"}
    BY <1>1, <2>1 DEF IndexInv, IInv, Typed, TypeOK, Tree
  <2>3. CASE alive[g] = "live"
    BY <1>1, <2>3 DEF IndexInv, Indexed, IndexOK, Shows
  <2>4. CASE alive[g] = "destroyed"
    BY <1>1, <2>1, <2>4 DEF IndexInv, Indexed, IndexOK, Retiring
  <2> QED
    BY <2>2, <2>3, <2>4
<1> QED
  BY <1>1, IndexAlways, PTL

\* What a lookup finds is the version the node has now, never one of a former
\* node of the same handle or an earlier version; the exception is the node a
\* failed restore left between two versions.
THEOREM LookupsAreCurrent == Spec => []LookupIsCurrent
<1>1. ASSUME IndexInv PROVE LookupIsCurrent
  <2> SUFFICES ASSUME NEW g \in Graphs, Usable(g), NEW k \in Key, meta[g][k] # None
               PROVE  k[1] = g /\ params[g][k[2]] \in {meta[g][k]} \cup Slack
    BY DEF LookupIsCurrent, Slack
  <2>1. Shows(meta[g], g, params[g], refs[g], Slack, {})
    BY <1>1, UsableShows DEF IndexInv
  <2> QED
    BY <2>1 DEF Shows
<1> QED
  BY <1>1, IndexAlways, PTL

-----------------------------------------------------------------------------
(* Where only preparations and CUDA calls fail the index is complete and a  *)
(* graph retains nothing but what its nodes use.                            *)

OnlyClean == Faults \subseteq {"create", "retain", "mutate"}

\* The entries of e name the version of every node of x, but for some nodes.
Covers(e, x, p, but) ==
    \A n \in Nodes : n \notin but /\ p[n] \in Versions => e[<<x, n>>] = p[n]

\* g is a clone whose entries are on their way.
Busy(g) == LET o == op[RootOf(g)] IN o.ph \in {"child", "rekey", "undo", "commit"} /\ o.c = g

\* What g retains for the operation under way only: the version that is prepared,
\* or the one that is replaced.
Extra(g) ==
    LET o == op[RootOf(g)] IN
    IF o.g # g THEN {}
    ELSE IF o.ph = "mutate" /\ o.kind \in {"add", "set", "host", "destroy"} THEN {o.v} \cap Versions
    ELSE IF o.ph = "publish" THEN {meta[g][<<g, o.n>>]} \cap Versions
    ELSE IF o.ph = "release" THEN {o.prev} \cap Versions
    ELSE {}

ExactOK(g) ==
    /\ alive[g] = "none" => params[g] = NoNodes /\ refs[g] = {}
    /\ alive[g] = "live" =>
          /\ refs[g] = VersionsOf(g) \cup Extra(g)
          /\ ~Busy(g) => boxed[g] /\ Covers(meta[g], g, params[g], Pending(g))

\* What an operation will publish is complete, and what it will retire is dead.
WholeOK(r) ==
    LET o == op[r] IN
    /\ o.ph # "undo"
    /\ (o.ph \in {"publish", "release"} /\ o.kind = "destroy") \/ o.ph = "invalidate" =>
          OwnedBy(o.g, o.n) = {}
    /\ o.ph = "child" => alive[o.src] = "live" /\ Covers(meta[o.src], o.src, params[o.c], {})
    /\ o.ph = "rekey" => boxed[o.c]
    /\ o.ph \in {"rekey", "commit"} => Covers(o.staged, o.src, params[o.c], {})
    /\ o.ph = "commit" => OwnedBy(o.g, o.n) \subseteq {o.c}
    /\ o.kind = "swap" /\ o.ph = "mutate" =>
          alive[o.src] = "live" /\ Covers(o.staged, o.src, params[o.src], {})

Exact == \A g \in Graphs : ExactOK(g)
Whole == \A r \in Graphs : WholeOK(r)

ExactInv == IndexInv /\ Exact /\ Whole

\* g is exactly what it was.
Same(g) == Untouched(g) /\ refs'[g] = refs[g]

\* A graph on whose hierarchy nothing that matters happens.
LEMMA ExactKept ==
  ASSUME NEW g \in Graphs, ExactOK(g), Same(g), Extra(g)' = Extra(g),
         Pending(g) \subseteq Pending(g)', Busy(g) => Busy(g)'
  PROVE  ExactOK(g)'
<1>1. VersionsOf(g)' = VersionsOf(g)
  BY DEF VersionsOf, Same, Untouched
<1> QED
  BY <1>1 DEF ExactOK, Same, Untouched, Covers

\* ... in particular if its operation is not the one that goes on.
LEMMA ExactFrame ==
  ASSUME NEW g \in Graphs, ExactOK(g), Same(g), op'[RootOf(g)] = op[RootOf(g)]
  PROVE  ExactOK(g)'
<1>1. RootOf(g)' = RootOf(g)
  BY DEF RootOf, Same, Untouched
<1>2. Extra(g)' = Extra(g) /\ Pending(g)' = Pending(g) /\ (Busy(g) => Busy(g)')
  BY <1>1 DEF Extra, Pending, Busy, Same, Untouched
<1> QED
  BY <1>2, ExactKept

\* The graphs that exist after a step are those that did, or clones in the graph r.
Stays(x) == alive[x] = "live" /\ parent'[x] = parent[x] /\ owner'[x] = owner[x]
Comes(r) ==
    \A x \in Graphs : alive'[x] = "live" =>
        Stays(x) \/ parent'[x] = None \/ (parent'[x] = r /\ RootOf(r) = r)

\* What another operation has in hand stays complete.
LEMMA WholeFrame ==
  ASSUME IInv, NEW r \in Graphs, NEW q \in Graphs, q # r, WholeOK(q), op'[q] = op[q], Comes(r),
         op[q].kind # "idle" => Same(op[q].g),
         op[q].src # None => Same(op[q].src),
         op[q].ph \in {"child", "rekey", "undo", "commit"} => Same(op[q].c)
  PROVE  WholeOK(q)'
<1> DEFINE o == op[q]
<1>1. OpFacts(q) /\ Locked(q)
  BY OpFactsHold DEF IInv, Operations
<1>2. o.kind \in {"embed", "swap"} => o.src # None
  BY <1>1, NothingAssumption DEF OpFacts
<1>3. ASSUME o.kind # "idle" PROVE OwnedBy(o.g, o.n)' \subseteq OwnedBy(o.g, o.n)
  <2>1. o.g \in Graphs /\ RootOf(o.g) = q
    BY <1>1, <1>3 DEF Locked, OpFacts
  <2>2. ASSUME NEW x \in Graphs, parent'[x] = o.g, alive'[x] = "live", owner'[x] = o.n
        PROVE  x \in OwnedBy(o.g, o.n)
    BY <2>1, <2>2, NothingAssumption DEF Comes, Stays, OwnedBy, Embedded
  <2> QED
    BY <2>2 DEF OwnedBy, Embedded
<1>4. o.ph = "child" => alive'[o.src] = "live" /\ Covers(meta'[o.src], o.src, params'[o.c], {})
  BY <1>1, <1>2 DEF WholeOK, Same, Untouched, Covers, OpFacts
<1>5. /\ o.ph = "rekey" => boxed'[o.c]
      /\ o.ph \in {"rekey", "commit"} => Covers(o.staged, o.src, params'[o.c], {})
  BY DEF WholeOK, Same, Untouched, Covers
<1>6. o.kind = "swap" /\ o.ph = "mutate" =>
          alive'[o.src] = "live" /\ Covers(o.staged, o.src, params'[o.src], {})
  BY <1>2 DEF WholeOK, Same, Untouched, Covers
<1>7. /\ (o.ph \in {"publish", "release"} /\ o.kind = "destroy") \/ o.ph = "invalidate" =>
            OwnedBy(o.g, o.n)' = {}
      /\ o.ph = "commit" => OwnedBy(o.g, o.n)' \subseteq {o.c}
  BY <1>1, <1>3 DEF WholeOK, OpFacts
<1>8. OwnedBy(o.g, o.n)' = {c \in {x \in Graphs : parent'[x] = o.g /\ alive'[x] = "live"} : owner'[c] = o.n}
  BY DEF OwnedBy, Embedded
<1> QED
  BY <1>4, <1>5, <1>6, <1>7, <1>8 DEF WholeOK, OwnedBy, Embedded

\* A step of the operation of r, or one that starts it.
LEMMA ExactStep ==
  ASSUME ExactInv, NEW r \in Graphs, OnlyOp(r), op[r] # NoOp \/ Idle(r), Comes(r),
         \A x \in Graphs : alive[x] # "none" /\ RootOf(x) # r => Same(x),
         \A x \in Graphs : ExactOK(x)' \/ (RootOf(x) # r /\ Same(x)),
         WholeOK(r)'
  PROVE  Exact' /\ Whole'
<1>t. IInv /\ Typed /\ TypeOK
  BY DEF ExactInv, IndexInv, IInv, Typed
<1>1. \A x \in Graphs : RootOf(x) \in Graphs
  BY <1>t DEF RootOf, TypeOK
<1>2. Exact'
  BY <1>1, ExactFrame DEF ExactInv, Exact, OnlyOp
<1>3. ASSUME NEW q \in Graphs \ {r} PROVE WholeOK(q)'
  <2>1. OpFacts(q) /\ Locked(q) /\ WholeOK(q)
    BY <1>t, OpFactsHold DEF IInv, Operations, ExactInv, Whole
  <2>2. op[q].src # None =>
            op[q].src \in Graphs /\ alive[op[q].src] # "none" /\ RootOf(op[q].src) # r
    BY <1>1, <2>1 DEF OpFacts, Locked, Idle
  <2>3. op[q].kind # "idle" => op[q].g \in Graphs /\ alive[op[q].g] # "none" /\ RootOf(op[q].g) # r
    BY <2>1 DEF Locked, OpFacts
  <2>4. ASSUME op[q].ph \in {"child", "rekey", "undo", "commit"}
        PROVE  op[q].c \in Graphs /\ alive[op[q].c] # "none" /\ RootOf(op[q].c) = q
    BY <1>t, <2>4, CloneFacts
  <2> QED
    BY <1>t, <2>1, <2>2, <2>3, <2>4, WholeFrame DEF OnlyOp
<1> QED
  BY <1>2, <1>3 DEF Whole

\* No operation has nothing to publish.
LEMMA OverWhole == ASSUME NEW r \in Graphs, op'[r] = NoOp PROVE WholeOK(r)'
  BY NoOpType DEF WholeOK

\* A step that changes no graph, no operation and no entry of the index.
LEMMA ExactQuiet ==
  ASSUME ExactInv, UNCHANGED <<alive, parent, owner, params, refs, boxed, meta, op>>
  PROVE  Exact' /\ Whole'
<1>1. Exact'
  BY DEF ExactInv, Exact, ExactOK, VersionsOf, Extra, Busy, Covers, Pending, RootOf
<1>2. Whole'
  BY DEF ExactInv, Whole, WholeOK, Covers, OwnedBy, Embedded
<1> QED
  BY <1>1, <1>2

\* Between operations the index is complete, and nothing extra is retained.
LEMMA UsableExact ==
  ASSUME ExactInv, NEW g \in Graphs, Usable(g)
  PROVE  refs[g] = VersionsOf(g) /\ boxed[g] /\ Covers(meta[g], g, params[g], {})
<1>1. alive[g] = "live" /\ op[RootOf(g)] = NoOp
  BY UsableShows DEF ExactInv, IndexInv
<1>2. Extra(g) = {} /\ Pending(g) = {} /\ ~Busy(g)
  BY <1>1, NoOpType DEF Extra, Pending, Busy
<1>3. ExactOK(g)
  BY DEF ExactInv, Exact
<1> QED
  BY <1>1, <1>2, <1>3 DEF ExactOK

\* No operation leaves a node between two versions.
LEMMA NoSlack == OnlyClean => Slack = {}
  BY DEF OnlyClean, Slack

\* The operation o has nothing in hand that g retains.
Aside(o, g) == o.g # g \/ o.ph \notin {"mutate", "publish", "release"}

\* A graph of the operation's hierarchy that the step leaves alone.
LEMMA ExactAside ==
  ASSUME Exact, NEW r \in Graphs, NEW x \in Graphs, RootOf(x) = r, Same(x),
         Aside(op[r], x), Aside(op'[r], x), Busy(x) => Busy(x)'
  PROVE  ExactOK(x)'
<1>1. RootOf(x)' = r
  BY DEF RootOf, Same, Untouched
<1>2. Extra(x) = {} /\ Extra(x)' = {} /\ Pending(x) = {}
  BY <1>1 DEF Extra, Pending, Aside
<1> QED
  BY <1>2, ExactKept DEF Exact

\* Only a step that makes graphs or embeds them may let any come.
LEMMA NoneComes ==
  ASSUME NEW r \in Graphs, UNCHANGED <<parent, owner>>,
         \A x \in Graphs : alive'[x] = "live" => alive[x] = "live"
  PROVE  Comes(r)
  BY DEF Comes, Stays

\* A new graph has no nodes; no graph is ever found that has no box.
LEMMA CreateExact ==
  ASSUME ExactInv, NEW g \in Graphs, CreateGraph(g) \/ DiscoverChild(g)
  PROVE  Exact' /\ Whole'
<1>t. TypeOK /\ Tree /\ Operations /\ Typed
  BY DEF ExactInv, IndexInv, IInv, Typed
<1>1. CASE CreateGraph(g)
  <2>1. /\ alive[g] = "none" /\ params[g] = NoNodes /\ refs[g] = {} /\ parent[g] = None
        /\ UNCHANGED <<parent, owner, params, refs, meta, op>>
    BY <1>1, <1>t DEF CreateGraph, ExactInv, Exact, ExactOK, Tree
  <2>2. /\ \A x \in Graphs \ {g} : Same(x) /\ alive'[x] = alive[x]
        /\ alive'[g] = "live" /\ boxed'[g] = TRUE
    BY <1>1, <1>t DEF CreateGraph, TypeOK, Same, Untouched
  <2>3. \A x \in Graphs : alive[x] # "none" => RootOf(x) # g
    BY <1>t, <2>1 DEF RootOf, Tree
  <2>4. ASSUME NEW q \in Graphs PROVE /\ op[q].kind # "idle" => op[q].g # g
                                      /\ op[q].src # None => RootOf(op[q].src) # g
                                      /\ op[q].ph # "idle" => op[q].kind # "idle"
                                      /\ op[q].kind = "idle" => op[q] = NoOp
    BY <1>t, <2>1, <2>3, OpFactsHold DEF Operations, Locked, OpFacts
  <2>5. op[g] # NoOp \/ Idle(g)
    BY <2>4, NoOpType DEF Idle
  <2>6. ExactOK(g)'
    <3>1. RootOf(g)' = g /\ VersionsOf(g)' = {}
      BY <2>1, NothingAssumption DEF RootOf, VersionsOf, NoNodes
    <3>2. Extra(g)' = {}
      BY <2>1, <2>4, <3>1 DEF Extra
    <3>3. \A m \in Nodes : params'[g][m] \notin Versions
      BY <2>1, NothingAssumption DEF NoNodes
    <3> QED
      BY <2>1, <2>2, <3>1, <3>2, <3>3 DEF ExactOK, Covers
  <2>7. ASSUME NEW x \in Graphs PROVE ExactOK(x)'
    BY <2>1, <2>2, <2>6, ExactFrame DEF ExactInv, Exact
  <2>8. ASSUME NEW q \in Graphs PROVE WholeOK(q)'
    <3>1. OpFacts(q) /\ Locked(q) /\ WholeOK(q)
      BY <1>t, OpFactsHold DEF Operations, ExactInv, Whole
    <3>2. \A p \in Graphs : \A m : OwnedBy(p, m)' \subseteq OwnedBy(p, m)
      BY <2>1, <2>2, NothingAssumption DEF OwnedBy, Embedded
    <3>3. op[q].ph \in {"child", "rekey", "undo", "commit"} => op[q].c # g /\ op[q].c \in Graphs
      BY <2>1, CloneFacts DEF ExactInv, IndexInv
    <3>4. \A x \in Graphs : alive[x] = "live" => alive'[x] = "live"
      BY <2>1, <2>2
    <3>5. /\ op[q].ph = "rekey" => boxed'[op[q].c]
          /\ op[q].kind \in {"embed", "swap"} => op[q].src \in Graphs
      BY <2>2, <3>1, <3>3 DEF WholeOK, OpFacts, Same, Untouched
    <3>6. /\ (op[q].ph \in {"publish", "release"} /\ op[q].kind = "destroy") \/ op[q].ph = "invalidate" =>
                OwnedBy(op[q].g, op[q].n)' = {}
          /\ op[q].ph = "commit" => OwnedBy(op[q].g, op[q].n)' \subseteq {op[q].c}
      <4>1. op[q].ph # "idle" => op[q].g \in Graphs
        BY <3>1 DEF OpFacts
      <4>2. PICK o : o = op[q] /\ o = op'[q]
        BY <2>1
      <4>3. \A m : o.g \in Graphs => OwnedBy(o.g, m)' \subseteq OwnedBy(o.g, m)
        BY <3>2
      <4> QED
        BY <3>1, <4>1, <4>2, <4>3 DEF WholeOK
    <3> QED
      BY <2>1, <3>1, <3>4, <3>5, <3>6 DEF WholeOK, Covers, OpFacts
  <2> QED
    BY <2>7, <2>8 DEF Exact, Whole
<1>2. CASE DiscoverChild(g)
  <2>1. alive[g] = "live" /\ ~boxed[g] /\ parent[g] \in Graphs /\ Usable(parent[g])
    BY <1>2, <1>t DEF DiscoverChild, TypeOK
  <2>2. RootOf(g) = parent[g] /\ RootOf(parent[g]) = parent[g]
    BY <2>1, <1>t, NothingAssumption DEF RootOf, Tree
  <2>3. op[RootOf(g)] = NoOp
    BY <2>1, <2>2, UsableShows DEF ExactInv, IndexInv
  <2>4. ~Busy(g)
    BY <2>3, NoOpType DEF Busy
  <2> QED
    BY <2>1, <2>4 DEF ExactInv, Exact, ExactOK
<1> QED
  BY <1>1, <1>2

\* A closed hierarchy retains nothing.
LEMMA CloseExact ==
  ASSUME ExactInv, NEW r \in Graphs, CloseGraph(r)
  PROVE  Exact' /\ Whole'
<1> DEFINE ds == {r} \cup Embedded(r)
<1>t. Typed /\ TypeOK /\ Tree
  BY DEF ExactInv, IndexInv, IInv, Typed
<1>u. UNCHANGED <<parent, owner, op>>
  BY DEF CloseGraph
<1>1. boxed[r] /\ parent[r] = None /\ Idle(r) /\ DriverDestroy(ds) /\ Retire(ds)
  BY DEF CloseGraph
<1>2. \A x \in ds : x \in Graphs /\ RootOf(x) = r
  BY <1>1, <1>t, NothingAssumption DEF Embedded, RootOf
<1>3. \A x \in Graphs :
        /\ alive'[x] = IF x \in ds THEN "destroyed" ELSE alive[x]
        /\ params'[x] = IF x \in ds THEN NoNodes ELSE params[x]
        /\ refs'[x] = IF x \in ds THEN {} ELSE refs[x]
        /\ boxed'[x] = (boxed[x] /\ x \notin ds)
        /\ meta'[x] = IF x \in ds THEN NoEntries ELSE meta[x]
  BY <1>1 DEF DriverDestroy, Retire
<1>4. \A x \in Graphs : x \notin ds => Same(x)
  BY <1>3, <1>u, <1>t DEF Same, Untouched, TypeOK
<1> HIDE DEF ds
<1>5. ASSUME NEW x \in Graphs PROVE ExactOK(x)'
  <2>1. CASE x \in ds
    BY <1>3, <2>1 DEF ExactOK
  <2>2. CASE x \notin ds
    BY <1>4, <1>u, <2>2, ExactFrame DEF ExactInv, Exact
  <2> QED
    BY <2>1, <2>2
<1>6. OnlyOp(r) /\ op'[r] = NoOp
  BY <1>1, <1>u, <1>t, OpFactsHold DEF OnlyOp, TypeOK, Idle, OpFacts
<1>7. Comes(r)
  BY <1>3, <1>u, NoneComes
<1> QED
  BY <1>1, <1>2, <1>4, <1>5, <1>6, <1>7, ExactStep, OverWhole

\* What is not a graph's does not count.
LEMMA OtherExact ==
  ASSUME ExactInv,
         \/ \E g, n, k, v : CreateFails(g, n, k, v) \/ RetainFails(g, n, k, v)
         \/ \E g, e : Instantiate(g, e) \/ ExecUpdate(g, e)
         \/ \E e, l : ExecDestroy(e) \/ Launch(e, l) \/ Complete(l)
         \/ \E v : EnqueueCleanup(v)
         \/ Drain
         \/ UNCHANGED vars
  PROVE  Exact' /\ Whole'
<1>1. UNCHANGED <<alive, parent, owner, params, refs, boxed, meta, op>>
  BY DEF CreateFails, RetainFails, Instantiate, ExecUpdate, ExecDestroy, Launch, Complete,
         EnqueueCleanup, Drain, vars
<1> QED
  BY <1>1, ExactQuiet

\* The failures that are left: none that is lost track of.
LEMMA FailureExact ==
  ASSUME ExactInv, OnlyClean, NEW r \in Graphs,
         TailFails(r) \/ UndoFails(r) \/ SwapRejected(r) \/ RestoreFails(r) \/ EmbedFails(r) \/ EmbedUndo(r)
  PROVE  Exact' /\ Whole'
<1> DEFINE o == op[r]
<1>1. WholeOK(r)
  BY DEF ExactInv, Whole
<1>2. SwapRejected(r)
  BY <1>1 DEF OnlyClean, WholeOK, TailFails, UndoFails, RestoreFails, EmbedFails, EmbedUndo
<1>3. /\ o.kind = "swap" /\ o.ph = "mutate" /\ Done(r)
      /\ UNCHANGED <<alive, parent, owner, params, refs, boxed, meta>>
  BY <1>2 DEF SwapRejected
<1>4. OnlyOp(r) /\ op'[r] = NoOp /\ op[r] # NoOp
  BY <1>3, DoneOp, NoOpType DEF ExactInv, IndexInv, IInv, Typed, TypeOK
<1>5. \A x \in Graphs : Same(x) /\ RootOf(x)' = RootOf(x)
  BY <1>3 DEF Same, Untouched, RootOf
<1>6. ASSUME NEW x \in Graphs, RootOf(x) = r PROVE ExactOK(x)'
  <2>1. Extra(x) = {} /\ Pending(x) = {} /\ ~Busy(x)
    BY <1>3, <1>6 DEF Extra, Pending, Busy
  <2>2. Extra(x)' = {}
    BY <1>4, <1>5, <1>6, NoOpType DEF Extra
  <2> QED
    BY <1>5, <2>1, <2>2, ExactKept DEF ExactInv, Exact
<1>7. Comes(r)
  BY <1>3, NoneComes
<1> QED
  BY <1>4, <1>5, <1>6, <1>7, ExactStep, OverWhole

\* The version that is prepared is the only one retained beside the nodes'.
LEMMA PrepareExact ==
  ASSUME ExactInv, NEW g \in Graphs, NEW n \in Nodes, NEW k \in {"add", "set", "host", "destroy"},
         NEW v \in Versions \cup {None}, Prepare(g, n, k, v)
  PROVE  Exact' /\ Whole'
<1>t. Typed /\ TypeOK
  BY DEF ExactInv, IndexInv, IInv, Typed
<1>r. PICK r \in Graphs : r = RootOf(g)
  BY <1>t DEF RootOf, TypeOK
<1>0. /\ Idle(r) /\ Usable(g)
      /\ refs' = [refs EXCEPT ![g] = @ \cup ({v} \cap Versions)]
      /\ op' = [op EXCEPT ![r] = [NewOp(k, "mutate", g, n) EXCEPT !.v = v]]
      /\ UNCHANGED <<alive, parent, owner, params, boxed, meta>>
  BY <1>r DEF Prepare, Usable
<1>1. OnlyOp(r) /\ StartsNode(op'[r], k, g, n, v)
  BY <1>0, <1>t, PrepareOp, OpIs DEF TypeOK
<1>2. op[r] = NoOp
  BY <1>0, <1>r, UsableShows DEF ExactInv, IndexInv
<1>3. \A x \in Graphs : /\ x # g => Same(x)
                        /\ RootOf(x)' = RootOf(x) /\ VersionsOf(x)' = VersionsOf(x)
  BY <1>0, <1>t DEF Same, Untouched, RootOf, VersionsOf, TypeOK
<1>4. ExactOK(g)'
  <2>1. refs[g] = VersionsOf(g) /\ boxed[g] /\ Covers(meta[g], g, params[g], {})
    BY <1>0, UsableExact
  <2>2. refs'[g] = refs[g] \cup ({v} \cap Versions) /\ Extra(g)' = {v} \cap Versions
    BY <1>0, <1>1, <1>3, <1>r, <1>t DEF StartsNode, Extra, TypeOK
  <2>3. UNCHANGED <<alive, params, boxed, meta>> /\ VersionsOf(g)' = VersionsOf(g)
    BY <1>0, <1>3
  <2>4. alive[g] = "live"
    BY <1>0, UsableShows DEF ExactInv, IndexInv
  <2> QED
    BY <2>1, <2>2, <2>3, <2>4 DEF ExactOK, Covers
<1>5. ASSUME NEW x \in Graphs, RootOf(x) = r PROVE ExactOK(x)'
  <2>1. CASE x = g
    BY <1>4, <2>1
  <2>2. CASE x # g
    <3>1. Aside(op[r], x) /\ Aside(op'[r], x) /\ ~Busy(x)
      BY <1>1, <1>2, <1>5, <2>2, NoOpType DEF Aside, StartsNode, Busy
    <3> QED
      BY <1>3, <1>5, <2>2, <3>1, ExactAside DEF ExactInv
  <2> QED
    BY <2>1, <2>2
<1>6. WholeOK(r)'
  BY <1>1 DEF WholeOK, StartsNode
<1>7. Comes(r)
  BY <1>0, NoneComes
<1> QED
  BY <1>0, <1>1, <1>3, <1>5, <1>6, <1>7, <1>r, ExactStep

\* A rollback takes back what was prepared.
LEMMA MutateFailsExact ==
  ASSUME ExactInv, NEW r \in Graphs, MutateFails(r)
  PROVE  Exact' /\ Whole'
<1> DEFINE o == op[r]
<1>t. Typed /\ TypeOK
  BY DEF ExactInv, IndexInv, IInv, Typed
<1>0. /\ o.ph = "mutate" /\ o.kind \in {"add", "set", "host", "destroy"} /\ Mutating(r)
      /\ Rollback(r) /\ Done(r)
      /\ UNCHANGED <<alive, parent, owner, params, boxed, meta>>
  BY DEF MutateFails, Mutating
<1>1. OnlyOp(r) /\ op'[r] = NoOp
  BY <1>0, DoneOp, <1>t DEF TypeOK
<1>2. /\ OpFacts(r) /\ PhaseOK(r) /\ op[r] # NoOp /\ StagedOK(r)
      /\ o.g \in Graphs /\ RootOf(o.g) = r
  BY <1>0, OwnGraphs DEF ExactInv, IndexInv, Staged
<1>g. PICK g \in Graphs : g = o.g
  BY <1>2
<1>3. o.v # None => o.v \notin VersionsOf(g)
  BY <1>0, <1>2, <1>g DEF PhaseOK, VersionsOf
<1>4. \A x \in Graphs :
        /\ refs'[x] = IF x = g THEN refs[x] \ {o.v} ELSE refs[x]
        /\ x # g => Same(x)
        /\ RootOf(x)' = RootOf(x) /\ VersionsOf(x)' = VersionsOf(x)
  BY <1>0, <1>g, <1>t DEF Rollback, Same, Untouched, RootOf, VersionsOf, TypeOK
<1>5. ExactOK(g)'
  <2>1. alive[g] = "live" /\ Pending(g) = {} /\ ~Busy(g) /\ Extra(g) = {o.v} \cap Versions
    BY <1>0, <1>2, <1>g DEF StagedOK, Pending, Busy, Extra
  <2>2. refs[g] = VersionsOf(g) \cup Extra(g) /\ boxed[g] /\ Covers(meta[g], g, params[g], {})
    BY <2>1 DEF ExactInv, Exact, ExactOK
  <2>3. refs'[g] = VersionsOf(g)
    BY <1>3, <1>4, <2>1, <2>2, NothingAssumption DEF VersionsOf
  <2>4. Extra(g)' = {}
    BY <1>1, <1>2, <1>4, <1>g, NoOpType DEF Extra
  <2>5. UNCHANGED <<alive, params, boxed, meta>> /\ VersionsOf(g)' = VersionsOf(g)
    BY <1>0, <1>4
  <2> QED
    BY <2>1, <2>2, <2>3, <2>4, <2>5 DEF ExactOK, Covers
<1>6. ASSUME NEW x \in Graphs, RootOf(x) = r PROVE ExactOK(x)'
  <2>1. CASE x = g
    BY <1>5, <2>1
  <2>2. CASE x # g
    <3>1. Aside(op[r], x) /\ Aside(op'[r], x) /\ ~Busy(x)
      BY <1>0, <1>1, <1>6, <1>g, <2>2, NoOpType DEF Aside, Busy
    <3> QED
      BY <1>4, <1>6, <2>2, <3>1, ExactAside DEF ExactInv
  <2> QED
    BY <2>1, <2>2
<1>7. Comes(r)
  BY <1>0, NoneComes
<1> QED
  BY <1>1, <1>2, <1>4, <1>6, <1>7, <1>g, ExactStep, OverWhole

\* What the node had is the entry that will be replaced.
LEMMA MutateExact ==
  ASSUME ExactInv, OnlyClean, NEW r \in Graphs, Mutate(r)
  PROVE  Exact' /\ Whole'
<1> DEFINE o == op[r]
           ds == IF o.kind = "destroy" THEN OwnedBy(o.g, o.n) ELSE {}
<1>t. Typed /\ TypeOK /\ Tree
  BY DEF ExactInv, IndexInv, IInv, Typed
<1>0. /\ Goto(r, "publish") /\ o.ph = "mutate" /\ o.kind \in {"add", "set", "host", "destroy"}
      /\ Mutating(r) /\ UNCHANGED <<parent, owner, boxed, meta>>
  BY DEF Mutate, Mutating
<1>1. OnlyOp(r) /\ SameWork(op'[r], o) /\ op'[r].ph = "publish"
  BY <1>0, <1>t, GotoOp DEF TypeOK, Phases
<1>2. /\ OpFacts(r) /\ PhaseOK(r) /\ op[r] # NoOp /\ StagedOK(r)
      /\ o.g \in Graphs /\ o.n \in Nodes /\ RootOf(o.g) = r
      /\ \A x \in Graphs : parent[x] = o.g => RootOf(x) = r
  BY <1>0, OwnGraphs DEF ExactInv, IndexInv, Staged
<1>g. PICK g \in Graphs, n \in Nodes : g = o.g /\ n = o.n
  BY <1>2
<1>3. \A x \in Graphs :
        /\ alive'[x] = IF x \in ds THEN "destroyed" ELSE alive[x]
        /\ refs'[x] = IF x \in ds THEN {} ELSE refs[x]
        /\ x \in ds => parent[x] = g
        /\ x \notin ds /\ x # g => params'[x] = params[x]
  <2>1. CASE o.kind = "destroy"
    BY <1>t, <1>g, <2>1 DEF Mutate, TypeOK, OwnedBy, Embedded
  <2>2. CASE o.kind # "destroy"
    BY <1>t, <1>g, <2>2 DEF Mutate, TypeOK
  <2> QED
    BY <2>1, <2>2
<1>4. g \notin ds
  BY <1>3, <1>t, NothingAssumption DEF Tree
<1>5. \A m \in Nodes : params'[g][m] = IF m # n THEN params[g][m]
                                       ELSE IF o.kind = "destroy" THEN Absent ELSE o.v
  <2>1. CASE o.kind = "destroy"
    BY <1>t, <1>g, <1>4, <2>1 DEF Mutate, TypeOK
  <2>2. CASE o.kind # "destroy"
    BY <1>t, <1>g, <2>2 DEF Mutate, TypeOK
  <2> QED
    BY <2>1, <2>2
<1>6. o.kind = "destroy" => OwnedBy(g, n)' = {}
  BY <1>0, <1>3, <1>g DEF OwnedBy, Embedded
<1> HIDE DEF ds
<1>7. \A x \in Graphs : RootOf(x)' = RootOf(x) /\ (x # g /\ x \notin ds => Same(x))
  BY <1>0, <1>3 DEF RootOf, Same, Untouched
<1> DEFINE p == meta[g][<<g, n>>]
<1>8. ExactOK(g)'
  <2>1. alive[g] = "live" /\ Pending(g) = {} /\ ~Busy(g) /\ Extra(g) = {o.v} \cap Versions
    BY <1>0, <1>2, <1>g DEF StagedOK, Pending, Busy, Extra
  <2>2. refs[g] = VersionsOf(g) \cup Extra(g) /\ boxed[g] /\ Covers(meta[g], g, params[g], {})
    BY <2>1 DEF ExactInv, Exact, ExactOK
  <2>3. Shows(meta[g], g, params[g], refs[g], {}, {})
    BY <2>1, NoSlack DEF ExactInv, IndexInv, Indexed, IndexOK
  <2>4. \A w \in Versions : params[g][n] = w <=> p = w
    <3>1. <<g, n>> \in Key /\ <<g, n>>[2] = n
      BY DEF Key
    <3> QED
      BY <2>2, <2>3, <3>1, NothingAssumption DEF Covers, Shows
  <2>5. o.kind = "destroy" => o.v \notin Versions
    BY <1>2, NothingAssumption DEF StagedOK
  <2>6. \A w \in Versions : w \in VersionsOf(g)' <=> \E m \in Nodes : params'[g][m] = w
    BY DEF VersionsOf
  <2>7. \A w \in Versions : w \in VersionsOf(g) <=> \E m \in Nodes : params[g][m] = w
    BY DEF VersionsOf
  <2>8. \A w \in Versions : w \in VersionsOf(g) \/ w = o.v <=> w \in VersionsOf(g)' \/ w = p
    BY <1>5, <2>4, <2>5, <2>6, <2>7, NothingAssumption
  <2>9. Extra(g)' = {p} \cap Versions /\ Pending(g)' = {n}
    BY <1>0, <1>1, <1>2, <1>7, <1>g DEF Extra, Pending, SameWork
  <2>10. refs'[g] = VersionsOf(g)' \cup Extra(g)'
    <3>1. refs'[g] = refs[g] /\ VersionsOf(g) \subseteq Versions /\ VersionsOf(g)' \subseteq Versions
      BY <1>3, <1>4 DEF VersionsOf
    <3> QED
      BY <2>1, <2>2, <2>8, <2>9, <3>1
  <2>11. Covers(meta[g], g, params'[g], {n})
    BY <1>5, <2>2 DEF Covers
  <2>12. alive'[g] = "live" /\ boxed'[g] /\ meta'[g] = meta[g]
    BY <1>0, <1>3, <1>4, <2>1, <2>2
  <2> QED
    BY <2>9, <2>10, <2>11, <2>12 DEF ExactOK
<1>9. ASSUME NEW x \in Graphs, RootOf(x) = r PROVE ExactOK(x)'
  <2>1. CASE x \in ds
    BY <1>3, <2>1 DEF ExactOK
  <2>2. CASE x # g /\ x \notin ds
    <3>1. Aside(op[r], x) /\ Aside(op'[r], x) /\ ~Busy(x)
      BY <1>0, <1>1, <1>9, <1>g, <2>2 DEF Aside, Busy, SameWork
    <3> QED
      BY <1>7, <1>9, <2>2, <3>1, ExactAside DEF ExactInv
  <2> QED
    BY <1>8, <2>1, <2>2
<1>10. WholeOK(r)'
  <2>1. op'[r].g = g /\ op'[r].n = n /\ op'[r].kind = o.kind
    BY <1>1, <1>g DEF SameWork
  <2> QED
    BY <1>0, <1>1, <1>6, <2>1 DEF WholeOK, OwnedBy, Embedded
<1>11. Comes(r)
  BY <1>0, <1>3, NoneComes
<1>12. ASSUME NEW x \in Graphs, RootOf(x) # r PROVE Same(x)
  <2>1. x \notin ds /\ x # g
    BY <1>2, <1>3, <1>12, <1>g
  <2> QED
    BY <1>7, <2>1
<1> QED
  BY <1>1, <1>2, <1>9, <1>10, <1>11, <1>12, ExactStep

\* The node's version has its entry; the previous one is still retained.
LEMMA PublishExact ==
  ASSUME ExactInv, NEW r \in Graphs, Publish(r)
  PROVE  Exact' /\ Whole'
<1> DEFINE o == op[r]
           prev == meta[o.g][<<o.g, o.n>>]
<1>t. Typed /\ TypeOK
  BY DEF ExactInv, IndexInv, IInv, Typed
<1>0. /\ o.ph = "publish"
      /\ meta' = [meta EXCEPT ![o.g][<<o.g, o.n>>] = o.v]
      /\ op' = [op EXCEPT ![r] = AfterPublish(o, prev)]
      /\ UNCHANGED <<alive, parent, owner, params, refs, boxed>>
  BY DEF Publish
<1>1. /\ PhaseOK(r) /\ op[r] # NoOp /\ StagedOK(r) /\ WholeOK(r)
      /\ o.g \in Graphs /\ o.n \in Nodes /\ RootOf(o.g) = r /\ o.kind # "idle"
      /\ <<o.g, o.n>> \in Key
  BY <1>0, OwnGraphs DEF Key, ExactInv, IndexInv, Staged, Whole
<1>g. PICK g \in Graphs, n \in Nodes : g = o.g /\ n = o.n
  BY <1>1
<1>2. prev \in Versions \cup {None}
  BY ZenonT(60), <1>1, <1>t DEF TypeOK
<1>3. /\ OnlyOp(r)
      /\ \/ op'[r] = NoOp /\ prev = None
         \/ SameWork(op'[r], o) /\ op'[r].ph = "invalidate" /\ o.kind = "destroy" /\ prev = None
         \/ SameWork(op'[r], o) /\ op'[r].ph = "release" /\ op'[r].prev = prev
  BY <1>0, <1>2, <1>t, AfterPublishOp, AfterPublishKind DEF TypeOK
<1>4. /\ \A k \in Key : meta'[g][k] = IF k = <<g, n>> THEN o.v ELSE meta[g][k]
      /\ \A x \in Graphs : x # g => meta'[x] = meta[x]
  BY <1>0, <1>1, <1>g, <1>t DEF TypeOK
<1>5. \A x \in Graphs : /\ x # g => Same(x)
                        /\ RootOf(x)' = RootOf(x) /\ VersionsOf(x)' = VersionsOf(x)
  BY <1>0, <1>4 DEF Same, Untouched, RootOf, VersionsOf
<1>6. ExactOK(g)'
  <2>1. /\ alive[g] = "live" /\ Pending(g) = {n} /\ ~Busy(g) /\ Extra(g) = {prev} \cap Versions
    BY <1>0, <1>1, <1>g DEF StagedOK, Pending, Busy, Extra
  <2>2. refs[g] = VersionsOf(g) \cup Extra(g) /\ boxed[g] /\ Covers(meta[g], g, params[g], {n})
    BY <2>1 DEF ExactInv, Exact, ExactOK
  <2>3. Extra(g)' = {prev} \cap Versions
    <3>1. op'[r] = NoOp => Extra(g)' = {}
      BY <1>1, <1>5, <1>g, NoOpType DEF Extra
    <3>2. SameWork(op'[r], o) /\ op'[r].ph = "invalidate" => Extra(g)' = {}
      BY <1>1, <1>5, <1>g DEF Extra
    <3>3. SameWork(op'[r], o) /\ op'[r].ph = "release" /\ op'[r].prev = prev => Extra(g)' = {prev} \cap Versions
      BY <1>1, <1>5, <1>g DEF Extra, SameWork
    <3> QED
      BY <1>3, <3>1, <3>2, <3>3, NothingAssumption
  <2>4. ASSUME NEW m \in Nodes, params[g][m] \in Versions PROVE meta'[g][<<g, m>>] = params[g][m]
    <3>1. <<g, m>> \in Key /\ (<<g, m>> = <<g, n>> <=> m = n)
      BY DEF Key
    <3>2. params[g][n] \in Versions => params[g][n] = o.v
      BY <1>0, <1>1, <1>g, NothingAssumption DEF PhaseOK
    <3>3. m # n => meta[g][<<g, m>>] = params[g][m]
      BY <2>2, <2>4 DEF Covers
    <3> QED
      BY <1>4, <2>4, <3>1, <3>2, <3>3
  <2>5. UNCHANGED <<alive, refs, boxed, params>> /\ VersionsOf(g)' = VersionsOf(g)
    BY <1>0, <1>5
  <2> QED
    BY <2>1, <2>2, <2>3, <2>4, <2>5 DEF ExactOK, Covers
<1>7. ASSUME NEW x \in Graphs, RootOf(x) = r PROVE ExactOK(x)'
  <2>1. CASE x = g
    BY <1>6, <2>1
  <2>2. CASE x # g
    <3>1. Aside(op[r], x) /\ Aside(op'[r], x) /\ ~Busy(x)
      BY <1>0, <1>3, <1>7, <1>g, <2>2, NoOpType DEF Aside, Busy, SameWork
    <3> QED
      BY <1>5, <1>7, <2>2, <3>1, ExactAside DEF ExactInv
  <2> QED
    BY <2>1, <2>2
<1>8. WholeOK(r)'
  <2>1. OwnedBy(g, n)' = OwnedBy(g, n)
    BY <1>0 DEF OwnedBy, Embedded
  <2>2. o.kind = "destroy" => OwnedBy(g, n) = {}
    BY <1>0, <1>1, <1>g DEF WholeOK
  <2>3. ASSUME SameWork(op'[r], o), op'[r].ph \in {"invalidate", "release"},
               op'[r].ph = "invalidate" => o.kind = "destroy"
        PROVE  WholeOK(r)'
    <3>1. op'[r].g = g /\ op'[r].n = n /\ op'[r].kind = o.kind
      BY <1>g, <2>3 DEF SameWork
    <3> QED
      BY <2>1, <2>2, <2>3, <3>1 DEF WholeOK, OwnedBy, Embedded
  <2> QED
    BY <1>3, <2>3, OverWhole
<1>9. Comes(r)
  BY <1>0, NoneComes
<1> QED
  BY <1>1, <1>3, <1>5, <1>7, <1>8, <1>9, <1>g, ExactStep

\* The previous version was retained for this operation only.
LEMMA ReleaseExact ==
  ASSUME ExactInv, NEW r \in Graphs, ReleasePrevious(r)
  PROVE  Exact' /\ Whole'
<1> DEFINE o == op[r]
<1>t. Typed /\ TypeOK
  BY DEF ExactInv, IndexInv, IInv, Typed
<1>0. /\ o.ph = "release"
      /\ refs' = [refs EXCEPT ![o.g] = @ \ {o.prev}]
      /\ op' = [op EXCEPT ![r] = AfterPublish(o, None)]
      /\ UNCHANGED <<alive, parent, owner, params, boxed, meta>>
  BY DEF ReleasePrevious
<1>1. /\ PhaseOK(r) /\ op[r] # NoOp /\ StagedOK(r) /\ WholeOK(r)
      /\ o.g \in Graphs /\ o.n \in Nodes /\ RootOf(o.g) = r /\ o.kind # "idle"
  BY <1>0, OwnGraphs DEF ExactInv, IndexInv, Staged, Whole
<1>g. PICK g \in Graphs, n \in Nodes : g = o.g /\ n = o.n
  BY <1>1
<1>2. /\ OnlyOp(r)
      /\ \/ op'[r] = NoOp
         \/ SameWork(op'[r], o) /\ op'[r].ph = "invalidate" /\ o.kind = "destroy"
  BY <1>0, <1>t, AfterPublishOp, AfterPublishKind DEF TypeOK
<1>3. \A x \in Graphs :
        /\ refs'[x] = IF x = g THEN refs[x] \ {o.prev} ELSE refs[x]
        /\ x # g => Same(x)
        /\ RootOf(x)' = RootOf(x) /\ VersionsOf(x)' = VersionsOf(x)
  BY <1>0, <1>g, <1>t DEF Same, Untouched, RootOf, VersionsOf, TypeOK
<1>4. ExactOK(g)'
  <2>1. alive[g] = "live" /\ Pending(g) = {} /\ ~Busy(g) /\ Extra(g) = {o.prev} \cap Versions
    BY <1>0, <1>1, <1>g DEF StagedOK, Pending, Busy, Extra
  <2>2. refs[g] = VersionsOf(g) \cup Extra(g) /\ boxed[g] /\ Covers(meta[g], g, params[g], {})
    BY <2>1 DEF ExactInv, Exact, ExactOK
  <2>3. o.prev \notin VersionsOf(g)
    BY <1>0, <1>1, <1>g DEF PhaseOK, VersionsOf
  <2>4. refs'[g] = VersionsOf(g)
    BY <1>3, <2>1, <2>2, <2>3
  <2>5. Extra(g)' = {}
    <3>1. op'[r].ph \in {"idle", "invalidate"}
      BY <1>2, NoOpType
    <3> QED
      BY <1>1, <1>3, <1>g, <3>1 DEF Extra
  <2>6. UNCHANGED <<alive, params, boxed, meta>> /\ VersionsOf(g)' = VersionsOf(g)
    BY <1>0, <1>3
  <2> QED
    BY <2>1, <2>2, <2>4, <2>5, <2>6 DEF ExactOK, Covers
<1>5. ASSUME NEW x \in Graphs, RootOf(x) = r PROVE ExactOK(x)'
  <2>1. CASE x = g
    BY <1>4, <2>1
  <2>2. CASE x # g
    <3>1. Aside(op[r], x) /\ Aside(op'[r], x) /\ ~Busy(x)
      BY <1>0, <1>2, <1>5, <1>g, <2>2, NoOpType DEF Aside, Busy, SameWork
    <3> QED
      BY <1>3, <1>5, <2>2, <3>1, ExactAside DEF ExactInv
  <2> QED
    BY <2>1, <2>2
<1>6. WholeOK(r)'
  <2>1. OwnedBy(g, n)' = OwnedBy(g, n)
    BY <1>0 DEF OwnedBy, Embedded
  <2>2. o.kind = "destroy" => OwnedBy(g, n) = {}
    BY <1>0, <1>1, <1>g DEF WholeOK
  <2>3. ASSUME SameWork(op'[r], o), op'[r].ph = "invalidate", o.kind = "destroy"
        PROVE  WholeOK(r)'
    <3>1. op'[r].g = g /\ op'[r].n = n /\ op'[r].kind = o.kind
      BY <1>g, <2>3 DEF SameWork
    <3> QED
      BY <2>1, <2>2, <2>3, <3>1 DEF WholeOK, OwnedBy, Embedded
  <2> QED
    BY <1>2, <2>3, OverWhole
<1>7. Comes(r)
  BY <1>0, NoneComes
<1> QED
  BY <1>1, <1>2, <1>3, <1>5, <1>6, <1>7, <1>g, ExactStep

\* Only boxes of graphs that CUDA has destroyed are retired.
LEMMA InvalidateExact ==
  ASSUME ExactInv, NEW r \in Graphs, Invalidate(r)
  PROVE  Exact' /\ Whole'
<1> DEFINE o == op[r]
           bs == {c \in Graphs : parent[c] = o.g /\ owner[c] = o.n}
<1>t. Typed /\ TypeOK /\ Tree
  BY DEF ExactInv, IndexInv, IInv, Typed
<1>0. /\ o.ph = "invalidate" /\ Retire(bs) /\ Done(r)
      /\ UNCHANGED <<alive, parent, owner, params, refs>>
  BY DEF Invalidate
<1>1. op[r] # NoOp /\ o.g \in Graphs /\ WholeOK(r) /\ \A x \in bs : RootOf(x) = r
  BY <1>0, OwnGraphs DEF ExactInv, IndexInv, Whole
<1>2. OnlyOp(r) /\ op'[r] = NoOp
  BY <1>0, <1>t, DoneOp DEF TypeOK
<1>3. \A x \in bs : x \in Graphs /\ alive[x] # "live"
  BY <1>0, <1>1 DEF WholeOK, OwnedBy, Embedded
<1>4. \A x \in bs : alive[x] # "none"
  BY <1>1, <1>t, NothingAssumption DEF Tree
<1> HIDE DEF bs
<1>5. \A x \in Graphs : x \notin bs => Same(x)
  BY <1>0, <1>t DEF Retire, Same, Untouched, TypeOK
<1>6. ASSUME NEW x \in Graphs, RootOf(x) = r PROVE ExactOK(x)'
  <2>1. CASE x \in bs
    BY <1>0, <1>3, <1>4, <2>1 DEF ExactOK
  <2>2. CASE x \notin bs
    <3>1. Aside(op[r], x) /\ Aside(op'[r], x) /\ ~Busy(x)
      BY <1>0, <1>2, <1>6, NoOpType DEF Aside, Busy
    <3> QED
      BY <1>5, <1>6, <2>2, <3>1, ExactAside DEF ExactInv
  <2> QED
    BY <2>1, <2>2
<1>7. Comes(r)
  BY <1>0, NoneComes
<1> QED
  BY <1>1, <1>2, <1>5, <1>6, <1>7, ExactStep, OverWhole

\* The source's entries, once moved to the clone, cover the clone.
LEMMA RekeyedCovers ==
  ASSUME NEW e, NEW src \in Graphs, NEW c \in Graphs, NEW p, Covers(e, src, p, {})
  PROVE  Covers(Rekeyed(e, src, c), c, p, {})
<1>1. \A m \in Nodes : Rekeyed(e, src, c)[<<c, m>>] = e[<<src, m>>]
  BY DEF Rekeyed, Key
<1> QED
  BY <1>1 DEF Covers

\* The clone retains what its original does, and its original is usable.
LEMMA EmbedAddExact ==
  ASSUME ExactInv, NEW g \in Graphs, NEW src \in Graphs, NEW c \in Graphs, NEW n \in Nodes,
         EmbedAdd(g, n, src, c)
  PROVE  Exact' /\ Whole'
<1>t. Typed /\ TypeOK /\ Tree
  BY DEF ExactInv, IndexInv, IInv, Typed
<1>1. OnlyOp(g) /\ StartsClone(op'[g], "embed", "child", g, n, src, c, NoEntries)
  BY <1>t, EmbedOp, OpIs DEF EmbedAdd, TypeOK
<1>2. /\ Idle(g) /\ RootOf(g) = g /\ parent[g] = None /\ Usable(g) /\ Usable(src)
      /\ params[g][n] = Absent /\ g # None
      /\ src # g /\ alive[c] = "none" /\ c # g /\ c # src /\ RootOf(c) # g
  BY <1>t, EmbeddableFacts, NothingAssumption
  DEF EmbedAdd, ExactInv, IndexInv, Embeddable, Tree, RootOf
<1>3. /\ alive[g] = "live" /\ op[g] = NoOp /\ alive[src] = "live"
      /\ refs[g] = VersionsOf(g) /\ boxed[g] /\ Covers(meta[g], g, params[g], {})
      /\ refs[src] = VersionsOf(src) /\ Covers(meta[src], src, params[src], {})
  BY <1>2, UsableExact, UsableShows DEF ExactInv, IndexInv
<1>4. \A x \in Graphs :
        /\ alive'[x] = IF x = c THEN "live" ELSE alive[x]
        /\ refs'[x] = IF x = c THEN refs[src] ELSE refs[x]
        /\ parent'[x] = IF x = c THEN g ELSE parent[x]
        /\ owner'[x] = IF x = c THEN n ELSE owner[x]
        /\ boxed'[x] = boxed[x] /\ meta'[x] = meta[x]
        /\ x = c => params'[x] = params[src]
        /\ x # c /\ x # g => params'[x] = params[x]
  BY <1>t, <1>2 DEF EmbedAdd, DriverClone, TypeOK
<1>5. \A m \in Nodes : params'[g][m] = IF m = n THEN None ELSE params[g][m]
  BY <1>t, <1>2 DEF EmbedAdd, TypeOK
<1>6. \A x \in Graphs : x # c /\ x # g => Same(x)
  BY <1>4 DEF Same, Untouched
<1>7. ExactOK(g)'
  <2>1. VersionsOf(g)' = VersionsOf(g)
    <3>1. \A w \in Versions : (\E m \in Nodes : params'[g][m] = w) <=> (\E m \in Nodes : params[g][m] = w)
      BY <1>2, <1>5, NothingAssumption
    <3> QED
      BY <3>1 DEF VersionsOf
  <2>2. RootOf(g)' = g
    BY <1>2, <1>4 DEF RootOf
  <2>3. Extra(g)' = {}
    BY <1>1, <2>2 DEF Extra, StartsClone
  <2>4. Covers(meta[g], g, params'[g], Pending(g)')
    BY <1>3, <1>5, NothingAssumption DEF Covers
  <2> QED
    BY <1>2, <1>3, <1>4, <2>1, <2>3, <2>4 DEF ExactOK
<1>8. ExactOK(c)'
  <2>1. RootOf(c)' = g /\ VersionsOf(c)' = VersionsOf(src)
    BY <1>2, <1>4 DEF RootOf, VersionsOf
  <2>2. Extra(c)' = {} /\ Busy(c)'
    BY <1>1, <1>2, <2>1 DEF Extra, Busy, StartsClone
  <2> QED
    BY <1>3, <1>4, <2>1, <2>2 DEF ExactOK
<1>9. ASSUME NEW x \in Graphs, x # c, RootOf(x) = g PROVE ExactOK(x)'
  <2>1. CASE x = g
    BY <1>7, <2>1
  <2>2. CASE x # g
    <3>1. Aside(op[g], x) /\ Aside(op'[g], x) /\ ~Busy(x)
      BY <1>1, <1>3, <1>9, NoOpType DEF Aside, Busy, StartsClone
    <3> QED
      BY <1>6, <1>9, <2>2, <3>1, ExactAside DEF ExactInv
  <2> QED
    BY <2>1, <2>2
<1>10. WholeOK(g)'
  <2>1. alive'[src] = "live" /\ Covers(meta'[src], src, params'[c], {})
    BY <1>2, <1>3, <1>4
  <2> QED
    BY <1>1, <2>1 DEF WholeOK, StartsClone
<1>11. Comes(g)
  BY <1>2, <1>4 DEF Comes, Stays
<1> QED
  BY <1>1, <1>2, <1>6, <1>8, <1>9, <1>10, <1>11, ExactStep

\* The copy of the source's entries is complete.
LEMMA EmbedChildExact ==
  ASSUME ExactInv, NEW r \in Graphs, EmbedChild(r)
  PROVE  Exact' /\ Whole'
<1> DEFINE o == op[r]
<1>0. /\ o.kind = "embed" /\ o.ph = "child"
      /\ boxed' = [boxed EXCEPT ![o.c] = TRUE]
      /\ op' = [op EXCEPT ![r] = [o EXCEPT !.ph = "rekey", !.staged = meta[o.src]]]
      /\ UNCHANGED <<alive, parent, owner, params, refs, meta>>
  BY DEF EmbedChild
<1>1. /\ op[r] # NoOp /\ TypeOK /\ WholeOK(r) /\ o.g = r /\ o.c # r
      /\ o.src \in Graphs /\ o.c \in Graphs /\ RootOf(o.c) = r
  BY <1>0, CloneIndex DEF ExactInv, Whole
<1>c. PICK c \in Graphs, src \in Graphs : c = o.c /\ src = o.src
  BY <1>1
<1>2. /\ OnlyOp(r) /\ SameWork(op'[r], o)
      /\ op'[r].staged = meta[src] /\ op'[r].ph = "rekey"
  BY <1>0, <1>1, <1>c, ChildOp DEF TypeOK
<1>3. \A x \in Graphs : /\ x # c => Same(x)
                        /\ RootOf(x)' = RootOf(x) /\ VersionsOf(x)' = VersionsOf(x)
  <2>1. \A x \in Graphs : x # c => Same(x)
    BY <1>0, <1>c DEF Same, Untouched
  <2>2. \A x \in Graphs : RootOf(x)' = RootOf(x) /\ VersionsOf(x)' = VersionsOf(x)
    BY <1>0 DEF RootOf, VersionsOf
  <2> QED
    BY <2>1, <2>2
<1>4. boxed'[c]
  BY <1>0, <1>1, <1>c DEF TypeOK
<1>5. ExactOK(c)'
  <2>1. Extra(c) = {} /\ Extra(c)' = {} /\ Busy(c)'
    BY <1>1, <1>2, <1>3, <1>c DEF Extra, Busy, SameWork
  <2>2. ExactOK(c)
    BY DEF ExactInv, Exact
  <2> QED
    BY <1>0, <1>3, <2>1, <2>2 DEF ExactOK
<1>6. ASSUME NEW x \in Graphs, RootOf(x) = r PROVE ExactOK(x)'
  <2>1. CASE x = c
    BY <1>5, <2>1
  <2>2. CASE x # c
    <3>1. Aside(op[r], x) /\ Aside(op'[r], x) /\ ~Busy(x)
      BY <1>0, <1>2, <1>6, <1>c, <2>2 DEF Aside, Busy
    <3> QED
      BY <1>3, <1>6, <2>2, <3>1, ExactAside DEF ExactInv
  <2> QED
    BY <2>1, <2>2
<1>7. WholeOK(r)'
  <2>1. Covers(meta[src], src, params'[c], {})
    BY <1>0, <1>1, <1>c DEF WholeOK
  <2>2. op'[r].c = c /\ op'[r].src = src /\ op'[r].kind = "embed"
    BY <1>0, <1>2, <1>c DEF SameWork
  <2> QED
    BY <1>2, <1>4, <2>1, <2>2 DEF WholeOK
<1>8. Comes(r)
  BY <1>0, NoneComes
<1> QED
  BY <1>1, <1>2, <1>3, <1>6, <1>7, <1>8, <1>c, ExactStep

\* The clone has its entries.
LEMMA EmbedRekeyExact ==
  ASSUME ExactInv, NEW r \in Graphs, EmbedRekey(r)
  PROVE  Exact' /\ Whole'
<1> DEFINE o == op[r]
<1>0. /\ o.kind = "embed" /\ o.ph = "rekey"
      /\ meta' = [meta EXCEPT ![o.c] = Rekeyed(o.staged, o.src, o.c)]
      /\ Done(r)
      /\ UNCHANGED <<alive, parent, owner, params, refs, boxed>>
  BY DEF EmbedRekey
<1>1. /\ op[r] # NoOp /\ TypeOK /\ WholeOK(r) /\ o.g = r /\ o.c # r
      /\ o.src \in Graphs /\ o.c \in Graphs /\ RootOf(o.c) = r
  BY <1>0, CloneIndex DEF ExactInv, Whole
<1>c. PICK c \in Graphs, src \in Graphs : c = o.c /\ src = o.src
  BY <1>1
<1>2. OnlyOp(r) /\ op'[r] = NoOp
  BY <1>0, <1>1, DoneOp DEF TypeOK
<1>3. \A x \in Graphs :
        /\ meta'[x] = IF x = c THEN Rekeyed(o.staged, src, c) ELSE meta[x]
        /\ x # c => Same(x)
        /\ RootOf(x)' = RootOf(x) /\ VersionsOf(x)' = VersionsOf(x)
  BY <1>0, <1>1, <1>c DEF Same, Untouched, RootOf, VersionsOf, TypeOK
<1>4. ExactOK(c)'
  <2>1. Extra(c) = {} /\ Extra(c)' = {}
    BY <1>1, <1>2, <1>3, <1>c, NoOpType DEF Extra
  <2>2. boxed[c] /\ Covers(o.staged, src, params[c], {})
    BY <1>0, <1>1, <1>c DEF WholeOK
  <2>3. Covers(meta'[c], c, params[c], {})
    BY <1>3, <2>2, RekeyedCovers
  <2>4. ExactOK(c)
    BY DEF ExactInv, Exact
  <2> QED
    BY <1>0, <1>3, <2>1, <2>2, <2>3, <2>4 DEF ExactOK, Covers
<1>5. ASSUME NEW x \in Graphs, RootOf(x) = r PROVE ExactOK(x)'
  <2>1. CASE x = c
    BY <1>4, <2>1
  <2>2. CASE x # c
    <3>1. Aside(op[r], x) /\ Aside(op'[r], x) /\ ~Busy(x)
      BY <1>0, <1>2, <1>5, <1>c, <2>2, NoOpType DEF Aside, Busy
    <3> QED
      BY <1>3, <1>5, <2>2, <3>1, ExactAside DEF ExactInv
  <2> QED
    BY <2>1, <2>2
<1>6. Comes(r)
  BY <1>0, NoneComes
<1> QED
  BY <1>1, <1>2, <1>3, <1>5, <1>6, <1>c, ExactStep, OverWhole

\* The copy that an update of an embedded graph begins with is complete.
LEMMA SwapPrepareExact ==
  ASSUME ExactInv, NEW g \in Graphs, NEW src \in Graphs, NEW c \in Graphs, NEW n \in Nodes,
         SwapPrepare(g, n, src, c)
  PROVE  Exact' /\ Whole'
<1>t. Typed /\ TypeOK
  BY DEF ExactInv, IndexInv, IInv, Typed
<1>u. UNCHANGED <<alive, parent, owner, params, refs, boxed, meta>>
  BY DEF SwapPrepare
<1>1. OnlyOp(g) /\ StartsClone(op'[g], "swap", "mutate", g, n, src, c, meta[src])
  BY <1>t, SwapOp, OpIs DEF SwapPrepare, TypeOK
<1>2. Idle(g) /\ RootOf(g) = g /\ Usable(g) /\ Usable(src)
  BY EmbeddableFacts DEF SwapPrepare, ExactInv, IndexInv, Embeddable
<1>3. /\ op[g] = NoOp /\ alive[src] = "live" /\ Covers(meta[src], src, params[src], {})
  BY <1>2, UsableExact, UsableShows DEF ExactInv, IndexInv
<1>4. \A x \in Graphs : Same(x) /\ RootOf(x)' = RootOf(x)
  BY <1>u DEF Same, Untouched, RootOf
<1>5. ASSUME NEW x \in Graphs, RootOf(x) = g PROVE ExactOK(x)'
  <2>1. Extra(x) = {} /\ Pending(x) = {} /\ ~Busy(x)
    BY <1>3, <1>5, NoOpType DEF Extra, Pending, Busy
  <2>2. Extra(x)' = {}
    BY <1>1, <1>4, <1>5 DEF Extra, StartsClone
  <2> QED
    BY <1>4, <2>1, <2>2, ExactKept DEF ExactInv, Exact
<1>6. WholeOK(g)'
  BY <1>1, <1>3, <1>u DEF WholeOK, StartsClone
<1>7. Comes(g)
  BY <1>u, NoneComes
<1> QED
  BY <1>1, <1>2, <1>4, <1>5, <1>6, <1>7, ExactStep

\* The new embedded graph retains what its original does; the old one is gone.
LEMMA SwapMutateExact ==
  ASSUME ExactInv, NEW r \in Graphs, SwapMutate(r)
  PROVE  Exact' /\ Whole'
<1> DEFINE o == op[r]
           old == OwnedBy(o.g, o.n)
<1>t. Typed /\ TypeOK /\ Tree
  BY DEF ExactInv, IndexInv, IInv, Typed
<1>0. o.kind = "swap" /\ o.ph = "mutate" /\ alive[o.c] = "none" /\ Goto(r, "commit")
  BY DEF SwapMutate
<1>u. UNCHANGED <<boxed, meta>>
  BY DEF SwapMutate
<1>1. /\ OpFacts(r) /\ Locked(r) /\ op[r] # NoOp /\ WholeOK(r)
      /\ o.g \in Graphs /\ o.n \in Nodes /\ o.src \in Graphs /\ o.c \in Graphs
      /\ RootOf(o.g) = r /\ parent[o.g] = None /\ alive[o.g] # "none"
      /\ \A x \in Graphs : parent[x] = o.g => RootOf(x) = r
  BY <1>0, OwnGraphs, NothingAssumption DEF OpFacts, Locked, ExactInv, IndexInv, Whole
<1>g. o.g = r
  BY <1>1 DEF RootOf
<1>c. PICK c \in Graphs, n \in Nodes, src \in Graphs : c = o.c /\ n = o.n /\ src = o.src
  BY <1>1
<1>2. OnlyOp(r) /\ SameWork(op'[r], o) /\ op'[r].staged = o.staged /\ op'[r].ph = "commit"
  BY <1>0, <1>t, GotoOp DEF TypeOK, Phases
<1>3. \A x \in Graphs :
        /\ alive'[x] = IF x = c THEN "live" ELSE IF x \in old THEN "destroyed" ELSE alive[x]
        /\ refs'[x] = IF x = c THEN refs[src] ELSE IF x \in old THEN {} ELSE refs[x]
        /\ params'[x] = IF x = c THEN params[src] ELSE IF x \in old THEN NoNodes ELSE params[x]
        /\ parent'[x] = IF x = c THEN r ELSE parent[x]
        /\ owner'[x] = IF x = c THEN n ELSE owner[x]
        /\ x \in old <=> parent[x] = r /\ alive[x] = "live" /\ owner[x] = n
  BY <1>1, <1>c, <1>g, <1>t DEF SwapMutate, DriverClone, TypeOK, OwnedBy, Embedded
<1>4. c # r /\ r \notin old /\ RootOf(c) # r /\ RootOf(r) = r
  BY <1>0, <1>1, <1>3, <1>c, <1>g, <1>t, NothingAssumption DEF Tree, RootOf
<1> HIDE DEF old
<1>5. \A x \in Graphs : x # c /\ x \notin old => Same(x)
  BY <1>3, <1>u DEF Same, Untouched
<1>6. /\ alive[src] = "live" /\ refs[src] = VersionsOf(src)
      /\ Covers(o.staged, src, params[src], {})
  <2>1. alive[src] = "live" /\ Covers(o.staged, src, params[src], {})
    BY <1>0, <1>1, <1>c DEF WholeOK
  <2>2. Extra(src) = {}
    <3>1. src # o.g /\ (RootOf(src) = r \/ op[RootOf(src)] = NoOp)
      BY <1>0, <1>1, <1>c, NothingAssumption DEF Locked
    <3> QED
      BY <3>1, NoOpType DEF Extra
  <2> QED
    BY <2>1, <2>2 DEF ExactInv, Exact, ExactOK
<1>7. ExactOK(c)'
  <2>1. RootOf(c)' = r /\ VersionsOf(c)' = VersionsOf(src)
    BY <1>3, <1>t, NothingAssumption DEF RootOf, VersionsOf
  <2>2. Extra(c)' = {} /\ Busy(c)'
    BY <1>2, <1>c, <1>g, <1>4, <2>1 DEF Extra, Busy, SameWork
  <2> QED
    BY <1>3, <1>6, <2>1, <2>2 DEF ExactOK
<1>8. ASSUME NEW x \in Graphs, x # c, RootOf(x) = r PROVE ExactOK(x)'
  <2>1. CASE x \in old
    BY <1>3, <1>8, <2>1 DEF ExactOK
  <2>2. CASE x \notin old
    <3>1. Same(x) /\ RootOf(x)' = r
      BY <1>5, <1>8, <2>2 DEF Same, Untouched, RootOf
    <3>2. Extra(x) = {} /\ Extra(x)' = {} /\ Pending(x) = {} /\ ~Busy(x)
      BY <1>0, <1>2, <1>8, <3>1 DEF Extra, Pending, Busy, SameWork
    <3> QED
      BY <3>1, <3>2, ExactKept DEF ExactInv, Exact
  <2> QED
    BY <2>1, <2>2
<1>9. WholeOK(r)'
  <2>1. /\ op'[r].src = src /\ op'[r].g = r /\ op'[r].c = c /\ op'[r].n = n
        /\ op'[r].kind = "swap" /\ op'[r].staged = o.staged /\ op'[r].ph = "commit"
    BY <1>0, <1>2, <1>c, <1>g DEF SameWork
  <2>2. Covers(o.staged, src, params'[c], {})
    BY <1>3, <1>6
  <2>3. ASSUME NEW x \in Graphs, parent'[x] = r, alive'[x] = "live", owner'[x] = n PROVE x = c
    BY <1>3, <2>3
  <2>4. OwnedBy(r, n)' \subseteq {c}
    BY <2>3 DEF OwnedBy, Embedded
  <2> QED
    BY <2>1, <2>2, <2>4 DEF WholeOK, OwnedBy, Embedded
<1>10. ASSUME NEW x \in Graphs, RootOf(x) # r, x # c PROVE Same(x)
  <2>1. x \notin old
    BY <1>1, <1>3, <1>10, <1>g
  <2> QED
    BY <1>5, <1>10, <2>1
<1>11. Comes(r)
  BY <1>3, <1>4 DEF Comes, Stays
<1>12. alive[c] = "none"
  BY <1>0, <1>c
<1> QED
  BY <1>1, <1>2, <1>7, <1>8, <1>9, <1>10, <1>11, <1>12, ExactStep

\* The new embedded graph has its box and its entries.
LEMMA SwapCommitExact ==
  ASSUME ExactInv, OnlyClean, NEW r \in Graphs, SwapCommit(r)
  PROVE  Exact' /\ Whole'
<1> DEFINE o == op[r]
<1>0. o.ph = "commit" /\ Done(r) /\ UNCHANGED <<alive, parent, owner, params, refs>>
  BY DEF SwapCommit
<1>1. /\ OpFacts(r) /\ op[r] # NoOp /\ TypeOK /\ WholeOK(r) /\ Tree
      /\ o.g = r /\ o.n \in Nodes /\ o.src \in Graphs /\ o.c \in Graphs /\ RootOf(o.c) = r /\ o.c # r
      /\ \A x \in Graphs : parent[x] = r => RootOf(x) = r
  BY <1>0, CloneIndex DEF ExactInv, IndexInv, IInv, Whole
<1>c. PICK c \in Graphs, n \in Nodes, src \in Graphs : c = o.c /\ n = o.n /\ src = o.src
  BY <1>1
<1> DEFINE old == {x \in Graphs : parent[x] = r /\ owner[x] = n} \ {c}
<1>2. OnlyOp(r) /\ op'[r] = NoOp
  BY <1>0, <1>1, DoneOp DEF TypeOK
<1>3. \A x \in Graphs :
          /\ boxed'[x] = IF x = c THEN TRUE ELSE boxed[x] /\ x \notin old
          /\ meta'[x] = IF x = c THEN Rekeyed(o.staged, src, c)
                        ELSE IF x \in old THEN NoEntries ELSE meta[x]
  <2>1. old = {x \in Graphs : parent[x] = o.g /\ owner[x] = o.n} \ {o.c} /\ "find" \notin Faults
    BY <1>1, <1>c DEF OnlyClean
  <2> HIDE DEF old
  <2> QED
    BY ZenonT(60), <1>c, <2>1 DEF SwapCommit
<1>4. \A x \in old : RootOf(x) = r /\ alive[x] # "live" /\ alive[x] # "none"
  BY <1>0, <1>1, <1>c, NothingAssumption DEF WholeOK, OwnedBy, Embedded, Tree
<1> HIDE DEF old
<1>5. \A x \in Graphs : /\ x # c /\ x \notin old => Same(x)
                        /\ RootOf(x)' = RootOf(x) /\ VersionsOf(x)' = VersionsOf(x)
  <2>1. \A x \in Graphs : x # c /\ x \notin old => Same(x)
    BY <1>0, <1>1, <1>3 DEF Same, Untouched, TypeOK
  <2>2. \A x \in Graphs : RootOf(x)' = RootOf(x) /\ VersionsOf(x)' = VersionsOf(x)
    BY <1>0 DEF RootOf, VersionsOf
  <2> QED
    BY <2>1, <2>2
<1>6. ExactOK(c)'
  <2>1. Extra(c) = {} /\ Extra(c)' = {}
    BY <1>1, <1>2, <1>5, <1>c, NoOpType DEF Extra
  <2>2. Covers(meta'[c], c, params[c], {})
    <3>1. Covers(o.staged, src, params[c], {})
      BY <1>0, <1>1, <1>c DEF WholeOK
    <3> QED
      BY <1>3, <3>1, RekeyedCovers
  <2>3. ExactOK(c)
    BY DEF ExactInv, Exact
  <2> QED
    BY <1>0, <1>3, <1>5, <2>1, <2>2, <2>3 DEF ExactOK, Covers
<1>7. ASSUME NEW x \in Graphs, RootOf(x) = r PROVE ExactOK(x)'
  <2>1. CASE x = c
    BY <1>6, <2>1
  <2>2. CASE x # c /\ x \in old
    BY <1>0, <1>4, <2>2 DEF ExactOK
  <2>3. CASE x # c /\ x \notin old
    <3>1. Aside(op[r], x) /\ Aside(op'[r], x) /\ ~Busy(x)
      BY <1>0, <1>2, <1>7, <1>c, <2>3, NoOpType DEF Aside, Busy
    <3> QED
      BY <1>5, <1>7, <2>3, <3>1, ExactAside DEF ExactInv
  <2> QED
    BY <2>1, <2>2, <2>3
<1>8. Comes(r)
  BY <1>0, NoneComes
<1> QED
  BY <1>1, <1>2, <1>4, <1>5, <1>7, <1>8, <1>c, ExactStep, OverWhole

\* Without graphs and operations nothing is retained.
LEMMA ExactInit == Init => ExactInv
<1> SUFFICES ASSUME Init PROVE ExactInv
  OBVIOUS
<1>1. \A g \in Graphs : alive[g] = "none" /\ op[g] = NoOp /\ params[g] = NoNodes /\ refs[g] = {}
  BY DEF Init
<1> QED
  BY <1>1, IndexInit, NoOpType DEF ExactInv, Exact, ExactOK, Whole, WholeOK

\* Every action keeps the two book-keepings together, by the lemmas above.
LEMMA ExactNext == OnlyClean /\ ExactInv /\ [Next]_vars => ExactInv'
<1> SUFFICES ASSUME OnlyClean, ExactInv, [Next]_vars PROVE Exact' /\ Whole'
  BY IndexNext DEF ExactInv
<1>1. ASSUME NEW g \in Graphs, CreateGraph(g) \/ CloseGraph(g) \/ DiscoverChild(g)
      PROVE  Exact' /\ Whole'
  BY <1>1, CreateExact, CloseExact
<1>2. ASSUME NEW r \in Graphs, Continue(r) PROVE Exact' /\ Whole'
  BY <1>2, MutateExact, MutateFailsExact, PublishExact, FailureExact, ReleaseExact, InvalidateExact,
     EmbedChildExact, EmbedRekeyExact, SwapMutateExact, SwapCommitExact
  DEF Continue
<1>3. ASSUME NEW g \in Graphs, NEW n \in Nodes, StartNode(g, n) PROVE Exact' /\ Whole'
  BY <1>3, PrepareExact, OtherExact DEF StartNode
<1>4. ASSUME NEW g \in Graphs, NEW src \in Graphs, NEW c \in Graphs, NEW n \in Nodes,
             EmbedAdd(g, n, src, c) \/ SwapPrepare(g, n, src, c)
      PROVE  Exact' /\ Whole'
  BY <1>4, EmbedAddExact, SwapPrepareExact
<1>5. ASSUME \/ \E g, e : Instantiate(g, e) \/ ExecUpdate(g, e)
             \/ \E e, l : ExecDestroy(e) \/ Launch(e, l) \/ Complete(l)
             \/ \E v : EnqueueCleanup(v)
             \/ Drain
             \/ UNCHANGED vars
      PROVE  Exact' /\ Whole'
  BY <1>5, OtherExact
<1> QED
  BY <1>1, <1>2, <1>3, <1>4, <1>5 DEF Next

\* Where only preparations and CUDA's own calls fail, the index is exact between
\* operations and a graph retains what its nodes use and nothing else.
THEOREM RetentionIsExact ==
  ASSUME Faults \subseteq {"create", "retain", "mutate"}
  PROVE  Spec => []RetainsOnlyCurrent
<1>1. OnlyClean
  BY DEF OnlyClean
<1>2. ASSUME ExactInv PROVE RetainsOnlyCurrent
  <2> SUFFICES ASSUME NEW g \in Graphs, Usable(g)
               PROVE  /\ \A k \in Key : meta[g][k] = IF k[1] = g /\ params[g][k[2]] \in Versions
                                                     THEN params[g][k[2]] ELSE None
                      /\ refs[g] = VersionsOf(g)
    BY DEF RetainsOnlyCurrent
  <2>1. refs[g] = VersionsOf(g) /\ Covers(meta[g], g, params[g], {})
    BY <1>2, UsableExact
  <2>2. Shows(meta[g], g, params[g], refs[g], {}, {})
    BY <1>1, <1>2, NoSlack, UsableShows DEF ExactInv, IndexInv
  <2>3. ASSUME NEW k \in Key
        PROVE  meta[g][k] = IF k[1] = g /\ params[g][k[2]] \in Versions
                            THEN params[g][k[2]] ELSE None
    <3>1. k[2] \in Nodes /\ k = <<k[1], k[2]>> /\ refs[g] \subseteq Versions
      BY <2>1 DEF Key, VersionsOf
    <3>2. CASE k[1] = g /\ params[g][k[2]] \in Versions
      BY <2>1, <3>1, <3>2 DEF Covers
    <3>3. CASE ~(k[1] = g /\ params[g][k[2]] \in Versions)
      BY <2>2, <3>1, <3>3 DEF Shows
    <3> QED
      BY <3>2, <3>3
  <2> QED
    BY <2>1, <2>3
<1>3. Spec => []ExactInv
  BY <1>1, ExactInit, ExactNext, PTL DEF Spec
<1> QED
  BY <1>2, <1>3, PTL
=============================================================================
