------------------------- MODULE ExecAttachments_proofs -------------------------
(***************************************************************************)
(* Proofs about ExecAttachments, for any number of sources, executables,   *)
(* launches, accumulators and resources, and whatever calls fail.          *)
(***************************************************************************)
EXTENDS ExecAttachments, TLAPS

-----------------------------------------------------------------------------
(* The inductive invariant.                                                *)

\* What no rollback under way can take from accumulator a.
Kept(a) ==
    {owners[a][i] : i \in {j \in 1 .. Len(owners[a]) :
        \A e \in Execs : op[e].step = "set_params" /\ op[e].a = a => j <= op[e].size}}

\* The operation stages an accumulator that no box points to yet.
Fresh(e) == op[e].step \in {"instantiate", "update", "publish"}

\* The pointer in the box is good.
Settled(e) == exec[e].open /\ op[e].step # "publish"

\* What an operation under way knows.
OpOK(e) ==
    /\ op[e].step \in Staging => op[e].a \in source[op[e].s]
    /\ op[e].step = "instantiate" => ~exec[e].open
    /\ op[e].step \notin {"idle", "instantiate"} => exec[e].open
    /\ op[e].step \in {"adopted", "published"} => attachments[e] = op[e].a
    /\ op[e].step = "publish" =>
        /\ op[e].a \in exec[e].holds
        /\ \A n \in Nodes : exec[e].uses[n] = {}
    /\ op[e].step = "set_params" =>
        /\ op[e].a = attachments[e] /\ op[e].n \in Nodes
        /\ op[e].size <= Len(owners[op[e].a])
        /\ Elements(op[e].new) \subseteq Elements(owners[op[e].a])

Operations == \A e \in Execs : OpOK(e)

\* What anybody retains is alive, and an unused address has no owners.
RetainedIsAlive ==
    \A a \in Accumulators :
        /\ Referenced(a) => state[a] = "alive"
        /\ state[a] = "unused" => owners[a] = <<>>

\* An executable holds the accumulator it points to; a closed one has nothing.
PointsToHeld ==
    \A e \in Execs :
        /\ Settled(e) => attachments[e] \in Accumulators /\ attachments[e] \in exec[e].holds
        /\ ~exec[e].open => exec[e] = Closed /\ attachments[e] = None

\* No two executables point to one accumulator, and none to a fresh one.
OneOwner ==
    \A e, f \in Execs :
        /\ e # f /\ Settled(e) /\ Settled(f) => attachments[e] # attachments[f]
        /\ e # f /\ Fresh(e) /\ Fresh(f) => op[e].a # op[f].a
        /\ Fresh(e) /\ Settled(f) => op[e].a # attachments[f]

\* What is used is with an accumulator that the user holds, for good.
UsesAreKept ==
    /\ \A e \in Execs : \A n \in Nodes : \A o \in exec[e].uses[n] :
        Settled(e) /\ o \in Kept(attachments[e])
    /\ \A l \in Launches : \A o \in launch[l].uses :
        \E a \in launch[l].holds : o \in Kept(a)

IInv ==
    /\ TypeOK /\ Operations /\ RetainedIsAlive
    /\ PointsToHeld /\ OneOwner /\ UsesAreKept

Steps == {"idle", "instantiate", "adopted", "update", "publish", "published", "set_params"}

OpTypes == [step : Steps, s : Sources \cup {None}, a : Accumulators \cup {None}, size : Nat,
            n : Nodes \cup {None}, new : Seq(Owners)]

-----------------------------------------------------------------------------
(* Lemmas on what stays.                                                   *)

\* A new step of an operation leaves the rest of it as it is.
LEMMA NextStep ==
  ASSUME op \in [Execs -> OpTypes], NEW e \in Execs, NEW x \in Steps, op' = [op EXCEPT ![e].step = x]
  PROVE  /\ op' \in [Execs -> OpTypes]
         /\ op'[e].step = x /\ op'[e].s = op[e].s /\ op'[e].a = op[e].a
         /\ \A f \in Execs : f # e => op'[f] = op[f]
<1> DEFINE o == [op[e] EXCEPT !.step = x]
<1>1. op' = [op EXCEPT ![e] = o]
  OBVIOUS
<1>2. o \in OpTypes /\ o.step = x /\ o.s = op[e].s /\ o.a = op[e].a
  BY DEF OpTypes
<1> HIDE DEF o
<1> QED
  BY <1>1, <1>2

\* The second half of TypeOK: what an operation needs it has.
Known ==
    \A e \in Execs :
        /\ exec[e].open /\ op[e].step \notin {"update", "publish"} => attachments[e] # None
        /\ op[e].step \in Staging => op[e].s \in Sources /\ op[e].a \in Accumulators

LEMMA TypeParts ==
  TypeOK <=> /\ source \in [Sources -> SUBSET Accumulators]
             /\ exec \in [Execs -> [open : BOOLEAN, uses : [Nodes -> SUBSET Owners], holds : SUBSET Accumulators]]
             /\ launch \in [Launches -> [on : BOOLEAN, uses : SUBSET Owners, holds : SUBSET Accumulators]]
             /\ attachments \in [Execs -> Accumulators \cup {None}]
             /\ state \in [Accumulators -> {"unused", "alive", "retired"}]
             /\ owners \in [Accumulators -> Seq(Owners)]
             /\ user \subseteq Owners /\ left \subseteq Accumulators
             /\ op \in [Execs -> OpTypes]
             /\ Known
  BY DEF TypeOK, Known, OpTypes, Steps

LEMMA KeptInType ==
  ASSUME TypeOK, NEW a \in Accumulators
  PROVE  /\ Kept(a) \subseteq Elements(owners[a])
         /\ Elements(owners[a]) \subseteq Owners
  BY DEF TypeOK, Kept, Elements

\* What is kept stays kept where no owner goes and no update of a node begins.
LEMMA KeptStays ==
  ASSUME NEW a \in Accumulators, owners'[a] = owners[a],
         \A f \in Execs : op'[f].step = "set_params" => op'[f] = op[f]
  PROVE  Kept(a) \subseteq Kept(a)'
  BY DEF Kept

\* What an operation knows stays true when other executables are worked on.
LEMMA OpStays ==
  ASSUME NEW f \in Execs, OpOK(f), op'[f] = op[f], exec'[f] = exec[f], attachments'[f] = attachments[f],
         op[f].step \in Staging => op[f].a \in source'[op[f].s],
         op[f].step = "set_params" => owners'[op[f].a] = owners[op[f].a]
  PROVE  OpOK(f)'
  BY DEF OpOK

\* Nothing becomes stale where nobody retains anything new.
LEMMA RetainedStays ==
  ASSUME RetainedIsAlive, UNCHANGED <<state, owners>>,
         \A b \in Accumulators : Referenced(b)' => Referenced(b)
  PROVE  RetainedIsAlive'
  BY DEF RetainedIsAlive

\* What is used stays kept where executables and launches stay or use nothing.
LEMMA UsesStay ==
  ASSUME TypeOK, PointsToHeld, UsesAreKept,
         \A b \in Accumulators : state[b] = "alive" => Kept(b) \subseteq Kept(b)',
         RetainedIsAlive,
         \A f \in Execs : \/ \A n \in Nodes : exec'[f].uses[n] = {}
                          \/ exec'[f] = exec[f] /\ (Settled(f) => attachments'[f] = attachments[f] /\ Settled(f)'),
         \A l \in Launches : launch'[l].uses = {} \/ launch'[l] = launch[l]
  PROVE  UsesAreKept'
<1>1. ASSUME NEW f \in Execs, NEW n \in Nodes, NEW o \in exec'[f].uses[n]
      PROVE  Settled(f)' /\ o \in Kept(attachments[f])'
  <2>1. exec'[f] = exec[f] /\ Settled(f) /\ o \in Kept(attachments[f])
    BY <1>1 DEF UsesAreKept
  <2>2. attachments'[f] = attachments[f] /\ Settled(f)'
    BY <1>1, <2>1
  <2>3. attachments[f] \in Accumulators /\ state[attachments[f]] = "alive"
    BY <2>1 DEF PointsToHeld, RetainedIsAlive, Referenced
  <2>4. Kept(attachments[f])' = {owners'[attachments[f]][i] : i \in {j \in 1 .. Len(owners'[attachments[f]]) :
            \A e \in Execs : op'[e].step = "set_params" /\ op'[e].a = attachments[f] => j <= op'[e].size}}
    BY <2>2 DEF Kept
  <2> QED
    BY <2>1, <2>2, <2>3, <2>4 DEF Kept
<1>2. ASSUME NEW l \in Launches, NEW o \in launch'[l].uses
      PROVE  \E a \in launch'[l].holds : o \in Kept(a)'
  <2>1. launch'[l] = launch[l]
    BY <1>2
  <2>2. PICK a \in launch[l].holds : o \in Kept(a)
    BY <1>2, <2>1 DEF UsesAreKept
  <2>3. a \in Accumulators /\ state[a] = "alive"
    BY <2>2 DEF RetainedIsAlive, Referenced, TypeOK
  <2> QED
    BY <2>1, <2>2, <2>3
<1> QED
  BY <1>1, <1>2 DEF UsesAreKept

LEMMA StageInv ==
  ASSUME IInv, NEW e \in Execs, NEW s \in Sources, NEW a \in Accumulators,
         StageInstantiate(e, s, a) \/ StageUpdate(e, s, a)
  PROVE  IInv'
<1> USE DEF IInv
<1> DEFINE step == IF exec[e].open THEN "update" ELSE "instantiate"
<1>1. /\ Stage(e, s, a, step)
      /\ step \in {"update", "instantiate"}
      /\ step = "instantiate" <=> ~exec[e].open
  BY DEF StageInstantiate, StageUpdate, TypeOK
<1> HIDE DEF step
<1>2. /\ op' = [op EXCEPT ![e] = [step |-> step, s |-> s, a |-> a, size |-> 0, n |-> None, new |-> <<>>]]
      /\ op[e].step = "idle" /\ state[a] = "unused"
      /\ state' = [state EXCEPT ![a] = "alive"]
      /\ source' = [source EXCEPT ![s] = @ \cup {a}]
      /\ UNCHANGED <<exec, launch, attachments, owners, user, left>>
  BY <1>1 DEF Stage, Staged
<1>3. TypeOK'
  BY <1>1, <1>2 DEF TypeOK, Staging
<1>4. Operations'
  <2>1. ASSUME NEW f \in Execs, f # e PROVE OpOK(f)'
    <3>1. /\ OpOK(f) /\ op'[f] = op[f] /\ exec'[f] = exec[f] /\ attachments'[f] = attachments[f]
          /\ owners' = owners
      BY <1>2, <2>1 DEF TypeOK, Operations
    <3>2. op[f].step \in Staging => op[f].a \in source'[op[f].s]
      BY <1>2, <2>1 DEF TypeOK, Operations, OpOK, Staging
    <3> QED
      BY <3>1, <3>2, OpStays
  <2>2. OpOK(e)'
    BY <1>1, <1>2 DEF TypeOK, OpOK, Staging
  <2> QED
    BY <2>1, <2>2 DEF Operations
<1>5. RetainedIsAlive'
  <2>1. ASSUME NEW b \in Accumulators, b # a PROVE (Referenced(b)' => Referenced(b)) /\ state'[b] = state[b]
    <3>1. \A t \in Sources : b \in source'[t] => b \in source[t]
      BY <1>2, <2>1 DEF TypeOK
    <3> QED
      BY <1>2, <2>1, <3>1 DEF TypeOK, Referenced
  <2> QED
    BY <1>2, <2>1 DEF TypeOK, RetainedIsAlive
<1>6. PointsToHeld'
  BY <1>1, <1>2 DEF TypeOK, PointsToHeld, Settled
<1>7. OneOwner'
  <2>1. \A f \in Execs : Settled(f) => attachments[f] # a
    BY <1>2 DEF PointsToHeld, RetainedIsAlive, Referenced
  <2>2. \A f \in Execs : Fresh(f) => op[f].a # a
    BY <1>2 DEF Fresh, Operations, OpOK, RetainedIsAlive, Referenced, Staging, TypeOK
  <2> QED
    BY <1>1, <1>2, <2>1, <2>2 DEF TypeOK, OneOwner, Settled, Fresh
<1>8. UsesAreKept'
  <2>1. \A b \in Accumulators : Kept(b) \subseteq Kept(b)'
    BY <1>1, <1>2, KeptStays DEF TypeOK
  <2> QED
    BY <1>1, <1>2, <2>1 DEF TypeOK, UsesAreKept, Settled, PointsToHeld
<1> QED
  BY <1>3, <1>4, <1>5, <1>6, <1>7, <1>8

LEMMA StageFailsInv ==
  ASSUME IInv, NEW e \in Execs, NEW a \in Accumulators, StageFails(e, a)
  PROVE  IInv'
<1> USE DEF IInv
<1>1. /\ state[a] = "unused" /\ state' = [state EXCEPT ![a] = "retired"]
      /\ UNCHANGED <<source, exec, launch, attachments, owners, user, op, left>>
  BY DEF StageFails
<1>2. TypeOK'
  BY <1>1 DEF TypeOK
<1>3. Operations'
  BY <1>1 DEF Operations, OpOK
<1>4. RetainedIsAlive'
  <2>1. \A b \in Accumulators : Referenced(b)' <=> Referenced(b)
    BY <1>1 DEF Referenced
  <2> QED
    BY <1>1, <2>1 DEF TypeOK, RetainedIsAlive
<1>5. PointsToHeld' /\ OneOwner'
  BY <1>1 DEF PointsToHeld, OneOwner, Settled, Fresh
<1>6. UsesAreKept'
  BY <1>1 DEF UsesAreKept, Settled, Kept
<1> QED
  BY <1>2, <1>3, <1>4, <1>5, <1>6

LEMMA InstantiateInv ==
  ASSUME IInv, NEW e \in Execs, Instantiate(e)
  PROVE  IInv'
<1> USE DEF IInv
<1>1. /\ op[e].step = "instantiate"
      /\ exec' = [exec EXCEPT ![e] = [open |-> TRUE, uses |-> [n \in Nodes |-> {}], holds |-> source[op[e].s]]]
      /\ attachments' = [attachments EXCEPT ![e] = op[e].a]
      /\ op' = [op EXCEPT ![e].step = "adopted"]
      /\ UNCHANGED <<source, launch, state, owners, user, left>>
  BY DEF Instantiate, Propagated
<1>2. op[e].s \in Sources /\ op[e].a \in Accumulators /\ op[e].a \in source[op[e].s]
  BY <1>1 DEF TypeOK, Operations, OpOK, Staging
<1>3. TypeOK'
  <2>1. exec' \in [Execs -> [open : BOOLEAN, uses : [Nodes -> SUBSET Owners], holds : SUBSET Accumulators]]
    BY <1>1, <1>2 DEF TypeOK
  <2>2. op' \in [Execs -> OpTypes]
    BY <1>1, NextStep, TypeParts DEF Steps
  <2>3. Known'
    BY <1>1, <1>2, NoneIsNothing DEF TypeOK, Known, Staging
  <2> QED
    BY <1>1, <1>2, <2>1, <2>2, <2>3 DEF TypeOK, Known, OpTypes, Steps
<1>4. Operations'
  <2>1. ASSUME NEW f \in Execs, f # e PROVE OpOK(f)'
    <3>1. /\ OpOK(f) /\ op'[f] = op[f] /\ exec'[f] = exec[f] /\ attachments'[f] = attachments[f]
          /\ owners' = owners /\ source' = source
      BY <1>1, <2>1 DEF TypeOK, Operations
    <3> QED
      BY <3>1, OpStays DEF OpOK
  <2>2. OpOK(e)'
    BY <1>1, <1>2 DEF TypeOK, OpOK, Staging
  <2> QED
    BY <2>1, <2>2 DEF Operations
<1>5. RetainedIsAlive'
  <2>1. ASSUME NEW b \in Accumulators, Referenced(b)' PROVE Referenced(b)
    BY <1>1, <1>2, <2>1 DEF TypeOK, Referenced
  <2> QED
    BY <1>1, <2>1, RetainedStays
<1>6. PointsToHeld'
  BY <1>1, <1>2 DEF TypeOK, PointsToHeld, Settled
<1>7. OneOwner'
  BY <1>1, <1>2 DEF TypeOK, OneOwner, Settled, Fresh
<1>8. UsesAreKept'
  <2>1. \A b \in Accumulators : Kept(b) \subseteq Kept(b)'
    BY <1>1, KeptStays DEF TypeOK
  <2>2. \A f \in Execs : f # e => exec'[f] = exec[f] /\ attachments'[f] = attachments[f] /\ (Settled(f) => Settled(f)')
    BY <1>1 DEF TypeOK, Settled
  <2>3. \A n \in Nodes : exec'[e].uses[n] = {}
    BY <1>1 DEF TypeOK
  <2> QED
    BY <1>1, <2>1, <2>2, <2>3, UsesStay
<1> QED
  BY <1>3, <1>4, <1>5, <1>6, <1>7, <1>8

LEMMA UpdateInv ==
  ASSUME IInv, NEW e \in Execs, Update(e)
  PROVE  IInv'
<1> USE DEF IInv
<1>1. /\ op[e].step = "update"
      /\ exec' = [exec EXCEPT ![e] = [open |-> TRUE, uses |-> [n \in Nodes |-> {}], holds |-> source[op[e].s]]]
      /\ op' = [op EXCEPT ![e].step = "publish"]
      /\ UNCHANGED <<source, launch, attachments, state, owners, user, left>>
  BY DEF Update, Propagated
<1>2. op[e].s \in Sources /\ op[e].a \in Accumulators /\ op[e].a \in source[op[e].s]
  BY <1>1 DEF TypeOK, Operations, OpOK, Staging
<1>o. /\ op' \in [Execs -> OpTypes]
      /\ op'[e].step = "publish" /\ op'[e].s = op[e].s /\ op'[e].a = op[e].a
      /\ \A f \in Execs : f # e => op'[f] = op[f]
  BY <1>1, NextStep, TypeParts DEF Steps
<1>3. TypeOK'
  <2>1. exec' \in [Execs -> [open : BOOLEAN, uses : [Nodes -> SUBSET Owners], holds : SUBSET Accumulators]]
    BY <1>1, <1>2 DEF TypeOK
  <2>2. Known'
    BY <1>1, <1>2, <1>o DEF TypeOK, Known, Staging
  <2> QED
    BY <1>1, <1>o, <2>1, <2>2 DEF TypeOK, Known, OpTypes, Steps
<1>4. Operations'
  <2>1. ASSUME NEW f \in Execs, f # e PROVE OpOK(f)'
    <3>1. /\ OpOK(f) /\ op'[f] = op[f] /\ exec'[f] = exec[f] /\ attachments'[f] = attachments[f]
          /\ owners' = owners /\ source' = source
      BY <1>1, <2>1 DEF TypeOK, Operations
    <3> QED
      BY <3>1, OpStays DEF OpOK
  <2>2. OpOK(e)'
    BY <1>1, <1>2, <1>o DEF TypeOK, OpOK, Staging
  <2> QED
    BY <2>1, <2>2 DEF Operations
<1>5. RetainedIsAlive'
  <2>1. ASSUME NEW b \in Accumulators, Referenced(b)' PROVE Referenced(b)
    BY <1>1, <1>2, <2>1 DEF TypeOK, Referenced
  <2> QED
    BY <1>1, <2>1, RetainedStays
<1>6. PointsToHeld'
  BY <1>1, <1>o DEF TypeOK, PointsToHeld, Settled
<1>7. OneOwner'
  BY <1>1, <1>o DEF TypeOK, OneOwner, Settled, Fresh
<1>8. UsesAreKept'
  <2>1. \A b \in Accumulators : Kept(b) \subseteq Kept(b)'
    BY <1>1, <1>o, KeptStays
  <2>2. \A f \in Execs : f # e => exec'[f] = exec[f] /\ attachments'[f] = attachments[f] /\ (Settled(f) => Settled(f)')
    BY <1>1, <1>o DEF TypeOK, Settled
  <2>3. \A n \in Nodes : exec'[e].uses[n] = {}
    BY <1>1 DEF TypeOK
  <2> QED
    BY <1>1, <2>1, <2>2, <2>3, UsesStay
<1> QED
  BY <1>3, <1>4, <1>5, <1>6, <1>7, <1>8

LEMMA PublishInv ==
  ASSUME IInv, NEW e \in Execs, Publish(e)
  PROVE  IInv'
<1> USE DEF IInv
<1>1. /\ op[e].step = "publish"
      /\ attachments' = [attachments EXCEPT ![e] = op[e].a]
      /\ op' = [op EXCEPT ![e].step = "published"]
      /\ UNCHANGED <<source, exec, launch, state, owners, user, left>>
  BY DEF Publish
<1>2. /\ op[e].s \in Sources /\ op[e].a \in Accumulators /\ op[e].a \in source[op[e].s]
      /\ op[e].a \in exec[e].holds /\ exec[e].open
      /\ \A n \in Nodes : exec[e].uses[n] = {}
  BY <1>1 DEF TypeOK, Operations, OpOK, Staging
<1>o. /\ op' \in [Execs -> OpTypes]
      /\ op'[e].step = "published" /\ op'[e].s = op[e].s /\ op'[e].a = op[e].a
      /\ \A f \in Execs : f # e => op'[f] = op[f]
  BY <1>1, NextStep, TypeParts DEF Steps
<1>3. TypeOK'
  <2>1. Known'
    BY <1>1, <1>2, <1>o, NoneIsNothing DEF TypeOK, Known, Staging
  <2> QED
    BY <1>1, <1>2, <1>o, <2>1 DEF TypeOK, Known, OpTypes, Steps
<1>4. Operations'
  <2>1. ASSUME NEW f \in Execs, f # e PROVE OpOK(f)'
    <3>1. /\ OpOK(f) /\ op'[f] = op[f] /\ exec'[f] = exec[f] /\ attachments'[f] = attachments[f]
          /\ owners' = owners /\ source' = source
      BY <1>1, <2>1 DEF TypeOK, Operations
    <3> QED
      BY <3>1, OpStays DEF OpOK
  <2>2. OpOK(e)'
    BY <1>1, <1>2, <1>o DEF TypeOK, OpOK, Staging
  <2> QED
    BY <2>1, <2>2 DEF Operations
<1>5. RetainedIsAlive'
  <2>1. ASSUME NEW b \in Accumulators, Referenced(b)' PROVE Referenced(b)
    BY <1>1, <2>1 DEF Referenced
  <2> QED
    BY <1>1, <2>1, RetainedStays
<1>6. PointsToHeld'
  BY <1>1, <1>2, <1>o DEF TypeOK, PointsToHeld, Settled
<1>7. OneOwner'
  BY <1>1, <1>2, <1>o DEF TypeOK, OneOwner, Settled, Fresh
<1>8. UsesAreKept'
  <2>1. \A b \in Accumulators : Kept(b) \subseteq Kept(b)'
    BY <1>1, <1>o, KeptStays
  <2>2. \A f \in Execs : f # e => attachments'[f] = attachments[f] /\ (Settled(f) => Settled(f)')
    BY <1>1, <1>o DEF TypeOK, Settled
  <2> QED
    BY <1>1, <1>2, <2>1, <2>2, UsesStay
<1> QED
  BY <1>3, <1>4, <1>5, <1>6, <1>7, <1>8

\* No two operations stage one accumulator.
LEMMA StagedDiffer ==
  ASSUME IInv, NEW e \in Execs, NEW f \in Execs, e # f,
         op[e].step \in Staging, op[f].step \in Staging
  PROVE  op[e].a # op[f].a
<1>1. \A g \in Execs : op[g].step \in Staging =>
        Fresh(g) \/ (Settled(g) /\ attachments[g] = op[g].a)
  BY DEF IInv, Operations, OpOK, Staging, Fresh, Settled
<1> QED
  BY <1>1 DEF IInv, OneOwner

LEMMA UnstageInv ==
  ASSUME IInv, NEW e \in Execs, CudaFails(e) \/ Release(e)
  PROVE  IInv'
<1> USE DEF IInv
<1>1. /\ op[e].step \in Staging
      /\ \/ source' = source
         \/ source' = [source EXCEPT ![op[e].s] = @ \ {op[e].a}]
      /\ op' = [op EXCEPT ![e] = Idle]
      /\ left' \subseteq left \cup {op[e].a}
      /\ UNCHANGED <<exec, launch, attachments, state, owners, user>>
  BY DEF CudaFails, Release, Unstaged, Done, Staging
<1>2. op[e].s \in Sources /\ op[e].a \in Accumulators /\ op[e].step # "publish"
  BY <1>1 DEF TypeOK, Staging, CudaFails, Release
<1>o. /\ op' \in [Execs -> OpTypes] /\ op'[e].step = "idle"
      /\ \A f \in Execs : f # e => op'[f] = op[f]
  BY <1>1, TypeParts DEF OpTypes, Steps, Idle
<1>s. /\ source' \in [Sources -> SUBSET Accumulators]
      /\ \A s \in Sources : source'[s] \subseteq source[s] /\ source[s] \subseteq source'[s] \cup {op[e].a}
  <2>1. source \in [Sources -> SUBSET Accumulators]
    BY DEF TypeOK
  <2>2. CASE source' = source
    BY <2>1, <2>2
  <2>3. CASE source' = [source EXCEPT ![op[e].s] = @ \ {op[e].a}]
    BY <1>2, <2>1, <2>3
  <2> QED
    BY <1>1, <2>2, <2>3
<1>3. TypeOK'
  <2>1. left' \subseteq Accumulators
    BY <1>1, <1>2 DEF TypeOK
  <2>2. Known'
    <3>1. \A f \in Execs : Settled(f) => attachments[f] # None
      BY NoneIsNothing DEF PointsToHeld
    <3>2. \A f \in Execs : exec'[f].open /\ op'[f].step \notin {"update", "publish"} => Settled(f)
      BY <1>1, <1>2, <1>o DEF Settled
    <3>3. \A f \in Execs : op'[f].step \in Staging => op'[f] = op[f]
      BY <1>o DEF Staging
    <3> QED
      BY <1>1, <3>1, <3>2, <3>3 DEF TypeOK, Known
  <2> QED
    BY <1>1, <1>o, <1>s, <2>1, <2>2 DEF TypeOK, Known, OpTypes, Steps
<1>4. Operations'
  <2>1. ASSUME NEW f \in Execs, f # e PROVE OpOK(f)'
    <3>1. /\ OpOK(f) /\ op'[f] = op[f] /\ exec'[f] = exec[f] /\ attachments'[f] = attachments[f]
          /\ owners' = owners
      BY <1>1, <1>o, <2>1 DEF Operations
    <3>2. ASSUME op[f].step \in Staging PROVE op[f].a \in source'[op[f].s]
      <4>1. op[f].s \in Sources /\ op[f].a \in source[op[f].s]
        BY <3>1, <3>2 DEF TypeOK, OpOK
      <4>2. op[f].a # op[e].a
        BY <1>1, <2>1, <3>2, StagedDiffer
      <4> QED
        BY <1>s, <4>1, <4>2
    <3> QED
      BY <3>1, <3>2, OpStays
  <2>2. OpOK(e)'
    BY <1>o DEF OpOK, Staging
  <2> QED
    BY <2>1, <2>2 DEF Operations
<1>5. RetainedIsAlive'
  <2>1. ASSUME NEW b \in Accumulators, Referenced(b)' PROVE Referenced(b)
    BY <1>1, <1>s, <2>1 DEF Referenced
  <2> QED
    BY <1>1, <2>1, RetainedStays
<1>t. \A f \in Execs : (Settled(f)' <=> Settled(f)) /\ (Fresh(f)' => Fresh(f) /\ op'[f] = op[f])
  BY <1>1, <1>2, <1>o DEF Settled, Fresh
<1>6. PointsToHeld'
  BY <1>1, <1>t DEF PointsToHeld, Settled
<1>7. OneOwner'
  BY <1>1, <1>t DEF OneOwner
<1>8. UsesAreKept'
  <2>1. \A b \in Accumulators : Kept(b) \subseteq Kept(b)'
    BY <1>1, <1>o, KeptStays
  <2> QED
    BY <1>1, <1>t, <2>1, UsesStay
<1> QED
  BY <1>3, <1>4, <1>5, <1>6, <1>7, <1>8

\* An executable goes, and the operation on it is over.
LEMMA CloseInv ==
  ASSUME IInv, NEW e \in Execs,
         exec' = [exec EXCEPT ![e] = Closed], attachments' = [attachments EXCEPT ![e] = None],
         op' \in [Execs -> OpTypes], op'[e].step = "idle", \A f \in Execs : f # e => op'[f] = op[f],
         left' \subseteq Accumulators, UNCHANGED <<source, launch, state, owners, user>>
  PROVE  IInv'
<1> USE DEF IInv
<1>1. op' \in [Execs -> OpTypes] /\ op'[e].step = "idle" /\ \A f \in Execs : f # e => op'[f] = op[f]
  OBVIOUS
<1>2. /\ exec' \in [Execs -> [open : BOOLEAN, uses : [Nodes -> SUBSET Owners], holds : SUBSET Accumulators]]
      /\ exec'[e] = Closed /\ ~exec'[e].open /\ exec'[e].holds = {} /\ \A n \in Nodes : exec'[e].uses[n] = {}
      /\ \A f \in Execs : f # e => exec'[f] = exec[f]
  BY DEF TypeOK, Closed
<1>3. /\ attachments' \in [Execs -> Accumulators \cup {None}] /\ attachments'[e] = None
      /\ \A f \in Execs : f # e => attachments'[f] = attachments[f]
  BY DEF TypeOK
<1>4. TypeOK'
  <2>1. Known'
    BY <1>1, <1>2, <1>3 DEF TypeOK, Known, Staging
  <2> QED
    BY <1>1, <1>2, <1>3, <2>1 DEF TypeOK, Known, OpTypes, Steps
<1>5. Operations'
  <2>1. ASSUME NEW f \in Execs, f # e PROVE OpOK(f)'
    <3>1. OpOK(f) /\ op'[f] = op[f] /\ exec'[f] = exec[f] /\ attachments'[f] = attachments[f]
      BY <1>1, <1>2, <1>3, <2>1 DEF Operations
    <3>2. op[f].step \in Staging => op[f].a \in source'[op[f].s]
      BY <3>1 DEF OpOK
    <3> QED
      BY <3>1, <3>2, OpStays
  <2>2. OpOK(e)'
    BY <1>1 DEF OpOK, Staging
  <2> QED
    BY <2>1, <2>2 DEF Operations
<1>6. RetainedIsAlive'
  <2>1. ASSUME NEW b \in Accumulators, Referenced(b)' PROVE Referenced(b)
    BY <1>2, <2>1 DEF Referenced
  <2> QED
    BY <2>1, RetainedStays
<1>7. PointsToHeld'
  BY <1>1, <1>2, <1>3 DEF PointsToHeld, Settled
<1>8. OneOwner'
  BY <1>1, <1>2, <1>3 DEF OneOwner, Settled, Fresh
<1>9. UsesAreKept'
  <2>1. \A b \in Accumulators : Kept(b) \subseteq Kept(b)'
    BY <1>1, KeptStays
  <2> QED
    BY <1>1, <1>2, <1>3, <2>1, UsesStay DEF Settled
<1> QED
  BY <1>4, <1>5, <1>6, <1>7, <1>8, <1>9

LEMMA ReleaseFailedInv ==
  ASSUME IInv, NEW e \in Execs, ReleaseFailed(e)
  PROVE  IInv'
<1> USE DEF IInv
<1>1. /\ op[e].step \in {"adopted", "published"}
      /\ op' = [op EXCEPT ![e] = Idle]
      /\ left' = left \cup {op[e].a}
      /\ UNCHANGED <<source, launch, state, owners, user>>
  BY DEF ReleaseFailed, Done
<1>2. left' \subseteq Accumulators
  BY <1>1 DEF TypeOK, Staging
<1>3. CASE op[e].step = "adopted"
  <2>1. op' \in [Execs -> OpTypes] /\ op'[e].step = "idle" /\ \A f \in Execs : f # e => op'[f] = op[f]
    BY <1>1, TypeParts DEF OpTypes, Steps, Idle
  <2> QED
    BY <1>1, <1>2, <1>3, <2>1, CloseInv DEF ReleaseFailed
<1>4. CASE op[e].step = "published"
  <2>1. UNCHANGED <<exec, attachments>>
    BY <1>4 DEF ReleaseFailed
  <2>2. /\ op' \in [Execs -> OpTypes] /\ op'[e].step = "idle"
        /\ \A f \in Execs : f # e => op'[f] = op[f]
    BY <1>1, TypeParts DEF OpTypes, Steps, Idle
  <2>3. \A f \in Execs : (Settled(f)' <=> Settled(f)) /\ (Fresh(f)' => Fresh(f) /\ op'[f] = op[f])
    BY <1>4, <2>1, <2>2 DEF Settled, Fresh
  <2>4. TypeOK'
    <3>1. Known'
      <4>1. \A f \in Execs : Settled(f) => attachments[f] # None
        BY NoneIsNothing DEF PointsToHeld
      <4>2. \A f \in Execs : exec'[f].open /\ op'[f].step \notin {"update", "publish"} => Settled(f)
        BY <1>4, <2>1, <2>2 DEF Settled
      <4> QED
        BY <2>1, <2>2, <4>1, <4>2 DEF TypeOK, Known, Staging
    <3> QED
      BY <1>1, <1>2, <2>1, <2>2, <3>1 DEF TypeOK, Known, OpTypes, Steps
  <2>5. Operations'
    <3>1. ASSUME NEW f \in Execs, f # e PROVE OpOK(f)'
      BY <1>1, <2>1, <2>2, <3>1, OpStays, SMTT(30) DEF Operations, OpOK
    <3>2. OpOK(e)'
      BY <2>2 DEF OpOK, Staging
    <3> QED
      BY <3>1, <3>2 DEF Operations
  <2>6. RetainedIsAlive'
    <3>1. ASSUME NEW b \in Accumulators, Referenced(b)' PROVE Referenced(b)
      BY <1>1, <2>1, <3>1 DEF Referenced
    <3> QED
      BY <1>1, <3>1, RetainedStays
  <2>7. PointsToHeld' /\ OneOwner'
    BY <2>1, <2>3 DEF PointsToHeld, OneOwner
  <2>8. UsesAreKept'
    <3>1. \A b \in Accumulators : Kept(b) \subseteq Kept(b)'
      BY <1>1, <2>2, KeptStays
    <3> QED
      BY <1>1, <2>1, <2>3, <3>1, UsesStay
  <2> QED
    BY <2>4, <2>5, <2>6, <2>7, <2>8
<1> QED
  BY <1>1, <1>3, <1>4

\* Nobody else has an update under way on the accumulator of e.
LEMMA OneUpdate ==
  ASSUME IInv, NEW e \in Execs, NEW f \in Execs, e # f, Settled(e), op[f].step = "set_params"
  PROVE  op[f].a # attachments[e]
  BY DEF IInv, Operations, OpOK, OneOwner, Settled

\* An update of a node brings in one or two resources.
LEMMA NewOwners ==
  ASSUME NEW new \in New PROVE new \in Seq(Owners)
<1>1. \A o \in Owners : <<o>> \in Seq(Owners)
  OBVIOUS
<1>2. \A o \in Owners, q \in Owners : <<o, q>> \in Seq(Owners)
  OBVIOUS
<1>3. (\E o \in Owners : new = <<o>>) \/ (\E o \in Owners, q \in Owners : new = <<o, q>>)
  BY SMT DEF New
<1> QED
  BY <1>1, <1>2, <1>3

LEMMA PrepareInv ==
  ASSUME IInv, NEW e \in Execs, NEW n \in Nodes, NEW new \in New, Prepare(e, n, new)
  PROVE  IInv'
<1> USE DEF IInv
<1> DEFINE a == attachments[e]
<1>1. /\ exec[e].open /\ op[e].step = "idle" /\ Elements(new) \subseteq user
      /\ owners' = [owners EXCEPT ![a] = owners[a] \o new]
      /\ op' = [op EXCEPT ![e] = Prepared(a, Len(owners[a]), n, new)]
      /\ UNCHANGED <<source, exec, launch, attachments, state, user, left>>
  BY DEF Prepare, Appended
<1>2. /\ a \in Accumulators /\ a \in exec[e].holds /\ state[a] = "alive" /\ Settled(e)
      /\ owners[a] \in Seq(Owners) /\ new \in Seq(Owners)
  <2>1. Settled(e) /\ a \in Accumulators /\ a \in exec[e].holds
    BY <1>1 DEF Settled, PointsToHeld
  <2>2. state[a] = "alive" /\ owners[a] \in Seq(Owners)
    BY <2>1 DEF RetainedIsAlive, Referenced, TypeOK
  <2>3. new \in Seq(Owners)
    BY NewOwners
  <2> QED
    BY <2>1, <2>2, <2>3
<1> HIDE DEF a
<1>3. /\ owners' \in [Accumulators -> Seq(Owners)] /\ owners'[a] = owners[a] \o new
      /\ \A b \in Accumulators : b # a => owners'[b] = owners[b]
  BY <1>1, <1>2 DEF TypeOK
<1>4. /\ op' \in [Execs -> OpTypes] /\ op'[e] = Prepared(a, Len(owners[a]), n, new)
      /\ \A f \in Execs : f # e => op'[f] = op[f]
  BY <1>1, <1>2, TypeParts DEF OpTypes, Steps, Prepared
<1>5. \A f \in Execs : (Settled(f)' <=> Settled(f)) /\ (Fresh(f)' => Fresh(f) /\ op'[f] = op[f])
  BY <1>1, <1>4 DEF Settled, Fresh, Prepared
<1>6. TypeOK'
  <2>1. Known'
    BY <1>1, <1>2, <1>4 DEF TypeOK, Known, Staging, Prepared
  <2> QED
    BY <1>1, <1>3, <1>4, <2>1 DEF TypeOK, Known, OpTypes, Steps
<1>7. Operations'
  <2>1. ASSUME NEW f \in Execs, f # e PROVE OpOK(f)'
    <3>1. OpOK(f) /\ op'[f] = op[f] /\ source' = source /\ exec' = exec /\ attachments' = attachments
      BY <1>1, <1>4, <2>1 DEF Operations
    <3>2. ASSUME op[f].step = "set_params" PROVE owners'[op[f].a] = owners[op[f].a]
      <4>1. op[f].a # a
        BY <1>2, <2>1, <3>2, OneUpdate DEF a
      <4>2. op[f].a \in Accumulators
        BY <3>1, <3>2 DEF OpOK, PointsToHeld, Settled
      <4> QED
        BY <1>3, <4>1, <4>2
    <3> QED
      BY <3>1, <3>2, OpStays DEF OpOK
  <2>2. Elements(new) \subseteq Elements(owners'[a])
    <3>1. ASSUME NEW i \in 1 .. Len(new)
          PROVE  /\ Len(owners[a]) + i \in 1 .. Len(owners'[a])
                 /\ owners'[a][Len(owners[a]) + i] = new[i]
      BY <1>2, <1>3
    <3> QED
      BY <3>1 DEF Elements
  <2>3. Len(owners[a]) <= Len(owners'[a])
    BY <1>2, <1>3
  <2>4. OpOK(e)'
    BY <1>1, <1>4, <2>2, <2>3 DEF OpOK, Staging, Prepared, a
  <2> QED
    BY <2>1, <2>4 DEF Operations
<1>8. RetainedIsAlive'
  <2>1. \A b \in Accumulators : Referenced(b)' <=> Referenced(b)
    BY <1>1 DEF Referenced
  <2> QED
    BY <1>1, <1>2, <1>3, <2>1 DEF RetainedIsAlive
<1>9. PointsToHeld' /\ OneOwner'
  BY <1>1, <1>5 DEF PointsToHeld, OneOwner
<1>10. UsesAreKept'
  <2>1. ASSUME NEW b \in Accumulators, NEW o \in Kept(b) PROVE o \in Kept(b)'
    <3>1. PICK i \in 1 .. Len(owners[b]) :
            o = owners[b][i] /\ \A f \in Execs : op[f].step = "set_params" /\ op[f].a = b => i <= op[f].size
      BY <2>1 DEF Kept
    <3>2. owners[b] \in Seq(Owners)
      BY DEF TypeOK
    <3>3. i \in 1 .. Len(owners'[b]) /\ owners'[b][i] = o
      <4>1. CASE b = a
        BY <1>2, <1>3, <3>1, <4>1
      <4>2. CASE b # a
        BY <1>3, <3>1, <4>2
      <4> QED
        BY <4>1, <4>2
    <3>4. \A f \in Execs : op'[f].step = "set_params" /\ op'[f].a = b => i <= op'[f].size
      BY <1>4, <3>1, <3>2 DEF Prepared
    <3> QED
      BY <3>3, <3>4 DEF Kept
  <2> QED
    BY <1>1, <1>5, <2>1, UsesStay
<1> QED
  BY <1>6, <1>7, <1>8, <1>9, <1>10

\* An update of a node ends: its owners are those kept until now, and the other
\* accumulators stay as they are.
LEMMA UpdateOver ==
  ASSUME IInv, NEW e \in Execs, op[e].step = "set_params",
         op' = [op EXCEPT ![e] = Idle],
         owners' \in [Accumulators -> Seq(Owners)],
         op[e].size <= Len(owners'[op[e].a]),
         \A i \in 1 .. op[e].size : owners'[op[e].a][i] = owners[op[e].a][i],
         \A b \in Accumulators : b # op[e].a => owners'[b] = owners[b],
         exec' \in [Execs -> [open : BOOLEAN, uses : [Nodes -> SUBSET Owners], holds : SUBSET Accumulators]],
         \A f \in Execs : exec'[f].open = exec[f].open /\ exec'[f].holds = exec[f].holds,
         \A f \in Execs : f # e => exec'[f] = exec[f],
         \A m \in Nodes : \/ exec'[e].uses[m] = exec[e].uses[m]
                           \/ exec'[e].uses[m] \subseteq Elements(owners'[op[e].a]),
         UNCHANGED <<source, launch, attachments, state, user, left>>
  PROVE  IInv'
<1> USE DEF IInv
<1> DEFINE a == op[e].a
<1>1. /\ a = attachments[e] /\ a \in Accumulators /\ state[a] = "alive" /\ Settled(e) /\ exec[e].open
      /\ op[e].size \in Nat /\ op[e].size <= Len(owners[a])
  <2>1. a = attachments[e] /\ Settled(e) /\ exec[e].open /\ op[e].size <= Len(owners[a])
    BY DEF Operations, OpOK, Settled
  <2>2. a \in Accumulators /\ a \in exec[e].holds
    BY <2>1 DEF PointsToHeld
  <2>3. op[e].size \in Nat
    BY DEF TypeOK
  <2> QED
    BY <2>1, <2>2, <2>3 DEF RetainedIsAlive, Referenced
<1>2. /\ op' \in [Execs -> OpTypes] /\ op'[e].step = "idle"
      /\ \A f \in Execs : f # e => op'[f] = op[f]
  BY TypeParts DEF OpTypes, Steps, Idle
<1>3. \A f \in Execs : (Settled(f)' <=> Settled(f)) /\ (Fresh(f)' => Fresh(f) /\ op'[f] = op[f])
  BY <1>1, <1>2 DEF Settled, Fresh
<1> HIDE DEF a
<1>4. TypeOK'
  <2>1. Known'
    BY <1>1, <1>2, NoneIsNothing DEF TypeOK, Known, Staging
  <2> QED
    BY <1>2, <2>1 DEF TypeOK, Known, OpTypes, Steps
<1>5. Operations'
  <2>1. ASSUME NEW f \in Execs, f # e PROVE OpOK(f)'
    <3>1. OpOK(f) /\ op'[f] = op[f] /\ source' = source /\ exec'[f] = exec[f] /\ attachments' = attachments
      BY <1>2, <2>1 DEF Operations
    <3>2. ASSUME op[f].step = "set_params" PROVE owners'[op[f].a] = owners[op[f].a]
      <4>1. op[f].a # a
        BY <1>1, <2>1, <3>2, OneUpdate
      <4>2. op[f].a \in Accumulators
        BY <3>1, <3>2 DEF OpOK, PointsToHeld, Settled
      <4> QED
        BY <4>1, <4>2 DEF a
    <3> QED
      BY <3>1, <3>2, OpStays DEF OpOK
  <2>2. OpOK(e)'
    BY <1>2 DEF OpOK, Staging
  <2> QED
    BY <2>1, <2>2 DEF Operations
<1>6. RetainedIsAlive'
  <2>1. \A b \in Accumulators : Referenced(b)' <=> Referenced(b)
    BY DEF Referenced
  <2> QED
    BY <1>1, <2>1 DEF RetainedIsAlive, a
<1>7. PointsToHeld'
  BY <1>1, <1>3 DEF PointsToHeld
<1>8. OneOwner'
  BY <1>3 DEF OneOwner
<1>9. ASSUME NEW b \in Accumulators PROVE Kept(b) \subseteq Kept(b)'
  <2> SUFFICES ASSUME NEW o \in Kept(b) PROVE o \in Kept(b)'
    OBVIOUS
  <2>1. PICK i \in 1 .. Len(owners[b]) :
          o = owners[b][i] /\ \A f \in Execs : op[f].step = "set_params" /\ op[f].a = b => i <= op[f].size
    BY DEF Kept
  <2>2. owners[b] \in Seq(Owners) /\ owners'[b] \in Seq(Owners)
    BY DEF TypeOK
  <2>3. i \in 1 .. Len(owners'[b]) /\ owners'[b][i] = o
    <3>1. CASE b = a
      BY <1>1, <2>1, <2>2, <3>1 DEF a
    <3>2. CASE b # a
      BY <2>1, <3>2 DEF a
    <3> QED
      BY <3>1, <3>2
  <2>4. \A f \in Execs : op'[f].step = "set_params" /\ op'[f].a = b => i <= op'[f].size
    BY <1>2, <2>1
  <2> QED
    BY <2>3, <2>4 DEF Kept
<1>10. UsesAreKept'
  <2>2. ASSUME NEW f \in Execs, NEW m \in Nodes, NEW o \in exec'[f].uses[m]
        PROVE  Settled(f)' /\ o \in Kept(attachments[f])'
    <3>1. CASE exec'[f].uses[m] = exec[f].uses[m]
      <4>1. Settled(f) /\ o \in Kept(attachments[f])
        BY <2>2, <3>1 DEF UsesAreKept
      <4>2. attachments[f] \in Accumulators
        BY <4>1 DEF PointsToHeld
      <4>3. PICK b \in Accumulators : b = attachments[f]
        BY <4>2
      <4>4. o \in Kept(b)'
        BY <1>9, <4>1, <4>3
      <4> QED
        BY <1>3, <4>1, <4>3, <4>4 DEF Kept
    <3>2. CASE f = e /\ exec'[e].uses[m] \subseteq Elements(owners'[a])
      <4>1. PICK i \in 1 .. Len(owners'[a]) : o = owners'[a][i]
        BY <2>2, <3>2 DEF Elements
      <4>2. \A g \in Execs : ~(op'[g].step = "set_params" /\ op'[g].a = a)
        BY <1>1, <1>2, OneUpdate DEF a
      <4>3. attachments'[f] = a /\ Settled(f)'
        BY <1>1, <1>3, <3>2
      <4> QED
        BY <4>1, <4>2, <4>3 DEF Kept
    <3> QED
      BY <3>1, <3>2 DEF a
  <2>3. ASSUME NEW l \in Launches, NEW o \in launch'[l].uses
        PROVE  \E b \in launch'[l].holds : o \in Kept(b)'
    <3>1. PICK b \in launch[l].holds : o \in Kept(b)
      BY <2>3 DEF UsesAreKept
    <3>2. b \in Accumulators
      BY <3>1 DEF TypeOK
    <3> QED
      BY <1>9, <3>1, <3>2
  <2> QED
    BY <2>2, <2>3 DEF UsesAreKept
<1> QED
  BY <1>4, <1>5, <1>6, <1>7, <1>8, <1>10

LEMMA SetParamsInv ==
  ASSUME IInv, NEW e \in Execs, SetParams(e)
  PROVE  IInv'
<1> USE DEF IInv
<1>1. /\ op[e].step = "set_params" /\ op' = [op EXCEPT ![e] = Idle]
      /\ exec' = [exec EXCEPT ![e].uses[op[e].n] = Elements(op[e].new)]
      /\ UNCHANGED <<source, launch, attachments, state, owners, user, left>>
  BY DEF SetParams, Done
<1>2. /\ op[e].n \in Nodes /\ op[e].size <= Len(owners[op[e].a])
      /\ Elements(op[e].new) \subseteq Elements(owners[op[e].a])
  BY <1>1 DEF Operations, OpOK
<1>3. op[e].new \in Seq(Owners) /\ owners \in [Accumulators -> Seq(Owners)]
  BY DEF TypeOK
<1>4. Elements(op[e].new) \subseteq Owners
  BY <1>3 DEF Elements
<1>5. exec \in [Execs -> [open : BOOLEAN, uses : [Nodes -> SUBSET Owners], holds : SUBSET Accumulators]]
  BY DEF TypeOK
<1> DEFINE x == [exec[e] EXCEPT !.uses[op[e].n] = Elements(op[e].new)]
<1>6. /\ x \in [open : BOOLEAN, uses : [Nodes -> SUBSET Owners], holds : SUBSET Accumulators]
      /\ x.open = exec[e].open /\ x.holds = exec[e].holds
      /\ \A m \in Nodes : x.uses[m] = exec[e].uses[m] \/ x.uses[m] = Elements(op[e].new)
  BY <1>2, <1>4, <1>5
<1>7. exec' = [exec EXCEPT ![e] = x]
  BY <1>1
<1> HIDE DEF x
<1>8. /\ exec' \in [Execs -> [open : BOOLEAN, uses : [Nodes -> SUBSET Owners], holds : SUBSET Accumulators]]
      /\ exec'[e] = x /\ \A f \in Execs : f # e => exec'[f] = exec[f]
  BY <1>5, <1>6, <1>7
<1> QED
  BY <1>1, <1>2, <1>3, <1>6, <1>8, UpdateOver

LEMMA RollbackInv ==
  ASSUME IInv, NEW e \in Execs, Rollback(e)
  PROVE  IInv'
<1> USE DEF IInv
<1> DEFINE a == op[e].a
<1> DEFINE q == SubSeq(owners[a], 1, op[e].size)
<1>1. /\ op[e].step = "set_params" /\ op' = [op EXCEPT ![e] = Idle]
      /\ owners' = [owners EXCEPT ![a] = q]
      /\ UNCHANGED <<source, exec, launch, attachments, state, user, left>>
  BY DEF Rollback, Truncated, Done
<1>2. a \in Accumulators /\ op[e].size <= Len(owners[a])
  <2>1. exec[e].open /\ a = attachments[e] /\ op[e].size <= Len(owners[a])
    BY <1>1 DEF Operations, OpOK
  <2> QED
    BY <1>1, <2>1 DEF PointsToHeld, Settled
<1>3. owners[a] \in Seq(Owners) /\ op[e].size \in Nat
  BY <1>2 DEF TypeOK
<1>4. q \in Seq(Owners) /\ Len(q) = op[e].size /\ \A i \in 1 .. op[e].size : q[i] = owners[a][i]
  <2>1. ASSUME NEW r \in Seq(Owners), NEW k \in Nat, k <= Len(r)
        PROVE  /\ SubSeq(r, 1, k) \in Seq(Owners) /\ Len(SubSeq(r, 1, k)) = k
               /\ \A i \in 1 .. k : SubSeq(r, 1, k)[i] = r[i]
    BY <2>1
  <2> QED
    BY <1>2, <1>3, <2>1
<1> HIDE DEF q
<1>5. /\ owners' \in [Accumulators -> Seq(Owners)] /\ owners'[a] = q
      /\ \A b \in Accumulators : b # a => owners'[b] = owners[b]
  BY <1>1, <1>2, <1>4 DEF TypeOK
<1>6. exec' \in [Execs -> [open : BOOLEAN, uses : [Nodes -> SUBSET Owners], holds : SUBSET Accumulators]]
  BY <1>1 DEF TypeOK
<1>7. /\ op[e].size <= Len(owners'[a])
      /\ \A i \in 1 .. op[e].size : owners'[a][i] = owners[a][i]
  BY <1>3, <1>4, <1>5
<1>8. \A f \in Execs : exec'[f] = exec[f]
  BY <1>1
<1> QED
  BY <1>1, <1>5, <1>6, <1>7, <1>8, UpdateOver

\* A launch begins with what its executable has, or ends.
LEMMA LaunchInv ==
  ASSUME IInv, NEW l \in Launches, Complete(l) \/ \E e \in Execs : Launch(e, l)
  PROVE  IInv'
<1> USE DEF IInv
<1>1. UNCHANGED <<source, exec, attachments, state, owners, user, op, left>>
  BY DEF Launch, Complete
<1>2. /\ launch' \in [Launches -> [on : BOOLEAN, uses : SUBSET Owners, holds : SUBSET Accumulators]]
      /\ \A k \in Launches : k # l => launch'[k] = launch[k]
      /\ \/ launch'[l].uses = {} /\ launch'[l].holds = {}
         \/ \E e \in Execs :
               /\ exec[e].open /\ op[e].step = "idle"
               /\ launch'[l].uses = UNION {exec[e].uses[n] : n \in Nodes}
               /\ launch'[l].holds = exec[e].holds
  <2>1. CASE Complete(l)
    BY <2>1 DEF Complete, TypeOK, Ended
  <2>2. ASSUME NEW e \in Execs, Launch(e, l)
        PROVE  /\ launch' \in [Launches -> [on : BOOLEAN, uses : SUBSET Owners, holds : SUBSET Accumulators]]
               /\ \A k \in Launches : k # l => launch'[k] = launch[k]
               /\ exec[e].open /\ op[e].step = "idle"
               /\ launch'[l].uses = UNION {exec[e].uses[n] : n \in Nodes}
               /\ launch'[l].holds = exec[e].holds
    <3>1. UNION {exec[e].uses[n] : n \in Nodes} \subseteq Owners /\ exec[e].holds \subseteq Accumulators
      BY DEF TypeOK
    <3> QED
      BY <2>2, <3>1 DEF Launch, TypeOK
  <2> QED
    BY <2>1, <2>2
<1>3. TypeOK'
  BY <1>1, <1>2 DEF TypeOK
<1>4. Operations' /\ PointsToHeld' /\ OneOwner'
  BY <1>1 DEF Operations, OpOK, PointsToHeld, OneOwner, Settled, Fresh
<1>5. RetainedIsAlive'
  <2>1. ASSUME NEW b \in Accumulators, Referenced(b)' PROVE Referenced(b)
    BY <1>1, <1>2, <2>1 DEF Referenced
  <2> QED
    BY <1>1, <2>1, RetainedStays
<1>6. UsesAreKept'
  <2>1. \A b : Kept(b)' = Kept(b)
    BY <1>1 DEF Kept
  <2>2. ASSUME NEW f \in Execs, NEW m \in Nodes, NEW o \in exec'[f].uses[m]
        PROVE  Settled(f)' /\ o \in Kept(attachments[f])'
    BY <1>1, <2>2 DEF UsesAreKept, Settled, Kept
  <2>3. ASSUME NEW k \in Launches, NEW o \in launch'[k].uses
        PROVE  \E a \in launch'[k].holds : o \in Kept(a)'
    <3>1. CASE launch'[k] = launch[k]
      BY <2>1, <2>3, <3>1 DEF UsesAreKept
    <3>2. ASSUME NEW e \in Execs, exec[e].open, op[e].step = "idle",
                 launch'[k].uses = UNION {exec[e].uses[n] : n \in Nodes},
                 launch'[k].holds = exec[e].holds
          PROVE  \E a \in launch'[k].holds : o \in Kept(a)'
      <4>1. o \in Kept(attachments[e]) /\ attachments[e] \in exec[e].holds
        BY <2>3, <3>2 DEF UsesAreKept, PointsToHeld, Settled
      <4> QED
        BY <2>1, <3>2, <4>1
    <3> QED
      BY <1>2, <2>3, <3>1, <3>2
  <2> QED
    BY <2>2, <2>3 DEF UsesAreKept
<1> QED
  BY <1>3, <1>4, <1>5, <1>6

\* A source graph is destroyed, and what it retained with it.
LEMMA DropSourceInv ==
  ASSUME IInv, NEW s \in Sources, DropSource(s)
  PROVE  IInv'
<1> USE DEF IInv
<1>1. /\ \A e \in Execs : op[e].s # s
      /\ source' = [source EXCEPT ![s] = {}]
      /\ UNCHANGED <<exec, launch, attachments, state, owners, user, op, left>>
  BY DEF DropSource
<1>2. /\ source' \in [Sources -> SUBSET Accumulators]
      /\ \A t \in Sources : source'[t] \subseteq source[t]
      /\ \A t : t # s => source'[t] = source[t]
  <2>1. source \in [Sources -> SUBSET Accumulators]
    BY DEF TypeOK
  <2> QED
    BY <1>1, <2>1
<1>3. TypeOK'
  BY <1>1, <1>2 DEF TypeOK
<1>4. Operations'
  <2> SUFFICES ASSUME NEW f \in Execs PROVE OpOK(f)'
    BY DEF Operations
  <2>1. OpOK(f)
    BY DEF Operations
  <2>2. op[f].step \in Staging => op[f].a \in source'[op[f].s]
    BY <1>1, <1>2, <2>1 DEF OpOK
  <2> QED
    BY <1>1, <2>1, <2>2, OpStays
<1>5. RetainedIsAlive'
  <2>1. ASSUME NEW b \in Accumulators, Referenced(b)' PROVE Referenced(b)
    BY <1>1, <1>2, <2>1 DEF Referenced
  <2> QED
    BY <1>1, <2>1, RetainedStays
<1>6. PointsToHeld' /\ OneOwner' /\ UsesAreKept'
  BY <1>1 DEF PointsToHeld, OneOwner, UsesAreKept, Settled, Fresh, Kept
<1> QED
  BY <1>3, <1>4, <1>5, <1>6

LEMMA DropOwnerInv ==
  ASSUME IInv, NEW o \in Owners, DropOwner(o)
  PROVE  IInv'
<1> USE DEF IInv
<1>1. user' \subseteq Owners /\ UNCHANGED <<source, exec, launch, attachments, state, owners, op, left>>
  BY DEF DropOwner, TypeOK
<1>2. TypeOK'
  BY <1>1 DEF TypeOK
<1>3. Operations' /\ PointsToHeld' /\ OneOwner'
  BY <1>1 DEF Operations, OpOK, PointsToHeld, OneOwner, Settled, Fresh
<1>4. RetainedIsAlive' /\ UsesAreKept'
  BY <1>1 DEF RetainedIsAlive, Referenced, UsesAreKept, Settled, Kept
<1> QED
  BY <1>2, <1>3, <1>4

\* CUDA's destructor callback, and the call that destroys an accumulator.
LEMMA RetireInv ==
  ASSUME IInv, NEW a \in Accumulators, Retire(a)
  PROVE  IInv'
<1> USE DEF IInv
<1>1. /\ state[a] = "alive" /\ ~Referenced(a) /\ state' = [state EXCEPT ![a] = "retired"]
      /\ UNCHANGED <<source, exec, launch, attachments, owners, user, op, left>>
  BY DEF Retire
<1>2. TypeOK'
  BY <1>1 DEF TypeOK
<1>3. Operations' /\ PointsToHeld' /\ OneOwner'
  BY <1>1 DEF Operations, OpOK, PointsToHeld, OneOwner, Settled, Fresh
<1>4. RetainedIsAlive'
  <2>1. \A b \in Accumulators : Referenced(b)' <=> Referenced(b)
    BY <1>1 DEF Referenced
  <2>2. state \in [Accumulators -> {"unused", "alive", "retired"}]
    BY DEF TypeOK
  <2> QED
    BY <1>1, <2>1, <2>2 DEF RetainedIsAlive
<1>5. UsesAreKept'
  BY <1>1 DEF UsesAreKept, Settled, Kept
<1> QED
  BY <1>2, <1>3, <1>4, <1>5

LEMMA DrainInv ==
  ASSUME IInv, NEW a \in Accumulators, Drain(a)
  PROVE  IInv'
<1> USE DEF IInv
<1>1. /\ state[a] = "retired" /\ state' = [state EXCEPT ![a] = "unused"]
      /\ owners' = [owners EXCEPT ![a] = <<>>] /\ left' = left \ {a}
      /\ UNCHANGED <<source, exec, launch, attachments, user, op>>
  BY DEF Drain
<1>2. /\ state' \in [Accumulators -> {"unused", "alive", "retired"}] /\ state'[a] = "unused"
      /\ owners' \in [Accumulators -> Seq(Owners)] /\ owners'[a] = <<>>
      /\ \A b \in Accumulators : b # a => state'[b] = state[b] /\ owners'[b] = owners[b]
  BY <1>1 DEF TypeOK
<1>3. TypeOK'
  <2>1. left' \subseteq Accumulators
    BY <1>1 DEF TypeOK
  <2> QED
    BY <1>1, <1>2, <2>1 DEF TypeOK
<1>4. ~Referenced(a)
  BY <1>1 DEF RetainedIsAlive
<1>5. Operations'
  <2> SUFFICES ASSUME NEW f \in Execs PROVE OpOK(f)'
    BY DEF Operations
  <2>1. OpOK(f)
    BY DEF Operations
  <2>2. ASSUME op[f].step = "set_params" PROVE owners'[op[f].a] = owners[op[f].a]
    <3>1. exec[f].open /\ op[f].a = attachments[f]
      BY <2>1, <2>2 DEF OpOK
    <3>2. op[f].a \in Accumulators /\ op[f].a \in exec[f].holds
      BY <2>2, <3>1 DEF PointsToHeld, Settled
    <3>3. op[f].a # a
      BY <1>4, <3>2 DEF Referenced
    <3> QED
      BY <1>2, <3>2, <3>3
  <2> QED
    BY <1>1, <2>1, <2>2, OpStays DEF OpOK
<1>6. RetainedIsAlive'
  <2>1. \A b \in Accumulators : Referenced(b)' <=> Referenced(b)
    BY <1>1 DEF Referenced
  <2> QED
    BY <1>2, <1>4, <2>1 DEF RetainedIsAlive
<1>7. PointsToHeld' /\ OneOwner'
  BY <1>1 DEF PointsToHeld, OneOwner, Settled, Fresh
<1>8. UsesAreKept'
  <2>1. ASSUME NEW b \in Accumulators, state[b] = "alive" PROVE Kept(b) \subseteq Kept(b)'
    BY <1>1, <1>2, <2>1, KeptStays
  <2>2. \A f \in Execs : Settled(f)' <=> Settled(f)
    BY <1>1 DEF Settled
  <2> QED
    BY <1>1, <2>1, <2>2, UsesStay
<1> QED
  BY <1>3, <1>5, <1>6, <1>7, <1>8

LEMMA CloseKeeps ==
  ASSUME IInv, NEW e \in Execs, Close(e)
  PROVE  IInv'
<1>1. /\ op[e].step = "idle"
      /\ exec' = [exec EXCEPT ![e] = Closed] /\ attachments' = [attachments EXCEPT ![e] = None]
      /\ UNCHANGED <<source, launch, state, owners, user, op, left>>
  BY DEF Close
<1>2. op \in [Execs -> OpTypes] /\ left \subseteq Accumulators
  BY TypeParts DEF IInv
<1> QED
  BY <1>1, <1>2, CloseInv

-----------------------------------------------------------------------------
(* The theorems.                                                           *)

LEMMA InvInit == Init => IInv
<1> SUFFICES ASSUME Init PROVE IInv
  OBVIOUS
<1>1. \A e \in Execs : op[e] = Idle /\ exec[e] = Closed /\ attachments[e] = None
  BY DEF Init
<1>2. TypeOK
  <2>1. Idle \in OpTypes /\ <<>> \in Seq(Owners)
    BY DEF Idle, OpTypes, Steps
  <2>2. Closed \in [open : BOOLEAN, uses : [Nodes -> SUBSET Owners], holds : SUBSET Accumulators]
    BY DEF Closed
  <2>3. Known
    BY <1>1 DEF Known, Idle, Closed, Staging
  <2>4. /\ op \in [Execs -> OpTypes] /\ owners \in [Accumulators -> Seq(Owners)]
        /\ exec \in [Execs -> [open : BOOLEAN, uses : [Nodes -> SUBSET Owners], holds : SUBSET Accumulators]]
    BY <2>1, <2>2 DEF Init
  <2>5. /\ source \in [Sources -> SUBSET Accumulators]
        /\ launch \in [Launches -> [on : BOOLEAN, uses : SUBSET Owners, holds : SUBSET Accumulators]]
        /\ attachments \in [Execs -> Accumulators \cup {None}]
        /\ state \in [Accumulators -> {"unused", "alive", "retired"}]
        /\ user \subseteq Owners /\ left \subseteq Accumulators
    BY DEF Init, Ended
  <2> QED
    BY <2>3, <2>4, <2>5 DEF TypeOK, Known, OpTypes, Steps
<1>3. Operations /\ PointsToHeld /\ OneOwner
  <2>1. \A e \in Execs : op[e].step = "idle" /\ ~exec[e].open
    BY <1>1 DEF Idle, Closed
  <2>2. \A e \in Execs : ~Settled(e) /\ ~Fresh(e)
    BY <2>1 DEF Settled, Fresh
  <2> QED
    BY <1>1, <2>1, <2>2 DEF Operations, OpOK, PointsToHeld, OneOwner, Staging
<1>4. RetainedIsAlive
  BY DEF Init, RetainedIsAlive, Referenced, Closed, Ended
<1>5. UsesAreKept
  BY DEF Init, UsesAreKept, Closed, Ended
<1> QED
  BY <1>2, <1>3, <1>4, <1>5 DEF IInv

LEMMA InvNext == IInv /\ [Next]_vars => IInv'
<1> SUFFICES ASSUME IInv, [Next]_vars PROVE IInv'
  OBVIOUS
<1>1. ASSUME NEW e \in Execs, NEW a \in Accumulators, NEW s \in Sources,
             StageInstantiate(e, s, a) \/ StageUpdate(e, s, a)
      PROVE  IInv'
  BY <1>1, StageInv
<1>2. ASSUME NEW e \in Execs, NEW a \in Accumulators, StageFails(e, a) PROVE IInv'
  BY <1>2, StageFailsInv
<1>3. ASSUME NEW e \in Execs,
             Instantiate(e) \/ Update(e) \/ Publish(e) \/ CudaFails(e) \/ Release(e) \/ ReleaseFailed(e)
      PROVE  IInv'
  BY <1>3, InstantiateInv, UpdateInv, PublishInv, UnstageInv, ReleaseFailedInv
<1>4. ASSUME NEW e \in Execs,
             \/ \E n \in Nodes, new \in New : Prepare(e, n, new)
             \/ SetParams(e) \/ Rollback(e) \/ Close(e)
      PROVE  IInv'
  BY <1>4, PrepareInv, SetParamsInv, RollbackInv, CloseKeeps
<1>5. ASSUME NEW l \in Launches, Complete(l) \/ \E e \in Execs : Launch(e, l) PROVE IInv'
  BY <1>5, LaunchInv
<1>6. ASSUME NEW s \in Sources, DropSource(s) PROVE IInv'
  BY <1>6, DropSourceInv
<1>7. ASSUME NEW o \in Owners, DropOwner(o) PROVE IInv'
  BY <1>7, DropOwnerInv
<1>8. ASSUME NEW a \in Accumulators, Retire(a) \/ Drain(a) PROVE IInv'
  BY <1>8, RetireInv, DrainInv
<1>9. CASE UNCHANGED vars
  <2>1. UNCHANGED <<source, exec, launch, attachments, state, owners, user, op, left>>
    BY <1>9 DEF vars
  <2>2. TypeOK'
    BY <2>1 DEF IInv, TypeOK
  <2>3. Operations' /\ PointsToHeld' /\ OneOwner'
    BY <2>1 DEF IInv, Operations, OpOK, PointsToHeld, OneOwner, Settled, Fresh
  <2>4. RetainedIsAlive' /\ UsesAreKept'
    BY <2>1 DEF IInv, RetainedIsAlive, Referenced, UsesAreKept, Settled, Kept
  <2> QED
    BY <2>2, <2>3, <2>4 DEF IInv
<1> QED
  BY <1>1, <1>2, <1>3, <1>4, <1>5, <1>6, <1>7, <1>8, <1>9 DEF Next

\* The inductive invariant holds in every reachable state.
LEMMA InvAlways == Spec => []IInv
  BY InvInit, InvNext, PTL DEF Spec

\* Every variable keeps its type: an open executable has its accumulator, and
\* an operation under way knows its source and its accumulator.
THEOREM TypeCorrect == Spec => []TypeOK
<1>1. IInv => TypeOK
  BY DEF IInv
<1> QED
  BY <1>1, InvAlways, PTL

\* The pointer in the box of an open executable is never stale when an
\* operation reads it (resource_handles.cpp: make_graph_exec_handle,
\* commit_exec_attachments, ~GraphExecBox).
THEOREM PointerIsCurrent == Spec => []AccumulatorCurrent
<1>1. IInv => AccumulatorCurrent
  <2> SUFFICES ASSUME IInv, NEW e \in Execs, exec[e].open, op[e].step # "publish"
               PROVE  state[attachments[e]] = "alive" /\ attachments[e] \in exec[e].holds
    BY DEF AccumulatorCurrent
  <2>1. attachments[e] \in Accumulators /\ attachments[e] \in exec[e].holds
    BY DEF IInv, PointsToHeld, Settled
  <2> QED
    BY <2>1 DEF IInv, RetainedIsAlive, Referenced
<1> QED
  BY <1>1, InvAlways, PTL

\* A rejected update of a node takes nothing from the accumulator that another
\* node of the executable uses.
THEOREM RollbackTakesItsOwn == Spec => []UsesAreOwned
<1>1. IInv => UsesAreOwned
  <2> SUFFICES ASSUME IInv, NEW e \in Execs, NEW n \in Nodes, NEW o \in exec[e].uses[n]
               PROVE  o \in Elements(owners[attachments[e]])
    BY DEF UsesAreOwned
  <2>1. Settled(e) /\ o \in Kept(attachments[e])
    BY DEF IInv, UsesAreKept
  <2>2. attachments[e] \in Accumulators
    BY <2>1 DEF IInv, PointsToHeld
  <2> QED
    BY <2>1, <2>2, KeptInType DEF IInv
<1> QED
  BY <1>1, InvAlways, PTL

-----------------------------------------------------------------------------
(* ExecAttachments implements ParameterLifetime.                           *)

Consumers == Execs \cup Launches

LifetimeUses ==
    [c \in Consumers |->
        IF c \in Execs THEN UNION {exec[c].uses[n] : n \in Nodes} ELSE launch[c].uses]

LifetimeReleased == {o \in Owners : ~Alive(o)}

\* What is used is with an accumulator that somebody retains.
LEMMA UsesAreAlive == IInv => LifetimeUses \in [Consumers -> SUBSET (Owners \ LifetimeReleased)]
<1> SUFFICES ASSUME IInv PROVE LifetimeUses \in [Consumers -> SUBSET (Owners \ LifetimeReleased)]
  OBVIOUS
<1>1. ASSUME NEW a \in Accumulators, NEW o \in Kept(a), Referenced(a) PROVE o \in Owners \ LifetimeReleased
  <2>1. o \in Elements(owners[a]) /\ o \in Owners
    BY <1>1, KeptInType DEF IInv
  <2>2. state[a] = "alive"
    BY <1>1 DEF IInv, RetainedIsAlive
  <2> QED
    BY <2>1, <2>2 DEF LifetimeReleased, Alive
<1>2. ASSUME NEW e \in Execs, NEW n \in Nodes, NEW o \in exec[e].uses[n] PROVE o \in Owners \ LifetimeReleased
  <2>1. Settled(e) /\ o \in Kept(attachments[e])
    BY <1>2 DEF IInv, UsesAreKept
  <2>2. attachments[e] \in Accumulators /\ attachments[e] \in exec[e].holds
    BY <2>1 DEF IInv, PointsToHeld
  <2> QED
    BY <1>1, <2>1, <2>2 DEF Referenced
<1>3. ASSUME NEW l \in Launches, NEW o \in launch[l].uses PROVE o \in Owners \ LifetimeReleased
  <2>1. PICK a \in launch[l].holds : o \in Kept(a)
    BY <1>3 DEF IInv, UsesAreKept
  <2>2. a \in Accumulators
    BY <2>1 DEF IInv, TypeOK
  <2> QED
    BY <1>1, <2>1, <2>2 DEF Referenced
<1>4. ASSUME NEW c \in Consumers PROVE LifetimeUses[c] \subseteq Owners \ LifetimeReleased
  <2>1. CASE c \in Execs
    BY <1>2, <2>1 DEF LifetimeUses, Consumers
  <2>2. CASE c \notin Execs
    BY <1>3, <2>2 DEF LifetimeUses, Consumers
  <2> QED
    BY <2>1, <2>2
<1> QED
  BY <1>4 DEF LifetimeUses

\* A step changes what is used or lets resources go, never both.
LEMMA OneOrTheOther ==
  ASSUME IInv, [Next]_vars
  PROVE  \/ UNCHANGED <<state, owners, user>>
         \/ /\ UNCHANGED <<exec, launch>>
            /\ \A o \in Owners : Alive(o)' => Alive(o)
<1> DEFINE Shrinks == /\ UNCHANGED <<exec, launch>>
                      /\ \A o \in Owners : Alive(o)' => Alive(o)
<1>1. ASSUME NEW e \in Execs, NEW a \in Accumulators,
             StageFails(e, a) \/ \E s \in Sources : StageInstantiate(e, s, a) \/ StageUpdate(e, s, a)
      PROVE  Shrinks
  <2>1. /\ state[a] = "unused" /\ \A b \in Accumulators : b # a => state'[b] = state[b]
        /\ UNCHANGED <<exec, launch, owners, user>>
    BY <1>1 DEF StageFails, StageInstantiate, StageUpdate, Stage, IInv, TypeOK
  <2>2. Elements(owners[a]) = {}
    BY <2>1 DEF IInv, RetainedIsAlive, Elements
  <2> QED
    BY <2>1, <2>2 DEF Alive
<1>2. ASSUME NEW e \in Execs,
             Instantiate(e) \/ Update(e) \/ Publish(e) \/ CudaFails(e) \/ Release(e) \/ ReleaseFailed(e)
      PROVE  UNCHANGED <<state, owners, user>>
  BY <1>2 DEF Instantiate, Update, Publish, CudaFails, Release, ReleaseFailed
<1>3. ASSUME NEW e \in Execs, SetParams(e) \/ Close(e) \/ \E l \in Launches : Launch(e, l)
      PROVE  UNCHANGED <<state, owners, user>>
  BY <1>3 DEF SetParams, Close, Launch
<1>4. ASSUME NEW e \in Execs, NEW n \in Nodes, NEW new \in New, Prepare(e, n, new)
      PROVE  Shrinks
  <2> DEFINE a == attachments[e]
  <2>1. /\ a \in Accumulators /\ state[a] = "alive" /\ Elements(new) \subseteq user
        /\ owners' = [owners EXCEPT ![a] = owners[a] \o new]
        /\ UNCHANGED <<exec, launch, state, user>>
    BY <1>4 DEF Prepare, Appended, IInv, PointsToHeld, Settled, RetainedIsAlive, Referenced
  <2> HIDE DEF a
  <2>2. owners[a] \in Seq(Owners) /\ new \in Seq(Owners)
    BY <2>1, NewOwners DEF IInv, TypeOK
  <2>3. /\ owners'[a] = owners[a] \o new
        /\ \A b \in Accumulators : b # a => owners'[b] = owners[b]
    BY <2>1 DEF IInv, TypeOK
  <2>4. Elements(owners'[a]) \subseteq Elements(owners[a]) \cup Elements(new)
    <3>1. ASSUME NEW i \in 1 .. Len(owners'[a])
          PROVE  \/ i \in 1 .. Len(owners[a]) /\ owners'[a][i] = owners[a][i]
                 \/ i - Len(owners[a]) \in 1 .. Len(new) /\ owners'[a][i] = new[i - Len(owners[a])]
      BY <2>2, <2>3
    <3> QED
      BY <3>1 DEF Elements
  <2> QED
    BY <2>1, <2>3, <2>4 DEF Alive
<1>5. ASSUME NEW e \in Execs, Rollback(e) PROVE Shrinks
  <2> DEFINE a == op[e].a
  <2>1. /\ op[e].step = "set_params" /\ owners' = [owners EXCEPT ![a] = SubSeq(owners[a], 1, op[e].size)]
        /\ UNCHANGED <<exec, launch, state, user>>
    BY <1>5 DEF Rollback, Truncated
  <2>2. a = attachments[e] /\ exec[e].open /\ op[e].size <= Len(owners[a])
    BY <2>1 DEF IInv, Operations, OpOK
  <2>3. a \in Accumulators
    BY <2>1, <2>2 DEF IInv, PointsToHeld, Settled
  <2> HIDE DEF a
  <2>4. owners[a] \in Seq(Owners) /\ op[e].size \in Nat
    BY <2>3 DEF IInv, TypeOK
  <2>5. /\ owners'[a] = SubSeq(owners[a], 1, op[e].size)
        /\ \A b \in Accumulators : b # a => owners'[b] = owners[b]
    BY <2>1, <2>3 DEF IInv, TypeOK
  <2>6. Elements(owners'[a]) \subseteq Elements(owners[a])
    <3>1. ASSUME NEW r \in Seq(Owners), NEW k \in Nat, k <= Len(r)
          PROVE  Elements(SubSeq(r, 1, k)) \subseteq Elements(r)
      <4>1. Len(SubSeq(r, 1, k)) = k /\ \A i \in 1 .. k : SubSeq(r, 1, k)[i] = r[i] /\ i \in 1 .. Len(r)
        BY <3>1
      <4> QED
        BY <4>1 DEF Elements
    <3> QED
      BY <2>2, <2>4, <2>5, <3>1
  <2> QED
    BY <2>1, <2>5, <2>6 DEF Alive
<1>6. ASSUME NEW l \in Launches, Complete(l) PROVE UNCHANGED <<state, owners, user>>
  BY <1>6 DEF Complete
<1>7. ASSUME NEW s \in Sources, DropSource(s) PROVE UNCHANGED <<state, owners, user>>
  BY <1>7 DEF DropSource
<1>8. ASSUME NEW o \in Owners, DropOwner(o) PROVE Shrinks
  BY <1>8 DEF DropOwner, Alive
<1>9. ASSUME NEW a \in Accumulators, Retire(a) \/ Drain(a) PROVE Shrinks
  <2>1. /\ state[a] # "unused" /\ Elements(owners'[a]) \subseteq Elements(owners[a])
        /\ \A b \in Accumulators : b # a => state'[b] = state[b] /\ owners'[b] = owners[b]
        /\ UNCHANGED <<exec, launch, user>>
    BY <1>9 DEF Retire, Drain, IInv, TypeOK, Elements
  <2> QED
    BY <2>1 DEF Alive
<1>10. CASE UNCHANGED vars
  BY <1>10 DEF vars
<1> HIDE DEF Shrinks
<1> QED
  BY <1>1, <1>2, <1>3, <1>4, <1>5, <1>6, <1>7, <1>8, <1>9, <1>10 DEF Next, Shrinks

\* Every step is a change of consumers or a release of ParameterLifetime.
LEMMA LifetimeStep == IInv /\ IInv' /\ [Next]_vars => [Lifetime!Next]_(Lifetime!vars)
<1> SUFFICES ASSUME IInv, IInv', [Next]_vars PROVE [Lifetime!Next]_(Lifetime!vars)
  OBVIOUS
<1>1. (LifetimeUses \in [Consumers -> SUBSET (Owners \ LifetimeReleased)])'
  BY UsesAreAlive, PTL
<1>2. CASE UNCHANGED <<state, owners, user>>
  <2>1. LifetimeReleased' = LifetimeReleased
    BY <1>2 DEF LifetimeReleased, Alive
  <2>2. Lifetime!Change
    BY <1>1, <2>1 DEF Lifetime!Change, LifetimeUses, LifetimeReleased, Consumers
  <2> QED
    BY <2>2 DEF Lifetime!Next
<1>3. CASE UNCHANGED <<exec, launch>> /\ \A o \in Owners : Alive(o)' => Alive(o)
  <2>1. LifetimeUses' = LifetimeUses
    BY <1>3 DEF LifetimeUses
  <2>2. LifetimeReleased \subseteq LifetimeReleased' /\ LifetimeReleased' \in SUBSET Owners
    BY <1>3 DEF LifetimeReleased
  <2>3. \A c \in Consumers : LifetimeUses[c] \cap LifetimeReleased' = {}
    BY <1>1, <2>1
  <2>4. Lifetime!Release
    BY <2>1, <2>2, <2>3 DEF Lifetime!Release, LifetimeUses, LifetimeReleased, Consumers
  <2> QED
    BY <2>4 DEF Lifetime!Next
<1> QED
  BY <1>2, <1>3, OneOrTheOther

\* ExecAttachments implements ParameterLifetime: a resource goes once, when no
\* executable and no launch uses it, and none takes it up again.
THEOREM LifetimeRefined == Spec => ImplementsLifetime
<1>1. Init => Lifetime!Init
  <2> SUFFICES ASSUME Init PROVE Lifetime!Init
    OBVIOUS
  <2>1. LifetimeReleased = {}
    BY DEF Init, LifetimeReleased, Alive
  <2>2. \A c \in Consumers : LifetimeUses[c] = {}
    BY DEF Init, LifetimeUses, Closed, Ended, Consumers
  <2>3. LifetimeUses = [c \in Consumers |-> {}]
    BY <2>2 DEF LifetimeUses
  <2> QED
    BY <2>1, <2>3 DEF Lifetime!Init, LifetimeUses, LifetimeReleased, Consumers
<1> QED
  BY <1>1, InvAlways, LifetimeStep, PTL DEF Spec, ImplementsLifetime, Lifetime!Spec
=============================================================================
