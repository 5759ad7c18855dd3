-------------------------- MODULE ContextHandles_proofs --------------------------
(***************************************************************************)
(* Proofs about ContextHandles, for any number of threads, boxes, contexts *)
(* and items, and any number of failing calls.                             *)
(***************************************************************************)
EXTENDS ContextHandles, FiniteSetTheorems, TLAPS

-----------------------------------------------------------------------------
(* The inductive invariant.                                                *)

Steps == {"idle", "retained", "lookup", "missed", "have", "entered", "operated", "undo"}
Purposes == {"nothing", "green", "object", "bind", "create", "texture", "destroy"}
OpTypes == [step : Steps, for : Purposes, ctx : Contexts \cup {None}, box : Boxes \cup {None},
            item : Items \cup {None}, prev : Contexts \cup {None}, changed : BOOLEAN]
BoxTypes == [state : {"unused", "live", "unregistered"}, kind : {"primary", "green", "ref"}, ctx : Contexts]

\* The steps at which a thread has not entered another context.
Outside == {"idle", "retained", "lookup", "missed", "have"}
Within == {"entered", "operated", "undo"}

Typed ==
    /\ retains \in 0 .. MaxRetains /\ foreign \in BOOLEAN /\ greens \subseteq Greens
    /\ current \in [Threads -> Contexts \cup {None}]
    /\ box \in [Boxes -> BoxTypes]
    /\ registry \in [Contexts -> Boxes \cup {None}]
    /\ cache \in [Threads -> Boxes \cup {None}] /\ device \in [Threads -> Boxes \cup {None}]
    /\ objects \subseteq Boxes
    /\ item \in [Items -> {"none", "made", "owned", "leaked"}]
    /\ home \in [Items -> Boxes \cup {None}]
    /\ op \in [Threads -> OpTypes]
    /\ chosen \in [Threads -> Contexts \cup {None}] /\ stray \subseteq Threads /\ lost \subseteq Threads /\ faults \in 0 .. MaxFaults

\* A box of the registry is live, and of that context.
Registered ==
    /\ \A c \in Contexts : registry[c] # None => box[registry[c]].state = "live" /\ box[registry[c]].ctx = c
    /\ \A b \in Boxes : box[b].state = "unused" => box[b].kind = "ref"

\* The primary context is retained for its boxes, and for the threads that are
\* about to make one.
PrimaryBoxes == {b \in Boxes : box[b].kind = "primary"}
Retaining == {t \in Threads : op[t].step = "retained"}

Counted ==
    /\ IsFiniteSet(PrimaryBoxes) /\ IsFiniteSet(Retaining)
    /\ retained = Cardinality(PrimaryBoxes) + Cardinality(Retaining)

Homes == \A i \in Items : item[i] = "owned" <=> home[i] # None

\* What an operation under way knows of its item and its box.
OpOK(t) ==
    /\ op[t].step \in {"idle", "retained"} => op[t].item = None
    /\ op[t].step \in {"lookup", "missed", "have"} =>
        /\ op[t].ctx \in Contexts
        /\ op[t].for = "bind" => op[t].item \in Items /\ item[op[t].item] = "none"
        /\ op[t].for # "bind" => op[t].item = None
    /\ op[t].step \in {"have"} \cup Within => op[t].box \in Boxes
    /\ op[t].step \in Within => op[t].item \in Items /\ item[op[t].item] # "owned"
    /\ op[t].step = "entered" =>
        /\ op[t].for = "destroy" <=> item[op[t].item] = "made"
        /\ op[t].for # "destroy" => item[op[t].item] = "none"
    /\ op[t].step = "operated" /\ op[t].for = "destroy" => item[op[t].item] # "made"
    /\ op[t].step = "undo" => item[op[t].item] = "made"

\* No two threads work on one item, and what is made is worked on.
Ops ==
    /\ \A t \in Threads : OpOK(t)
    /\ \A t, u \in Threads : t # u /\ op[t].item # None => op[u].item # op[t].item
    /\ \A i \in Items : item[i] = "made" => \E t \in Threads : op[t].item = i

\* Where a thread is, and how it gets back.
Back(t) ==
    /\ op[t].step = "undo" => t \in stray
    /\ t \notin stray =>
        /\ op[t].step \in Outside => current[t] = Due(t)
        /\ op[t].step \in {"entered", "operated"} =>
            IF op[t].changed THEN op[t].prev = Due(t) ELSE current[t] = Due(t)

Backs == \A t \in Threads : Back(t)

IInv == Typed /\ Registered /\ Counted /\ Homes /\ Ops /\ Backs

-----------------------------------------------------------------------------
(* Lemmas on what stays.                                                   *)

\* A new step of an operation leaves the rest of it as it is.
LEMMA NextStep ==
  ASSUME op \in [Threads -> OpTypes], NEW t \in Threads, NEW x \in Steps,
         op' = [op EXCEPT ![t].step = x]
  PROVE  /\ op' \in [Threads -> OpTypes]
         /\ op'[t].step = x /\ op'[t].for = op[t].for /\ op'[t].ctx = op[t].ctx /\ op'[t].item = op[t].item
         /\ op'[t].box = op[t].box /\ op'[t].prev = op[t].prev /\ op'[t].changed = op[t].changed
         /\ \A u \in Threads : u # t => op'[u] = op[u]
<1> DEFINE o == [op[t] EXCEPT !.step = x]
<1>1. op' = [op EXCEPT ![t] = o]
  OBVIOUS
<1>2. o \in OpTypes /\ o.step = x /\ o.for = op[t].for /\ o.ctx = op[t].ctx /\ o.item = op[t].item
      /\ o.box = op[t].box /\ o.prev = op[t].prev /\ o.changed = op[t].changed
  BY DEF OpTypes
<1> HIDE DEF o
<1> QED
  BY <1>1, <1>2

\* A handle has been found or made.
LEMMA NextHave ==
  ASSUME op \in [Threads -> OpTypes], NEW t \in Threads, NEW b \in Boxes,
         op' = [op EXCEPT ![t].step = "have", ![t].box = b]
  PROVE  /\ op' \in [Threads -> OpTypes]
         /\ op'[t].step = "have" /\ op'[t].for = op[t].for /\ op'[t].ctx = op[t].ctx /\ op'[t].item = op[t].item
         /\ op'[t].box = b
         /\ \A u \in Threads : u # t => op'[u] = op[u]
<1> DEFINE o == [op[t] EXCEPT !.step = "have"]
<1> DEFINE p == [o EXCEPT !.box = b]
<1>1. op' = [op EXCEPT ![t] = p]
  OBVIOUS
<1>2. o \in OpTypes /\ o.step = "have" /\ o.for = op[t].for /\ o.ctx = op[t].ctx /\ o.item = op[t].item
  BY DEF OpTypes, Steps
<1> HIDE DEF o
<1>3. p \in OpTypes /\ p.step = "have" /\ p.for = op[t].for /\ p.ctx = op[t].ctx /\ p.item = op[t].item
      /\ p.box = b
  BY <1>2 DEF OpTypes
<1> HIDE DEF p
<1> QED
  BY <1>1, <1>3

\* An operation is over.
LEMMA NextIdle ==
  ASSUME op \in [Threads -> OpTypes], NEW t \in Threads, Done(t)
  PROVE  /\ op' \in [Threads -> OpTypes]
         /\ op'[t].step = "idle" /\ op'[t].item = None
         /\ \A u \in Threads : u # t => op'[u] = op[u]
<1>1. Idle \in OpTypes /\ Idle.step = "idle" /\ Idle.item = None
  BY DEF Idle, OpTypes, Steps, Purposes
<1> QED
  BY <1>1 DEF Done

\* A handle is looked up for a purpose.
LEMMA NextLookup ==
  ASSUME op \in [Threads -> OpTypes], NEW t \in Threads,
         NEW for \in Purposes, NEW c \in Contexts, NEW i \in Items \cup {None},
         op' = [op EXCEPT ![t] = LookingUp(for, c, i)]
  PROVE  /\ op' \in [Threads -> OpTypes]
         /\ op'[t].step = "lookup" /\ op'[t].for = for /\ op'[t].ctx = c /\ op'[t].item = i
         /\ \A u \in Threads : u # t => op'[u] = op[u]
<1> DEFINE o == LookingUp(for, c, i)
<1>1. o \in OpTypes /\ o.step = "lookup" /\ o.for = for /\ o.ctx = c /\ o.item = i
  BY DEF LookingUp, OpTypes, Steps
<1> HIDE DEF o
<1>2. op' = [op EXCEPT ![t] = o]
  BY DEF o
<1> QED
  BY <1>1, <1>2

\* The count of references stays where no box and no thread changes its part.
LEMMA CountStays ==
  ASSUME Counted, retained' = retained,
         \A b \in Boxes : box'[b].kind = "primary" <=> box[b].kind = "primary",
         \A t \in Threads : op'[t].step = "retained" <=> op[t].step = "retained"
  PROVE  Counted'
<1>1. PrimaryBoxes' = PrimaryBoxes /\ Retaining' = Retaining
  BY DEF PrimaryBoxes, Retaining
<1> QED
  BY <1>1 DEF Counted

\* The registry stays in order where boxes stay and entries only go.
LEMMA RegistryStays ==
  ASSUME Registered, box' = box, \A c \in Contexts : registry'[c] \in {registry[c], None}
  PROVE  Registered'
  BY DEF Registered

\* One thread goes on with its item, or takes up one that nobody works on.
LEMMA OpsNext ==
  ASSUME Ops, NEW t \in Threads, NEW i \in Items \cup {None},
         \A u \in Threads : u # t => op'[u] = op[u],
         i # None => op[t].item = i \/ \A u \in Threads : op[u].item # i,
         op'[t].item \in {None, i},
         \A j \in Items : j # i => item'[j] = item[j],
         OpOK(t)',
         op[t].item \in {None, i},
         i \in Items /\ item'[i] = "made" => op'[t].item = i
  PROVE  Ops'
<1>1. ASSUME NEW u \in Threads, u # t PROVE OpOK(u)'
  <2>1. OpOK(u) /\ op'[u] = op[u]
    BY <1>1 DEF Ops
  <2>2. op[u].item # None => op[u].item # i
    BY <1>1 DEF Ops
  <2>3. op[u].item \in Items => item'[op[u].item] = item[op[u].item]
    BY <2>2, NamesAreDistinct
  <2>4. op[u].step \in {"lookup", "missed", "have"} /\ op[u].for = "bind" => op[u].item \in Items
    BY <2>1 DEF OpOK
  <2>5. op[u].step \in Within => op[u].item \in Items
    BY <2>1 DEF OpOK
  <2> QED
    BY <2>1, <2>3, <2>4, <2>5 DEF OpOK, Within
<1>2. \A u, v \in Threads : u # v /\ op'[u].item # None => op'[v].item # op'[u].item
  BY DEF Ops
<1>3. ASSUME NEW j \in Items, item'[j] = "made" PROVE \E u \in Threads : op'[u].item = j
  <2>1. CASE j = i
    BY <1>3, <2>1
  <2>2. CASE j # i
    <3>1. PICK u \in Threads : op[u].item = j
      BY <1>3, <2>2 DEF Ops
    <3>2. u # t
      BY <2>2, <3>1, NamesAreDistinct
    <3> QED
      BY <3>1, <3>2
  <2> QED
    BY <2>1, <2>2
<1> QED
  BY <1>1, <1>2, <1>3 DEF Ops

\* The item of a thread stays with it.
LEMMA OpsStay ==
  ASSUME Ops, NEW t \in Threads, item' = item,
         \A u \in Threads : u # t => op'[u] = op[u],
         op'[t].item = op[t].item, op[t].item \in Items \cup {None}, OpOK(t)'
  PROVE  Ops'
<1>1. op[t].item \in Items /\ item'[op[t].item] = "made" => op'[t].item = op[t].item
  OBVIOUS
<1> QED
  BY <1>1, OpsNext

LEMMA BacksNext ==
  ASSUME Backs, NEW t \in Threads, Back(t)',
         \A u \in Threads : u # t =>
             /\ op'[u] = op[u] /\ current'[u] = current[u] /\ chosen'[u] = chosen[u]
             /\ u \in stray' <=> u \in stray
             /\ u \in lost' <=> u \in lost
  PROVE  Backs'
<1>1. ASSUME NEW u \in Threads, u # t PROVE Back(u)'
  BY <1>1 DEF Backs, Back, Due
<1> QED
  BY <1>1 DEF Backs

-----------------------------------------------------------------------------
(* The steps.                                                              *)

LEMMA LookupInv ==
  ASSUME IInv, NEW t \in Threads, Lookup(t)
  PROVE  IInv'
<1> USE DEF IInv
<1> DEFINE c == op[t].ctx
<1>1. /\ op[t].step = "lookup"
      /\ \/ /\ registry[c] # None
            /\ op' = [op EXCEPT ![t].step = "have", ![t].box = registry[c]] /\ UNCHANGED registry
         \/ op' = [op EXCEPT ![t].step = "missed"] /\ registry' = [registry EXCEPT ![c] = None]
      /\ UNCHANGED <<driver, current, box, holding, item, home, chosen, stray, lost, faults>>
  BY DEF Lookup
<1>2. OpOK(t) /\ c \in Contexts
  BY <1>1 DEF Ops, OpOK
<1>3. /\ registry' \in [Contexts -> Boxes \cup {None}]
      /\ \A d \in Contexts : registry'[d] \in {registry[d], None}
  BY <1>1, <1>2 DEF Typed
<1>4. /\ op' \in [Threads -> OpTypes] /\ op'[t].step \in {"have", "missed"}
      /\ op'[t].for = op[t].for /\ op'[t].ctx = op[t].ctx /\ op'[t].item = op[t].item
      /\ op'[t].step = "have" => op'[t].box \in Boxes
      /\ \A u \in Threads : u # t => op'[u] = op[u]
  <2>1. op \in [Threads -> OpTypes]
    BY DEF Typed
  <2>2. CASE /\ registry[c] # None
             /\ op' = [op EXCEPT ![t].step = "have", ![t].box = registry[c]]
    <3>1. registry[c] \in Boxes
      BY <1>2, <2>2 DEF Typed
    <3> QED
      BY <2>1, <2>2, <3>1, NextHave
  <2>3. CASE op' = [op EXCEPT ![t].step = "missed"]
    BY <2>1, <2>3, NextStep DEF Steps
  <2> QED
    BY <1>1, <2>2, <2>3
<1> HIDE DEF c
<1>5. Typed'
  BY <1>1, <1>3, <1>4 DEF Typed, driver, holding
<1>6. Registered'
  BY <1>1, <1>3, RegistryStays
<1>7. Counted'
  BY <1>1, <1>4, CountStays DEF driver
<1>8. Homes'
  BY <1>1 DEF Homes
<1>9. Ops'
  <2>1. OpOK(t)' /\ op[t].item \in Items \cup {None}
    BY <1>1, <1>2, <1>4 DEF OpOK, Within, Typed, OpTypes
  <2> QED
    BY <1>1, <1>4, <2>1, OpsStay
<1>10. Backs'
  <2>1. Back(t)'
    BY <1>1, <1>4 DEF Backs, Back, Due, Outside
  <2> QED
    BY <1>1, <1>4, <2>1, BacksNext
<1> QED
  BY <1>5, <1>6, <1>7, <1>8, <1>9, <1>10

\* A new box is registered: what the registry and the count say of it.
LEMMA NewBoxOK ==
  ASSUME IInv, NEW b \in Boxes, NEW kind \in {"primary", "green", "ref"}, NEW c \in Contexts,
         NewBox(b, kind, c)
  PROVE  /\ box' \in [Boxes -> BoxTypes] /\ registry' \in [Contexts -> Boxes \cup {None}]
         /\ Registered' /\ box[b].kind = "ref" /\ box'[b].kind = kind /\ box'[b].ctx = c
         /\ \A d \in Boxes : d # b => box'[d] = box[d]
<1> USE DEF IInv
<1>1. /\ box[b].state = "unused"
      /\ box' = [box EXCEPT ![b] = [state |-> "live", kind |-> kind, ctx |-> c]]
      /\ registry' = [registry EXCEPT ![c] = b]
  BY DEF NewBox
<1>2. /\ box' \in [Boxes -> BoxTypes] /\ box'[b] = [state |-> "live", kind |-> kind, ctx |-> c]
      /\ \A d \in Boxes : d # b => box'[d] = box[d]
  BY <1>1 DEF Typed, BoxTypes
<1>3. /\ registry' \in [Contexts -> Boxes \cup {None}] /\ registry'[c] = b
      /\ \A d \in Contexts : d # c => registry'[d] = registry[d]
  BY <1>1 DEF Typed
<1>4. Registered'
  <2>1. ASSUME NEW d \in Contexts, registry'[d] # None
        PROVE  box'[registry'[d]].state = "live" /\ box'[registry'[d]].ctx = d
    <3>1. CASE d = c
      BY <1>2, <1>3, <3>1
    <3>2. CASE d # c
      <4>1. /\ registry'[d] = registry[d] /\ registry[d] \in Boxes
            /\ box[registry[d]].state = "live" /\ box[registry[d]].ctx = d
        BY <1>3, <2>1, <3>2 DEF Registered, Typed
      <4>2. registry[d] # b
        BY <1>1, <4>1
      <4> QED
        BY <1>2, <4>1, <4>2
    <3> QED
      BY <3>1, <3>2
  <2>2. ASSUME NEW d \in Boxes, box'[d].state = "unused" PROVE box'[d].kind = "ref"
    BY <1>2, <2>2 DEF Registered
  <2> QED
    BY <2>1, <2>2 DEF Registered
<1>5. box[b].kind = "ref"
  BY <1>1 DEF Registered
<1> QED
  BY <1>2, <1>3, <1>4, <1>5

LEMMA RegisterInv ==
  ASSUME IInv, NEW t \in Threads, NEW b \in Boxes, Register(t, b)
  PROVE  IInv'
<1> USE DEF IInv
<1> DEFINE kind == IF op[t].for = "green" THEN "green" ELSE "ref"
<1>1. /\ op[t].step = "missed" /\ NewBox(b, kind, op[t].ctx)
      /\ op' = [op EXCEPT ![t].step = "have", ![t].box = b]
      /\ UNCHANGED <<driver, current, holding, item, home, chosen, stray, lost, faults>>
  BY DEF Register
<1>2. OpOK(t) /\ op[t].ctx \in Contexts
  BY <1>1 DEF Ops, OpOK
<1>3. kind \in {"primary", "green", "ref"} /\ kind # "primary"
  OBVIOUS
<1> HIDE DEF kind
<1>4. /\ box' \in [Boxes -> BoxTypes] /\ registry' \in [Contexts -> Boxes \cup {None}]
      /\ Registered' /\ box[b].kind = "ref" /\ box'[b].kind = kind
      /\ \A d \in Boxes : d # b => box'[d] = box[d]
  BY <1>1, <1>2, <1>3, NewBoxOK
<1>5. /\ op' \in [Threads -> OpTypes] /\ op'[t].step = "have"
      /\ op'[t].for = op[t].for /\ op'[t].ctx = op[t].ctx /\ op'[t].item = op[t].item
      /\ op'[t].box \in Boxes
      /\ \A u \in Threads : u # t => op'[u] = op[u]
  <2>1. op \in [Threads -> OpTypes]
    BY DEF Typed
  <2> QED
    BY <1>1, <2>1, NextHave
<1>6. Typed'
  BY <1>1, <1>4, <1>5 DEF Typed, driver, holding
<1>7. Counted'
  <2>1. \A d \in Boxes : box'[d].kind = "primary" <=> box[d].kind = "primary"
    BY <1>3, <1>4
  <2> QED
    BY <1>1, <1>5, <2>1, CountStays DEF driver
<1>8. Homes'
  BY <1>1 DEF Homes
<1>9. Ops'
  <2>1. OpOK(t)' /\ op[t].item \in Items \cup {None}
    BY <1>1, <1>2, <1>5 DEF OpOK, Within, Typed, OpTypes
  <2> QED
    BY <1>1, <1>5, <2>1, OpsStay
<1>10. Backs'
  <2>1. Back(t)'
    BY <1>1, <1>5 DEF Backs, Back, Due, Outside
  <2> QED
    BY <1>1, <1>5, <2>1, BacksNext
<1> QED
  BY <1>4, <1>6, <1>7, <1>8, <1>9, <1>10

\* The deleter of a box, which gives a primary reference back.
LEMMA DeleteInv ==
  ASSUME IInv, NEW b \in Boxes, Delete(b)
  PROVE  IInv'
<1> USE DEF IInv
<1>1. UNCHANGED <<current, holding, item, home, op, chosen, stray, lost, faults>>
  BY DEF Delete
<1>2. Homes' /\ Backs'
  BY <1>1 DEF Homes, Backs, Back, Due
<1>3. Ops'
  BY <1>1 DEF Ops, OpOK
<1>4. CASE /\ box[b].state = "live"
           /\ box' = [box EXCEPT ![b].state = "unregistered"]
           /\ registry' = [registry EXCEPT ![box[b].ctx] = None]
           /\ UNCHANGED driver
  <2> DEFINE x == [box[b] EXCEPT !.state = "unregistered"]
  <2>1. box' = [box EXCEPT ![b] = x] /\ box[b] \in BoxTypes
    BY <1>4 DEF Typed
  <2>2. x \in BoxTypes /\ x.state = "unregistered" /\ x.kind = box[b].kind /\ x.ctx = box[b].ctx
    BY <2>1 DEF BoxTypes
  <2> HIDE DEF x
  <2>3. /\ box' \in [Boxes -> BoxTypes] /\ box'[b] = x
        /\ \A d \in Boxes : d # b => box'[d] = box[d]
    BY <2>1, <2>2 DEF Typed
  <2>4. box[b].ctx \in Contexts
    BY <2>1 DEF BoxTypes
  <2>5. /\ registry' \in [Contexts -> Boxes \cup {None}] /\ registry'[box[b].ctx] = None
        /\ \A c \in Contexts : c # box[b].ctx => registry'[c] = registry[c]
    BY <1>4, <2>4 DEF Typed
  <2>6. Typed'
    BY <1>1, <1>4, <2>3, <2>5 DEF Typed, driver, holding
  <2>7. Registered'
    <3>1. ASSUME NEW c \in Contexts, registry'[c] # None
          PROVE  box'[registry'[c]].state = "live" /\ box'[registry'[c]].ctx = c
      <4>1. /\ registry'[c] = registry[c] /\ registry[c] \in Boxes /\ c # box[b].ctx
            /\ box[registry[c]].state = "live" /\ box[registry[c]].ctx = c
        BY <2>5, <3>1 DEF Registered, Typed
      <4> QED
        BY <2>3, <4>1
    <3>2. ASSUME NEW d \in Boxes, box'[d].state = "unused" PROVE box'[d].kind = "ref"
      BY <2>2, <2>3, <3>2 DEF Registered
    <3> QED
      BY <3>1, <3>2 DEF Registered
  <2>8. Counted'
    <3>1. \A d \in Boxes : box'[d].kind = "primary" <=> box[d].kind = "primary"
      BY <2>2, <2>3
    <3> QED
      BY <1>1, <1>4, <3>1, CountStays DEF driver
  <2> QED
    BY <1>2, <1>3, <2>6, <2>7, <2>8
<1>5. CASE /\ box[b].state = "unregistered"
           /\ box' = [box EXCEPT ![b] = Unused]
           /\ Destroyed(b) /\ UNCHANGED registry
  <2>1. /\ box' \in [Boxes -> BoxTypes] /\ box'[b].kind = "ref" /\ box'[b].state = "unused"
        /\ \A d \in Boxes : d # b => box'[d] = box[d]
    BY <1>5 DEF Typed, BoxTypes, Unused, Contexts
  <2>2. Typed'
    BY <1>1, <1>5, <2>1 DEF Typed, Destroyed, holding
  <2>3. Registered'
    <3>1. ASSUME NEW c \in Contexts, registry[c] # None
          PROVE  box'[registry[c]].state = "live" /\ box'[registry[c]].ctx = c
      <4>1. registry[c] \in Boxes /\ box[registry[c]].state = "live" /\ box[registry[c]].ctx = c
        BY <3>1 DEF Registered, Typed
      <4> QED
        BY <1>5, <2>1, <4>1
    <3>2. ASSUME NEW d \in Boxes, box'[d].state = "unused" PROVE box'[d].kind = "ref"
      BY <2>1, <3>2 DEF Registered
    <3> QED
      BY <1>5, <3>1, <3>2 DEF Registered
  <2>4. Counted'
    <3>1. Retaining' = Retaining
      BY <1>1 DEF Retaining
    <3>2. CASE box[b].kind = "primary"
      <4>1. PrimaryBoxes' = PrimaryBoxes \ {b} /\ b \in PrimaryBoxes
        BY <2>1, <3>2 DEF PrimaryBoxes
      <4>2. IsFiniteSet(PrimaryBoxes') /\ Cardinality(PrimaryBoxes') = Cardinality(PrimaryBoxes) - 1
        BY <4>1, FS_RemoveElement DEF Counted
      <4>3. retained' = retained - 1
        BY <1>5, <3>2 DEF Destroyed
      <4>4. Cardinality(PrimaryBoxes) \in Nat /\ Cardinality(Retaining) \in Nat
        BY FS_CardinalityType DEF Counted
      <4> QED
        BY <3>1, <4>2, <4>3, <4>4 DEF Counted
    <3>3. CASE box[b].kind # "primary"
      <4>1. PrimaryBoxes' = PrimaryBoxes
        BY <2>1, <3>3 DEF PrimaryBoxes
      <4> QED
        BY <1>5, <3>1, <3>3, <4>1 DEF Counted, Destroyed
    <3> QED
      BY <3>2, <3>3
  <2> QED
    BY <1>2, <1>3, <2>2, <2>3, <2>4
<1> QED
  BY <1>4, <1>5 DEF Delete, Deleter

LEMMA RetainInv ==
  ASSUME IInv, NEW t \in Threads, Retain(t)
  PROVE  IInv'
<1> USE DEF IInv
<1>1. /\ op[t].step = "idle" /\ retains < MaxRetains
      /\ retained' = retained + 1 /\ retains' = retains + 1
      /\ op' = [op EXCEPT ![t].step = "retained"]
      /\ UNCHANGED <<foreign, greens, current, box, registry, cache, device, objects, item, home, chosen, stray, lost, faults>>
  BY DEF Retain, handles, holding
<1>2. /\ op' \in [Threads -> OpTypes] /\ op'[t].step = "retained" /\ op'[t].item = op[t].item
      /\ \A u \in Threads : u # t => op'[u] = op[u]
  BY <1>1, NextStep DEF Typed, Steps
<1>3. Typed'
  <2>1. retains' \in 0 .. MaxRetains
    BY <1>1, BoundsAreNatural DEF Typed
  <2> QED
    BY <1>1, <1>2, <2>1 DEF Typed
<1>4. Counted'
  <2>1. Retaining' = Retaining \cup {t} /\ t \notin Retaining
    BY <1>1, <1>2 DEF Retaining
  <2>2. IsFiniteSet(Retaining') /\ Cardinality(Retaining') = Cardinality(Retaining) + 1
    BY <2>1, FS_AddElement DEF Counted
  <2>3. PrimaryBoxes' = PrimaryBoxes
    BY <1>1 DEF PrimaryBoxes
  <2>4. Cardinality(PrimaryBoxes) \in Nat /\ Cardinality(Retaining) \in Nat
    BY FS_CardinalityType DEF Counted
  <2> QED
    BY <1>1, <2>2, <2>3, <2>4 DEF Counted
<1>5. Registered' /\ Homes'
  BY <1>1 DEF Registered, Homes
<1>6. Ops'
  <2>1. op[t].item = None
    BY <1>1 DEF Ops, OpOK
  <2>2. OpOK(t)'
    BY <1>2, <2>1 DEF OpOK, Within
  <2> QED
    BY <1>1, <1>2, <2>1, <2>2, OpsStay
<1>7. Backs'
  <2>1. Back(t)'
    BY <1>1, <1>2 DEF Backs, Back, Due, Outside
  <2> QED
    BY <1>1, <1>2, <2>1, BacksNext
<1> QED
  BY <1>3, <1>4, <1>5, <1>6, <1>7

\* The box of a thread that has retained the primary context takes its part of
\* the count over.
LEMMA AdoptCounted ==
  ASSUME IInv, NEW t \in Threads, NEW b \in Boxes, op[t].step = "retained",
         op'[t].step = "idle", \A u \in Threads : u # t => op'[u] = op[u],
         box[b].kind = "ref", box'[b].kind = "primary", \A d \in Boxes : d # b => box'[d] = box[d],
         retained' = retained
  PROVE  Counted'
<1> USE DEF IInv
<1>1. Retaining' = Retaining \ {t} /\ t \in Retaining
  BY DEF Retaining
<1>2. IsFiniteSet(Retaining') /\ Cardinality(Retaining') = Cardinality(Retaining) - 1
  BY <1>1, FS_RemoveElement DEF Counted
<1>3. PrimaryBoxes' = PrimaryBoxes \cup {b} /\ b \notin PrimaryBoxes
  BY DEF PrimaryBoxes
<1>4. IsFiniteSet(PrimaryBoxes') /\ Cardinality(PrimaryBoxes') = Cardinality(PrimaryBoxes) + 1
  BY <1>3, FS_AddElement DEF Counted
<1>5. Cardinality(PrimaryBoxes) \in Nat /\ Cardinality(Retaining) \in Nat
  BY FS_CardinalityType DEF Counted
<1> QED
  BY <1>2, <1>4, <1>5 DEF Counted

LEMMA AdoptInv ==
  ASSUME IInv, NEW t \in Threads, NEW b \in Boxes, Adopt(t, b)
  PROVE  IInv'
<1> USE DEF IInv
<1>1. /\ op[t].step = "retained" /\ NewBox(b, "primary", Primary)
      /\ cache' = [cache EXCEPT ![t] = b] /\ device' = [device EXCEPT ![t] = b]
      /\ current' = [current EXCEPT ![t] = box'[b].ctx] /\ chosen' = [chosen EXCEPT ![t] = box'[b].ctx]
      /\ Done(t) /\ lost' = lost \ {t}
      /\ UNCHANGED <<retained, retains, foreign, greens, objects, item, home, stray, faults>>
  BY DEF Adopt, MakeCurrent, driver
<1>2. /\ box' \in [Boxes -> BoxTypes] /\ registry' \in [Contexts -> Boxes \cup {None}]
      /\ Registered' /\ box[b].kind = "ref" /\ box'[b].kind = "primary" /\ box'[b].ctx = Primary
      /\ \A d \in Boxes : d # b => box'[d] = box[d]
  BY <1>1, NewBoxOK DEF Contexts
<1>3. /\ op' \in [Threads -> OpTypes] /\ op'[t].step = "idle" /\ op'[t].item = None
      /\ \A u \in Threads : u # t => op'[u] = op[u]
  BY <1>1, NextIdle DEF Typed
<1>4. Typed'
  BY <1>1, <1>2, <1>3 DEF Typed, Contexts
<1>5. Counted'
  BY <1>1, <1>2, <1>3, AdoptCounted
<1>6. Homes'
  BY <1>1 DEF Homes
<1>7. Ops'
  <2>1. op[t].item = None
    BY <1>1 DEF Ops, OpOK
  <2>2. OpOK(t)'
    BY <1>3 DEF OpOK, Within
  <2> QED
    BY <1>1, <1>3, <2>1, <2>2, OpsStay
<1>8. Backs'
  <2>1. /\ current'[t] = chosen'[t] /\ t \notin lost'
        /\ \A u \in Threads : u # t =>
              current'[u] = current[u] /\ chosen'[u] = chosen[u] /\ (u \in lost' <=> u \in lost)
    BY <1>1 DEF Typed
  <2>2. Back(t)'
    BY <1>3, <2>1 DEF Back, Due
  <2> QED
    BY <1>1, <1>3, <2>1, <2>2, BacksNext
<1> QED
  BY <1>2, <1>4, <1>5, <1>6, <1>7, <1>8

\* The handle is cached although making it current has failed.
LEMMA AdoptOnlyInv ==
  ASSUME IInv, NEW t \in Threads, NEW b \in Boxes, AdoptOnly(t, b)
  PROVE  IInv'
<1> USE DEF IInv
<1>1. /\ Fault /\ op[t].step = "retained" /\ NewBox(b, "primary", Primary)
      /\ cache' = [cache EXCEPT ![t] = b] /\ Done(t)
      /\ UNCHANGED <<retained, retains, foreign, greens, current, device, objects, item, home, chosen, stray, lost>>
  BY DEF AdoptOnly, driver
<1>2. /\ box' \in [Boxes -> BoxTypes] /\ registry' \in [Contexts -> Boxes \cup {None}]
      /\ Registered' /\ box[b].kind = "ref" /\ box'[b].kind = "primary"
      /\ \A d \in Boxes : d # b => box'[d] = box[d]
  BY <1>1, NewBoxOK DEF Contexts
<1>3. /\ op' \in [Threads -> OpTypes] /\ op'[t].step = "idle" /\ op'[t].item = None
      /\ \A u \in Threads : u # t => op'[u] = op[u]
  BY <1>1, NextIdle DEF Typed
<1>4. Typed'
  <2>1. faults' \in 0 .. MaxFaults /\ cache' \in [Threads -> Boxes \cup {None}]
    BY <1>1, BoundsAreNatural DEF Fault, Typed
  <2> QED
    BY <1>1, <1>2, <1>3, <2>1 DEF Typed
<1>5. Counted'
  BY <1>1, <1>2, <1>3, AdoptCounted
<1>6. Homes'
  BY <1>1 DEF Homes
<1>7. Ops'
  <2>1. op[t].item = None
    BY <1>1 DEF Ops, OpOK
  <2>2. OpOK(t)'
    BY <1>3 DEF OpOK, Within
  <2> QED
    BY <1>1, <1>3, <2>1, <2>2, OpsStay
<1>8. Backs'
  <2>1. Back(t)'
    BY <1>1, <1>3 DEF Backs, Back, Due, Outside
  <2> QED
    BY <1>1, <1>3, <2>1, BacksNext
<1> QED
  BY <1>2, <1>4, <1>5, <1>6, <1>7, <1>8

\* A thread chooses a context, or gives up what it has; its operation is none
\* or the lookup of a context for an object.
LEMMA ChooseInv ==
  ASSUME IInv, NEW t \in Threads, op[t].step = "idle",
         /\ op' \in [Threads -> OpTypes] /\ op'[t].step \in {"idle", "lookup"} /\ op'[t].item = None
         /\ op'[t].step = "lookup" => op'[t].for = "object" /\ op'[t].ctx \in Contexts
         /\ \A u \in Threads : u # t => op'[u] = op[u],
         /\ current' \in [Threads -> Contexts \cup {None}] /\ chosen' \in [Threads -> Contexts \cup {None}]
         /\ current'[t] = chosen'[t] /\ lost' = lost \ {t}
         /\ \A u \in Threads : u # t => current'[u] = current[u] /\ chosen'[u] = chosen[u],
         foreign' \in BOOLEAN,
         cache' \in [Threads -> Boxes \cup {None}], device' \in [Threads -> Boxes \cup {None}],
         UNCHANGED <<retained, retains, greens, box, registry, objects, item, home, stray, faults>>
  PROVE  IInv'
<1> USE DEF IInv
<1>1. Typed'
  BY DEF Typed
<1>2. Registered' /\ Homes'
  BY DEF Registered, Homes
<1>3. Counted'
  BY CountStays
<1>4. Ops'
  <2>1. op[t].item = None
    BY DEF Ops, OpOK
  <2>2. OpOK(t)'
    BY DEF OpOK, Within
  <2> QED
    BY <2>1, <2>2, OpsStay
<1>5. Backs'
  <2>1. Back(t)'
    BY DEF Back, Due
  <2>2. \A u \in Threads : u # t => (u \in lost' <=> u \in lost)
    OBVIOUS
  <2> QED
    BY <2>1, <2>2, BacksNext
<1> QED
  BY <1>1, <1>2, <1>3, <1>4, <1>5

\* The box that a thread makes current has a context.
LEMMA MadeCurrent ==
  ASSUME Typed, NEW t \in Threads, NEW b \in Boxes, UNCHANGED box, MakeCurrent(t, b)
  PROVE  /\ current' \in [Threads -> Contexts \cup {None}] /\ chosen' \in [Threads -> Contexts \cup {None}]
         /\ current'[t] = chosen'[t] /\ lost' = lost \ {t}
         /\ \A u \in Threads : u # t => current'[u] = current[u] /\ chosen'[u] = chosen[u]
         /\ device' \in [Threads -> Boxes \cup {None}]
<1>1. box[b].ctx \in Contexts
  BY DEF Typed, BoxTypes
<1> QED
  BY <1>1 DEF Typed, MakeCurrent

LEMMA UsePrimaryInv ==
  ASSUME IInv, NEW t \in Threads, UsePrimary(t)
  PROVE  IInv'
<1>1. cache[t] \in Boxes
  BY DEF UsePrimary, IInv, Typed
<1>2. op[t].step = "idle" /\ op[t].item = None
  BY DEF UsePrimary, IInv, Ops, OpOK
<1>3. UNCHANGED <<retained, retains, foreign, greens, box, registry, cache, objects, item, home, op, stray, faults>>
  BY DEF UsePrimary, driver
<1>4. /\ current' \in [Threads -> Contexts \cup {None}] /\ chosen' \in [Threads -> Contexts \cup {None}]
      /\ current'[t] = chosen'[t] /\ lost' = lost \ {t}
      /\ \A u \in Threads : u # t => current'[u] = current[u] /\ chosen'[u] = chosen[u]
      /\ device' \in [Threads -> Boxes \cup {None}]
  BY <1>1, MadeCurrent DEF UsePrimary, IInv
<1>5. op \in [Threads -> OpTypes] /\ cache \in [Threads -> Boxes \cup {None}] /\ foreign \in BOOLEAN
  BY DEF IInv, Typed
<1> QED
  BY <1>2, <1>3, <1>4, <1>5, ChooseInv

LEMMA SetCurrentInv ==
  ASSUME IInv, NEW t \in Threads, NEW b \in Boxes, SetCurrent(t, b)
  PROVE  IInv'
<1>1. op[t].step = "idle" /\ op[t].item = None
  BY DEF SetCurrent, IInv, Ops, OpOK
<1>2. UNCHANGED <<retained, retains, foreign, greens, box, registry, cache, objects, item, home, stray, faults>>
  BY DEF SetCurrent, driver
<1>3. /\ current' \in [Threads -> Contexts \cup {None}] /\ chosen' \in [Threads -> Contexts \cup {None}]
      /\ current'[t] = chosen'[t] /\ lost' = lost \ {t}
      /\ \A u \in Threads : u # t => current'[u] = current[u] /\ chosen'[u] = chosen[u]
      /\ device' \in [Threads -> Boxes \cup {None}]
  BY MadeCurrent DEF SetCurrent, IInv
<1>4. op \in [Threads -> OpTypes] /\ cache \in [Threads -> Boxes \cup {None}] /\ foreign \in BOOLEAN
  BY DEF IInv, Typed
<1>5. \/ op' = op
      \/ /\ current[t] \in Contexts
         /\ op' = [op EXCEPT ![t] = LookingUp("object", current[t], None)]
  BY DEF SetCurrent, IInv, Typed
<1>6. /\ op' \in [Threads -> OpTypes] /\ op'[t].step \in {"idle", "lookup"} /\ op'[t].item = None
      /\ op'[t].step = "lookup" => op'[t].for = "object" /\ op'[t].ctx \in Contexts
      /\ \A u \in Threads : u # t => op'[u] = op[u]
  <2>1. CASE op' = op
    BY <1>1, <1>4, <2>1
  <2>2. CASE current[t] \in Contexts /\ op' = [op EXCEPT ![t] = LookingUp("object", current[t], None)]
    <3>1. "object" \in Purposes /\ None \in Items \cup {None}
      BY DEF Purposes
    <3>2. /\ op' \in [Threads -> OpTypes]
          /\ op'[t].step = "lookup" /\ op'[t].for = "object" /\ op'[t].ctx = current[t] /\ op'[t].item = None
          /\ \A u \in Threads : u # t => op'[u] = op[u]
      BY <1>4, <2>2, <3>1, NextLookup
    <3> QED
      BY <2>2, <3>2
  <2> QED
    BY <1>5, <2>1, <2>2
<1> QED
  BY <1>1, <1>2, <1>3, <1>4, <1>6, ChooseInv

\* A push that failed leaves the thread in no context, which is now its own.
LEMMA PushFailsInv ==
  ASSUME IInv, NEW t \in Threads, NEW b \in Boxes, PushFails(t, b)
  PROVE  IInv'
<1> USE DEF IInv
<1>1. /\ op[t].step = "idle" /\ current' = [current EXCEPT ![t] = None] /\ lost' = lost \cup {t}
      /\ faults' \in 0 .. MaxFaults
      /\ UNCHANGED <<retained, retains, foreign, greens, box, registry, cache, device, objects, item, home, op, chosen, stray>>
  BY BoundsAreNatural DEF PushFails, Refused, Fault, Typed, driver, handles, holding
<1>2. /\ current' \in [Threads -> Contexts \cup {None}] /\ current'[t] = None
      /\ \A u \in Threads : u # t => current'[u] = current[u] /\ (u \in lost' <=> u \in lost)
  BY <1>1 DEF Typed
<1>3. Typed'
  BY <1>1, <1>2 DEF Typed
<1>4. Registered' /\ Homes'
  BY <1>1 DEF Registered, Homes
<1>5. Ops'
  BY <1>1 DEF Ops, OpOK
<1>6. Counted'
  BY <1>1, CountStays
<1>7. Backs'
  <2>1. Back(t)'
    BY <1>1, <1>2 DEF Back, Due
  <2> QED
    BY <1>1, <1>2, <2>1, BacksNext
<1> QED
  BY <1>3, <1>4, <1>5, <1>6, <1>7

\* The memory whose deallocation could not be bound is freed again, or leaks.
LEMMA AllocateFailsInv ==
  ASSUME IInv, NEW t \in Threads, NEW i \in Items, AllocateFails(t, i)
  PROVE  IInv'
<1> USE DEF IInv
<1>1. /\ op[t].step = "idle" /\ item[i] = "none" /\ (\A u \in Threads : op[u].item # i)
      /\ item' \in {item, [item EXCEPT ![i] = "leaked"]} /\ faults' \in 0 .. MaxFaults
      /\ UNCHANGED <<retained, retains, foreign, greens, current, box, registry, cache, device, objects, home, op, chosen, stray, lost>>
  BY BoundsAreNatural DEF AllocateFails, Unmade, Fault, Typed, driver, handles, holding
<1>2. /\ item' \in [Items -> {"none", "made", "owned", "leaked"}]
      /\ \A j \in Items : j # i => item'[j] = item[j]
      /\ item'[i] \in {"none", "leaked"}
  BY <1>1 DEF Typed
<1>3. Typed'
  BY <1>1, <1>2 DEF Typed
<1>4. Registered' /\ Backs'
  BY <1>1 DEF Registered, Backs, Back, Due
<1>5. Homes'
  BY <1>1, <1>2 DEF Homes
<1>6. Counted'
  BY <1>1, CountStays
<1>7. Ops'
  <2>1. op[t].item = None /\ OpOK(t)
    BY <1>1 DEF Ops, OpOK
  <2>2. OpOK(t)'
    BY <1>1, <2>1 DEF OpOK, Within
  <2> QED
    BY <1>1, <1>2, <2>1, <2>2, OpsNext
<1> QED
  BY <1>3, <1>4, <1>5, <1>6, <1>7

LEMMA ThreadExitInv ==
  ASSUME IInv, NEW t \in Threads, ThreadExit(t)
  PROVE  IInv'
<1>1. op[t].step = "idle" /\ op[t].item = None
  BY DEF ThreadExit, IInv, Ops, OpOK
<1>2. UNCHANGED <<retained, retains, foreign, greens, box, registry, objects, item, home, op, stray, faults>>
  BY DEF ThreadExit, driver, handles
<1>3. /\ current' \in [Threads -> Contexts \cup {None}] /\ chosen' \in [Threads -> Contexts \cup {None}]
      /\ current'[t] = chosen'[t] /\ lost' = lost \ {t}
      /\ \A u \in Threads : u # t => current'[u] = current[u] /\ chosen'[u] = chosen[u]
      /\ cache' \in [Threads -> Boxes \cup {None}] /\ device' \in [Threads -> Boxes \cup {None}]
  BY DEF ThreadExit, IInv, Typed
<1>4. op \in [Threads -> OpTypes] /\ foreign \in BOOLEAN
  BY DEF IInv, Typed
<1> QED
  BY <1>1, <1>2, <1>3, <1>4, ChooseInv

LEMMA ForeignInv ==
  ASSUME IInv, NEW t \in Threads, ForeignCurrent(t)
  PROVE  IInv'
<1>1. op[t].step = "idle" /\ op[t].item = None
  BY DEF ForeignCurrent, IInv, Ops, OpOK
<1>2. /\ foreign' = TRUE
      /\ UNCHANGED <<retained, retains, greens, box, registry, cache, device, objects, item, home, op, stray, faults>>
  BY DEF ForeignCurrent, handles, holding
<1>3. /\ current' \in [Threads -> Contexts \cup {None}] /\ chosen' \in [Threads -> Contexts \cup {None}]
      /\ current'[t] = chosen'[t] /\ lost' = lost \ {t}
      /\ \A u \in Threads : u # t => current'[u] = current[u] /\ chosen'[u] = chosen[u]
  BY DEF ForeignCurrent, IInv, Typed, Contexts
<1>4. /\ op \in [Threads -> OpTypes]
      /\ cache \in [Threads -> Boxes \cup {None}] /\ device \in [Threads -> Boxes \cup {None}]
  BY DEF IInv, Typed
<1> QED
  BY <1>1, <1>2, <1>3, <1>4, ChooseInv

LEMMA DropObjectInv ==
  ASSUME IInv, NEW b \in Boxes, DropObject(b)
  PROVE  IInv'
<1> USE DEF IInv
<1>1. /\ objects' \subseteq objects
      /\ UNCHANGED <<retained, retains, foreign, greens, current, box, registry, cache, device, item, home, op, chosen, stray, lost, faults>>
  BY DEF DropObject, driver, handles
<1>2. Typed'
  BY <1>1 DEF Typed
<1>3. Registered' /\ Homes' /\ Backs'
  BY <1>1 DEF Registered, Homes, Backs, Back, Due
<1>4. Ops'
  BY <1>1 DEF Ops, OpOK
<1>5. Counted'
  BY <1>1, CountStays
<1> QED
  BY <1>2, <1>3, <1>4, <1>5

\* A lookup begins: for an object, or for an item that nobody works on.
LEMMA BeginInv ==
  ASSUME IInv, NEW t \in Threads, op[t].step = "idle",
         NEW for \in {"green", "object", "bind"}, NEW c \in Contexts, NEW i \in Items \cup {None},
         op' = [op EXCEPT ![t] = LookingUp(for, c, i)],
         for = "bind" => i \in Items /\ item[i] = "none" /\ \A u \in Threads : op[u].item # i,
         for # "bind" => i = None,
         greens' \subseteq Greens,
         UNCHANGED <<retained, retains, foreign, current, box, registry, cache, device, objects, item, home, chosen, stray, lost, faults>>
  PROVE  IInv'
<1> USE DEF IInv
<1>1. for \in Purposes /\ op \in [Threads -> OpTypes]
  BY DEF Purposes, Typed
<1>2. /\ op' \in [Threads -> OpTypes]
      /\ op'[t].step = "lookup" /\ op'[t].for = for /\ op'[t].ctx = c /\ op'[t].item = i
      /\ \A u \in Threads : u # t => op'[u] = op[u]
  BY <1>1, NextLookup, ZenonT(60)
<1>3. Typed'
  BY <1>2 DEF Typed
<1>4. Registered' /\ Homes'
  BY DEF Registered, Homes
<1>5. Counted'
  BY <1>2, CountStays
<1>6. Ops'
  <2>1. op[t].item = None
    BY DEF Ops, OpOK
  <2>2. OpOK(t)'
    BY <1>2 DEF OpOK, Within
  <2>3. i # None => op[t].item = i \/ \A u \in Threads : op[u].item # i
    OBVIOUS
  <2>4. i \in Items => item'[i] # "made"
    BY NamesAreDistinct
  <2> QED
    BY <1>2, <2>1, <2>2, <2>3, <2>4, OpsNext
<1>7. Backs'
  <2>1. Back(t)'
    BY <1>2 DEF Backs, Back, Due, Outside
  <2> QED
    BY <1>2, <2>1, BacksNext
<1> QED
  BY <1>3, <1>4, <1>5, <1>6, <1>7

LEMMA CreateGreenInv ==
  ASSUME IInv, NEW t \in Threads, NEW g \in Greens, CreateGreen(t, g)
  PROVE  IInv'
<1>1. /\ op[t].step = "idle" /\ greens' \subseteq Greens
      /\ op' = [op EXCEPT ![t] = LookingUp("green", g, None)]
      /\ UNCHANGED <<retained, retains, foreign, current, box, registry, cache, device, objects, item, home, chosen, stray, lost, faults>>
  BY DEF CreateGreen, handles, holding, IInv, Typed
<1>2. g \in Contexts /\ "green" \in {"green", "object", "bind"} /\ None \in Items \cup {None}
  BY DEF Contexts
<1>3. "green" # "bind"
  OBVIOUS
<1> QED
  BY <1>1, <1>2, <1>3, BeginInv

LEMMA CurrentInv ==
  ASSUME IInv, NEW t \in Threads, CurrentObject(t) \/ \E i \in Items : Allocate(t, i)
  PROVE  IInv'
<1>1. PICK for \in {"object", "bind"}, i \in Items \cup {None} :
        /\ Current(t, for, i)
        /\ for = "bind" => i \in Items /\ item[i] = "none" /\ \A u \in Threads : op[u].item # i
        /\ for # "bind" => i = None
  <2>1. CASE CurrentObject(t)
    <3>1. "object" \in {"object", "bind"} /\ None \in Items \cup {None} /\ "object" # "bind"
      OBVIOUS
    <3> QED
      BY <2>1, <3>1 DEF CurrentObject
  <2>2. ASSUME NEW i \in Items, Allocate(t, i)
        PROVE  /\ "bind" \in {"object", "bind"} /\ i \in Items \cup {None}
               /\ Current(t, "bind", i) /\ item[i] = "none" /\ \A u \in Threads : op[u].item # i
    BY <2>2 DEF Allocate, Unmade
  <2> QED
    BY <2>1, <2>2
<1>2. /\ op[t].step = "idle" /\ current[t] # None
      /\ op' = [op EXCEPT ![t] = LookingUp(for, current[t], i)]
      /\ UNCHANGED <<retained, retains, foreign, greens, current, box, registry, cache, device, objects, item, home, chosen, stray, lost, faults>>
  BY <1>1 DEF Current, driver, handles, holding
<1>3. current[t] \in Contexts /\ greens \subseteq Greens /\ for \in {"green", "object", "bind"}
  BY <1>2 DEF IInv, Typed
<1>4. greens' \subseteq Greens
  BY <1>2, <1>3
<1> QED
  BY <1>1, <1>2, <1>3, <1>4, BeginInv

LEMMA StoreInv ==
  ASSUME IInv, NEW t \in Threads, Store(t)
  PROVE  IInv'
<1> USE DEF IInv
<1> DEFINE i == op[t].item
<1>1. /\ op[t].step = "have" /\ Done(t)
      /\ greens' \subseteq greens
      /\ \/ /\ op[t].for = "bind" /\ item' = [item EXCEPT ![i] = "owned"]
            /\ home' = [home EXCEPT ![i] = op[t].box] /\ UNCHANGED objects
         \/ op[t].for # "bind" /\ objects' = objects \cup {op[t].box} /\ UNCHANGED <<item, home>>
      /\ UNCHANGED <<retained, retains, foreign, current, box, registry, cache, device, chosen, stray, lost, faults>>
  BY DEF Store, handles
<1>2. /\ op[t].box \in Boxes /\ op[t].box # None
      /\ op[t].for = "bind" => i \in Items /\ item[i] = "none"
      /\ op[t].for # "bind" => i = None
  BY <1>1, NamesAreDistinct DEF Ops, OpOK
<1>3. /\ op' \in [Threads -> OpTypes] /\ op'[t].step = "idle" /\ op'[t].item = None
      /\ \A u \in Threads : u # t => op'[u] = op[u]
  BY <1>1, NextIdle DEF Typed
<1>4. /\ item' \in [Items -> {"none", "made", "owned", "leaked"}] /\ home' \in [Items -> Boxes \cup {None}]
      /\ \A j \in Items : j # i => item'[j] = item[j] /\ home'[j] = home[j]
      /\ i \in Items => item'[i] = "owned" /\ home'[i] # None
  BY <1>1, <1>2, NamesAreDistinct DEF Typed
<1> HIDE DEF i
<1>5. objects' \subseteq Boxes
  BY <1>1, <1>2 DEF Typed
<1>6. Typed'
  BY <1>1, <1>3, <1>4, <1>5 DEF Typed
<1>7. Registered'
  BY <1>1 DEF Registered
<1>8. Homes'
  BY <1>4 DEF Homes
<1>9. Counted'
  BY <1>1, <1>3, CountStays
<1>10. Ops'
  <2>1. OpOK(t)' /\ i \in Items \cup {None}
    BY <1>2, <1>3 DEF OpOK, Within
  <2>2. i \in Items => item'[i] # "made"
    BY <1>4
  <2> QED
    BY <1>3, <1>4, <2>1, <2>2, OpsNext DEF i
<1>11. Backs'
  <2>1. Back(t)'
    BY <1>1, <1>3 DEF Backs, Back, Due, Outside
  <2> QED
    BY <1>1, <1>3, <2>1, BacksNext
<1> QED
  BY <1>6, <1>7, <1>8, <1>9, <1>10, <1>11

\* A thread enters the context of a box, to work on an item.
LEMMA EnteredInv ==
  ASSUME IInv, NEW t \in Threads, NEW for \in {"create", "texture", "destroy"}, NEW b \in Boxes, NEW i \in Items,
         op[t].step = "idle", Entered(t, for, b, i),
         \A u \in Threads : op[u].item # i,
         item' \in [Items -> {"none", "made", "owned", "leaked"}], home' \in [Items -> Boxes \cup {None}],
         \A j \in Items : j # i => item'[j] = item[j] /\ home'[j] = home[j],
         home'[i] = None, item'[i] = IF for = "destroy" THEN "made" ELSE "none",
         UNCHANGED <<retained, retains, foreign, greens, box, registry, cache, device, objects, chosen, stray, lost>>
  PROVE  IInv'
<1> USE DEF IInv
<1> DEFINE o == Inside(t, for, b, i)
<1>1. /\ op' = [op EXCEPT ![t] = o] /\ faults' = faults
      /\ current' = [current EXCEPT ![t] = box[b].ctx]
  BY DEF Entered
<1>2. box[b].ctx \in Contexts /\ current[t] \in Contexts \cup {None}
  BY DEF Typed, BoxTypes
<1>3. /\ o \in OpTypes /\ o.step = "entered" /\ o.for = for /\ o.ctx = box[b].ctx /\ o.box = b /\ o.item = i
      /\ o.prev = current[t] /\ o.changed = (current[t] # box[b].ctx)
  BY <1>2 DEF Inside, OpTypes, Steps, Purposes
<1> HIDE DEF o
<1>4. /\ op' \in [Threads -> OpTypes] /\ op'[t] = o /\ \A u \in Threads : u # t => op'[u] = op[u]
  BY <1>1, <1>3 DEF Typed
<1>5. /\ current' \in [Threads -> Contexts \cup {None}] /\ current'[t] = box[b].ctx
      /\ \A u \in Threads : u # t => current'[u] = current[u]
  BY <1>1, <1>2 DEF Typed
<1>6. Typed'
  BY <1>1, <1>4, <1>5 DEF Typed
<1>7. Registered'
  BY DEF Registered
<1>8. Homes'
  BY DEF Homes
<1>9. Counted'
  BY <1>3, <1>4, CountStays
<1>10. Ops'
  <2>1. OpOK(t)'
    BY <1>3, <1>4 DEF OpOK, Within
  <2>2. op[t].item = None
    BY DEF Ops, OpOK
  <2> QED
    BY <1>3, <1>4, <2>1, <2>2, OpsNext
<1>11. Backs'
  <2>1. Back(t)'
    BY <1>3, <1>4, <1>5, ZenonT(60) DEF Backs, Back, Due, Outside
  <2> QED
    BY <1>4, <1>5, <2>1, BacksNext
<1> QED
  BY <1>6, <1>7, <1>8, <1>9, <1>10, <1>11

LEMMA CreateInv ==
  ASSUME IInv, NEW t \in Threads, NEW for \in {"create", "texture"}, NEW b \in Boxes, NEW i \in Items,
         Create(t, for, b, i)
  PROVE  IInv'
<1>1. /\ op[t].step = "idle" /\ item[i] = "none" /\ (\A u \in Threads : op[u].item # i)
      /\ Entered(t, for, b, i)
      /\ UNCHANGED <<retained, retains, foreign, greens, box, registry, cache, device, objects, item, home, chosen, stray, lost>>
  BY DEF Create, Unmade, driver, handles, holding
<1>2. item \in [Items -> {"none", "made", "owned", "leaked"}] /\ home \in [Items -> Boxes \cup {None}]
  BY DEF IInv, Typed
<1>3. home[i] = None
  BY <1>1 DEF IInv, Homes
<1>4. for \in {"create", "texture", "destroy"} /\ for # "destroy"
  OBVIOUS
<1> QED
  BY <1>1, <1>2, <1>3, <1>4, EnteredInv

LEMMA DestroyInv ==
  ASSUME IInv, NEW t \in Threads, NEW i \in Items, Destroy(t, i)
  PROVE  IInv'
<1>1. /\ op[t].step = "idle" /\ item[i] = "owned" /\ home' = [home EXCEPT ![i] = None]
      /\ UNCHANGED <<retained, retains, foreign, greens, box, registry, cache, device, objects, chosen, stray, lost>>
  BY DEF Destroy, driver, handles, holding
<1>2. /\ item \in [Items -> {"none", "made", "owned", "leaked"}] /\ home \in [Items -> Boxes \cup {None}]
      /\ home[i] \in Boxes
  BY <1>1 DEF IInv, Typed, Homes
<1>3. \A u \in Threads : op[u].item # i
  <2>1. ASSUME NEW u \in Threads, op[u].item = i PROVE FALSE
    <3>1. op[u].item # None /\ op[u].step \in Steps
      BY <2>1, NamesAreDistinct DEF IInv, Typed, OpTypes
    <3>2. OpOK(u)
      BY DEF IInv, Ops
    <3> QED
      BY <1>1, <2>1, <3>1, <3>2 DEF OpOK, Within, Steps
  <2> QED
    BY <2>1
<1>4. /\ home' \in [Items -> Boxes \cup {None}] /\ home'[i] = None
      /\ \A j \in Items : j # i => home'[j] = home[j]
  BY <1>1, <1>2
<1>5. CASE Entered(t, "destroy", home[i], i) /\ item' = [item EXCEPT ![i] = "made"]
  <2>1. /\ item' \in [Items -> {"none", "made", "owned", "leaked"}] /\ item'[i] = "made"
        /\ \A j \in Items : j # i => item'[j] = item[j]
    BY <1>2, <1>5
  <2>2. "destroy" \in {"create", "texture", "destroy"}
    OBVIOUS
  <2>3. item'[i] = IF "destroy" = "destroy" THEN "made" ELSE "none"
    BY <2>1
  <2>4. \A j \in Items : j # i => item'[j] = item[j] /\ home'[j] = home[j]
    BY <1>4, <2>1
  <2> QED
    BY <1>1, <1>2, <1>3, <1>4, <1>5, <2>1, <2>2, <2>3, <2>4, EnteredInv
<1>6. CASE Refused(home[i]) /\ item' = [item EXCEPT ![i] = "leaked"] /\ UNCHANGED <<op, current>>
  <2>1. /\ item' \in [Items -> {"none", "made", "owned", "leaked"}] /\ item'[i] = "leaked"
        /\ \A j \in Items : j # i => item'[j] = item[j]
    BY <1>2, <1>6
  <2>2. faults' \in 0 .. MaxFaults
    BY <1>6, BoundsAreNatural DEF Refused, Fault, IInv, Typed
  <2>3. Typed'
    BY <1>1, <1>4, <1>6, <2>1, <2>2 DEF IInv, Typed
  <2>4. Registered' /\ Backs'
    BY <1>1, <1>6 DEF IInv, Registered, Backs, Back, Due
  <2>5. Counted'
    BY <1>1, <1>6, CountStays DEF IInv
  <2>6. Homes'
    BY <1>4, <2>1 DEF IInv, Homes
  <2>7. Ops'
    <3>1. op[t].item = None /\ OpOK(t)
      BY <1>1 DEF IInv, Ops, OpOK
    <3>2. OpOK(t)'
      BY <1>1, <1>6, <3>1 DEF OpOK, Within
    <3> QED
      BY <1>3, <1>6, <2>1, <3>1, <3>2, OpsNext DEF IInv
  <2> QED
    BY <2>3, <2>4, <2>5, <2>6, <2>7 DEF IInv
<1> QED
  BY <1>5, <1>6 DEF Destroy

\* The work on an item goes a step on, or is over.
LEMMA WorkInv ==
  ASSUME IInv, NEW t \in Threads, op[t].step \in Within,
         op' \in [Threads -> OpTypes], op'[t].step # "retained",
         op'[t].item \in {None, op[t].item},
         \A u \in Threads : u # t => op'[u] = op[u],
         item' \in [Items -> {"none", "made", "owned", "leaked"}], home' \in [Items -> Boxes \cup {None}],
         \A j \in Items : j # op[t].item => item'[j] = item[j] /\ home'[j] = home[j],
         item'[op[t].item] = "owned" <=> home'[op[t].item] # None,
         item'[op[t].item] = "made" => op'[t].item = op[t].item,
         OpOK(t)', Back(t)',
         current' \in [Threads -> Contexts \cup {None}], \A u \in Threads : u # t => current'[u] = current[u],
         stray' \in {stray, stray \cup {t}}, faults' \in 0 .. MaxFaults,
         UNCHANGED <<retained, retains, foreign, greens, box, registry, cache, device, objects, chosen, lost>>
  PROVE  IInv'
<1> USE DEF IInv
<1>1. op[t].item \in Items /\ op[t].step # "retained"
  BY DEF Ops, OpOK, Within
<1>2. Typed'
  BY DEF Typed
<1>3. Registered'
  BY DEF Registered
<1>4. Counted'
  BY <1>1, CountStays
<1>5. Homes'
  BY <1>1 DEF Homes
<1>6. Ops'
  BY <1>1, OpsNext
<1>7. Backs'
  BY BacksNext
<1> QED
  BY <1>2, <1>3, <1>4, <1>5, <1>6, <1>7

LEMMA OperateInv ==
  ASSUME IInv, NEW t \in Threads, Operate(t)
  PROVE  IInv'
<1> DEFINE i == op[t].item
<1>1. /\ op[t].step = "entered" /\ op' = [op EXCEPT ![t].step = "operated"]
      /\ \/ item' = [item EXCEPT ![i] = IF op[t].for = "destroy" THEN "none" ELSE "made"] /\ faults' = faults
         \/ item' = [item EXCEPT ![i] = IF op[t].for = "destroy" THEN "leaked" ELSE "none"] /\ Fault
      /\ UNCHANGED <<retained, retains, foreign, greens, current, box, registry, cache, device, objects, home, chosen, stray, lost>>
  BY DEF Operate, driver, handles, holding
<1>2. OpOK(t) /\ Back(t) /\ Homes /\ Typed
  BY DEF IInv, Ops, Backs
<1>3. /\ i \in Items /\ item[i] # "owned" /\ op[t].box \in Boxes /\ home[i] = None /\ op[t].step \in Within
  BY <1>1, <1>2 DEF OpOK, Homes, Within
<1>4. /\ op' \in [Threads -> OpTypes] /\ op'[t].step = "operated"
      /\ op'[t].for = op[t].for /\ op'[t].ctx = op[t].ctx /\ op'[t].item = op[t].item
      /\ op'[t].box = op[t].box /\ op'[t].prev = op[t].prev /\ op'[t].changed = op[t].changed
      /\ \A u \in Threads : u # t => op'[u] = op[u]
  BY <1>1, <1>2, NextStep DEF Typed, Steps
<1> HIDE DEF i
<1>5. /\ item' \in [Items -> {"none", "made", "owned", "leaked"}]
      /\ \A j \in Items : j # i => item'[j] = item[j]
      /\ item'[i] \in {"none", "made", "leaked"} /\ (op[t].for = "destroy" => item'[i] # "made")
  BY <1>1, <1>2, <1>3 DEF Typed
<1>6. faults' \in 0 .. MaxFaults
  BY <1>1, <1>2, BoundsAreNatural DEF Fault, Typed
<1>7. OpOK(t)'
  BY <1>3, <1>4, <1>5 DEF OpOK, Within, i
<1>8. Back(t)'
  BY <1>1, <1>2, <1>4 DEF Back, Due, Outside
<1>9. /\ home \in [Items -> Boxes \cup {None}] /\ current \in [Threads -> Contexts \cup {None}]
      /\ op'[t].step # "retained"
  BY <1>2, <1>4 DEF Typed
<1> QED
  BY <1>1, <1>3, <1>4, <1>5, <1>6, <1>7, <1>8, <1>9, WorkInv DEF i

LEMMA ExitInv ==
  ASSUME IInv, NEW t \in Threads, Exit(t)
  PROVE  IInv'
<1> DEFINE i == op[t].item
<1>1. /\ op[t].step = "operated" /\ Done(t)
      /\ current' = [current EXCEPT ![t] = IF op[t].changed THEN op[t].prev ELSE current[t]]
      /\ IF item[i] = "made"
         THEN item' = [item EXCEPT ![i] = "owned"] /\ home' = [home EXCEPT ![i] = op[t].box]
         ELSE UNCHANGED <<item, home>>
      /\ UNCHANGED <<retained, retains, foreign, greens, box, registry, cache, device, objects, chosen, stray, lost, faults>>
  BY DEF Exit, Restored, driver, handles, holding
<1>2. OpOK(t) /\ Back(t) /\ Homes /\ Typed
  BY DEF IInv, Ops, Backs
<1>3. /\ i \in Items /\ item[i] # "owned" /\ op[t].box \in Boxes /\ home[i] = None /\ op[t].step \in Within
  BY <1>1, <1>2 DEF OpOK, Homes, Within
<1>4. /\ op' \in [Threads -> OpTypes] /\ op'[t].step = "idle" /\ op'[t].item = None
      /\ \A u \in Threads : u # t => op'[u] = op[u]
  BY <1>1, <1>2, NextIdle DEF Typed
<1> HIDE DEF i
<1>5. /\ item' \in [Items -> {"none", "made", "owned", "leaked"}] /\ home' \in [Items -> Boxes \cup {None}]
      /\ \A j \in Items : j # i => item'[j] = item[j] /\ home'[j] = home[j]
      /\ item'[i] # "made" /\ (item'[i] = "owned" <=> home'[i] # None)
  BY <1>1, <1>2, <1>3, NamesAreDistinct DEF Typed
<1>6. /\ current' \in [Threads -> Contexts \cup {None}] /\ \A u \in Threads : u # t => current'[u] = current[u]
      /\ current'[t] = IF op[t].changed THEN op[t].prev ELSE current[t]
  BY <1>1, <1>2 DEF Typed, OpTypes
<1>7. OpOK(t)'
  BY <1>4 DEF OpOK, Within
<1>8. Back(t)'
  BY <1>1, <1>2, <1>4, <1>6 DEF Back, Due
<1>9. faults \in 0 .. MaxFaults /\ op'[t].step # "retained"
  BY <1>2, <1>4 DEF Typed
<1> QED
  BY <1>1, <1>3, <1>4, <1>5, <1>6, <1>7, <1>8, <1>9, WorkInv DEF i

LEMMA ExitFailsInv ==
  ASSUME IInv, NEW t \in Threads, ExitFails(t)
  PROVE  IInv'
<1> DEFINE i == op[t].item
<1>1. /\ op[t].step = "operated" /\ Fault /\ stray' = stray \cup {t}
      /\ current' \in {current, [current EXCEPT ![t] = None]}
      /\ \/ item[i] = "made" /\ op' = [op EXCEPT ![t].step = "undo"]
         \/ item[i] # "made" /\ Done(t)
      /\ UNCHANGED <<retained, retains, foreign, greens, box, registry, cache, device, objects, item, home, chosen, lost>>
  BY DEF ExitFails, driver, handles, holding
<1>2. OpOK(t) /\ Homes /\ Typed
  BY DEF IInv, Ops
<1>3. /\ i \in Items /\ item[i] # "owned" /\ op[t].box \in Boxes /\ home[i] = None /\ op[t].step \in Within
  BY <1>1, <1>2 DEF OpOK, Homes, Within
<1>4. /\ op' \in [Threads -> OpTypes] /\ op'[t].step \in {"undo", "idle"}
      /\ \A u \in Threads : u # t => op'[u] = op[u]
      /\ op'[t].step = "undo" => op'[t].item = i /\ op'[t].box = op[t].box /\ item[i] = "made"
      /\ op'[t].step = "idle" => op'[t].item = None /\ item[i] # "made"
  <2>1. CASE item[i] = "made" /\ op' = [op EXCEPT ![t].step = "undo"]
    BY <1>2, <2>1, NextStep DEF Typed, Steps
  <2>2. CASE item[i] # "made" /\ Done(t)
    BY <1>2, <2>2, NextIdle DEF Typed
  <2> QED
    BY <1>1, <2>1, <2>2
<1> HIDE DEF i
<1>5. /\ item \in [Items -> {"none", "made", "owned", "leaked"}] /\ home \in [Items -> Boxes \cup {None}]
  BY <1>2 DEF Typed
<1>6. /\ current' \in [Threads -> Contexts \cup {None}] /\ \A u \in Threads : u # t => current'[u] = current[u]
  BY <1>1, <1>2 DEF Typed
<1>7. OpOK(t)'
  BY <1>1, <1>3, <1>4 DEF OpOK, Within
<1>8. Back(t)'
  BY <1>1 DEF Back, Due
<1>9. faults' \in 0 .. MaxFaults /\ op'[t].step # "retained"
  BY <1>1, <1>2, <1>4, BoundsAreNatural DEF Fault, Typed
<1>10. stray' \in {stray, stray \cup {t}}
  BY <1>1
<1>11. op'[t].item \in {None, op[t].item} /\ (item'[op[t].item] = "made" => op'[t].item = op[t].item)
  BY <1>1, <1>4 DEF i
<1>12. item'[op[t].item] = "owned" <=> home'[op[t].item] # None
  BY <1>1, <1>3 DEF i
<1>13. \A j \in Items : j # op[t].item => item'[j] = item[j] /\ home'[j] = home[j]
  BY <1>1
<1> QED
  BY <1>1, <1>3, <1>4, <1>5, <1>6, <1>7, <1>8, <1>9, <1>10, <1>11, <1>12, <1>13, WorkInv

LEMMA UndoInv ==
  ASSUME IInv, NEW t \in Threads, Undo(t)
  PROVE  IInv'
<1> DEFINE i == op[t].item
<1>1. /\ op[t].step = "undo" /\ Done(t)
      /\ \E x \in {"none", "leaked"} : item' = [item EXCEPT ![i] = x]
      /\ UNCHANGED <<retained, retains, foreign, greens, current, box, registry, cache, device, objects, home, chosen, stray, lost, faults>>
  BY DEF Undo, driver, handles, holding
<1>2. OpOK(t) /\ Back(t) /\ Homes /\ Typed
  BY DEF IInv, Ops, Backs
<1>3. /\ i \in Items /\ item[i] # "owned" /\ home[i] = None /\ op[t].step \in Within
  BY <1>1, <1>2 DEF OpOK, Homes, Within
<1>4. /\ op' \in [Threads -> OpTypes] /\ op'[t].step = "idle" /\ op'[t].item = None
      /\ \A u \in Threads : u # t => op'[u] = op[u]
  BY <1>1, <1>2, NextIdle DEF Typed
<1> HIDE DEF i
<1>5. /\ item' \in [Items -> {"none", "made", "owned", "leaked"}]
      /\ \A j \in Items : j # i => item'[j] = item[j]
      /\ item'[i] \in {"none", "leaked"}
  BY <1>1, <1>2, <1>3 DEF Typed
<1>6. OpOK(t)'
  BY <1>4 DEF OpOK, Within
<1>7. Back(t)'
  BY <1>1, <1>2, <1>4 DEF Back, Due
<1>8. /\ home \in [Items -> Boxes \cup {None}] /\ current \in [Threads -> Contexts \cup {None}]
      /\ faults \in 0 .. MaxFaults /\ op'[t].step # "retained"
  BY <1>2, <1>4 DEF Typed
<1> QED
  BY <1>1, <1>3, <1>4, <1>5, <1>6, <1>7, <1>8, WorkInv DEF i

-----------------------------------------------------------------------------
(* The theorems.                                                           *)

LEMMA InvInit == Init => IInv
<1> SUFFICES ASSUME Init PROVE IInv
  OBVIOUS
<1>1. Idle \in OpTypes /\ Idle.step = "idle" /\ Idle.item = None
  BY DEF Idle, OpTypes, Steps, Purposes
<1>2. Unused \in BoxTypes /\ Unused.kind = "ref"
  BY DEF Unused, BoxTypes, Contexts
<1>3. op \in [Threads -> OpTypes] /\ \A t \in Threads : op[t].step = "idle" /\ op[t].item = None
  BY <1>1 DEF Init
<1>4. box \in [Boxes -> BoxTypes] /\ \A b \in Boxes : box[b].kind = "ref"
  BY <1>2 DEF Init
<1>5. Typed
  <2>1. retains \in 0 .. MaxRetains /\ faults \in 0 .. MaxFaults
    BY BoundsAreNatural DEF Init
  <2>2. /\ foreign \in BOOLEAN /\ greens \subseteq Greens /\ objects \subseteq Boxes /\ stray \subseteq Threads
        /\ lost \subseteq Threads
        /\ current \in [Threads -> Contexts \cup {None}] /\ chosen \in [Threads -> Contexts \cup {None}]
    BY DEF Init
  <2>3. /\ registry \in [Contexts -> Boxes \cup {None}]
        /\ cache \in [Threads -> Boxes \cup {None}] /\ device \in [Threads -> Boxes \cup {None}]
        /\ item \in [Items -> {"none", "made", "owned", "leaked"}]
        /\ home \in [Items -> Boxes \cup {None}]
    BY DEF Init
  <2> QED
    BY <1>3, <1>4, <2>1, <2>2, <2>3 DEF Typed
<1>6. Registered /\ Homes
  BY <1>4 DEF Init, Registered, Homes
<1>7. Counted
  <2>1. PrimaryBoxes = {} /\ Retaining = {}
    BY <1>3, <1>4 DEF PrimaryBoxes, Retaining
  <2> QED
    BY <2>1, FS_EmptySet DEF Counted, Init
<1>8. Ops
  BY <1>3 DEF Init, Ops, OpOK, Within
<1>9. Backs
  BY <1>3 DEF Init, Backs, Back, Due
<1> QED
  BY <1>5, <1>6, <1>7, <1>8, <1>9 DEF IInv

LEMMA InvNext == IInv /\ [Next]_vars => IInv'
<1> SUFFICES ASSUME IInv, [Next]_vars PROVE IInv'
  OBVIOUS
<1>1. ASSUME NEW t \in Threads,
             Lookup(t) \/ Retain(t) \/ UsePrimary(t) \/ CurrentObject(t) \/ Store(t) \/ ThreadExit(t) \/ ForeignCurrent(t)
      PROVE  IInv'
  BY <1>1, LookupInv, RetainInv, UsePrimaryInv, CurrentInv, StoreInv, ThreadExitInv, ForeignInv
<1>2. ASSUME NEW t \in Threads, NEW b \in Boxes, Register(t, b) \/ Adopt(t, b) \/ AdoptOnly(t, b) \/ SetCurrent(t, b) \/ PushFails(t, b)
      PROVE  IInv'
  BY <1>2, RegisterInv, AdoptInv, AdoptOnlyInv, SetCurrentInv, PushFailsInv
<1>3. ASSUME NEW t \in Threads, NEW g \in Greens, CreateGreen(t, g) PROVE IInv'
  BY <1>3, CreateGreenInv
<1>4. ASSUME NEW t \in Threads, NEW i \in Items, Allocate(t, i) \/ AllocateFails(t, i) \/ Destroy(t, i)
      PROVE  IInv'
  BY <1>4, CurrentInv, AllocateFailsInv, DestroyInv
<1>5. ASSUME NEW t \in Threads, NEW i \in Items, NEW b \in Boxes, NEW for \in {"create", "texture"}, Create(t, for, b, i)
      PROVE  IInv'
  BY <1>5, CreateInv
<1>6. ASSUME NEW t \in Threads, Operate(t) \/ Exit(t) \/ ExitFails(t) \/ Undo(t) PROVE IInv'
  BY <1>6, OperateInv, ExitInv, ExitFailsInv, UndoInv
<1>7. ASSUME NEW b \in Boxes, Delete(b) \/ DropObject(b) PROVE IInv'
  BY <1>7, DeleteInv, DropObjectInv
<1>8. CASE UNCHANGED vars
  <2>1. UNCHANGED <<retained, retains, foreign, greens, current, box, registry, cache, device, objects, item, home, op, chosen, stray, lost, faults>>
    BY <1>8 DEF vars
  <2>2. Typed'
    BY <2>1 DEF IInv, Typed
  <2>3. Registered' /\ Homes' /\ Backs'
    BY <2>1 DEF IInv, Registered, Homes, Backs, Back, Due
  <2>4. Ops'
    BY <2>1 DEF IInv, Ops, OpOK
  <2>5. Counted'
    BY <2>1, CountStays DEF IInv
  <2> QED
    BY <2>2, <2>3, <2>4, <2>5 DEF IInv
<1> QED
  BY <1>1, <1>2, <1>3, <1>4, <1>5, <1>6, <1>7, <1>8 DEF Next

\* The inductive invariant holds in every reachable state.
LEMMA InvAlways == Spec => []IInv
  BY InvInit, InvNext, PTL DEF Spec

\* Every variable keeps its type: the registry names live boxes of its contexts,
\* what is owned has its context, and cuda.core never releases a reference to
\* the primary context that it does not have.
THEOREM TypeCorrect == Spec => []TypeOK
<1>1. IInv => TypeOK
  <2> SUFFICES ASSUME IInv PROVE TypeOK
    OBVIOUS
  <2>1. retained \in Nat
    <3>1. Cardinality(PrimaryBoxes) \in Nat /\ Cardinality(Retaining) \in Nat
      BY FS_CardinalityType DEF IInv, Counted
    <3> QED
      BY <3>1 DEF IInv, Counted
  <2> QED
    BY <2>1 DEF IInv, Typed, Registered, Homes, TypeOK, OpTypes, BoxTypes, Steps, Purposes
<1> QED
  BY <1>1, InvAlways, PTL

\* enter_context and exit_context leave every thread in the context that it
\* chose, whatever ran in between, unless restoring it failed.
THEOREM CallersRestored == Spec => []CallerRestored
<1>1. IInv => CallerRestored
  BY DEF IInv, Backs, Back, Due, CallerRestored, Outside
<1> QED
  BY <1>1, InvAlways, PTL

\* invoke_in_context_or_undo hands over, undoes or leaks what it made, once.
THEOREM NothingOrphaned == Spec => []NoOrphans
<1>1. IInv => NoOrphans
  <2> SUFFICES ASSUME IInv, NEW i \in Items, item[i] = "made"
               PROVE  Cardinality({t \in Threads : op[t].item = i}) = 1
    BY DEF NoOrphans
  <2>1. PICK t \in Threads : op[t].item = i
    BY DEF IInv, Ops
  <2>2. i # None
    BY NamesAreDistinct
  <2>3. {u \in Threads : op[u].item = i} = {t}
    BY <2>1, <2>2 DEF IInv, Ops
  <2> QED
    BY <2>3, FS_Singleton
<1> QED
  BY <1>1, InvAlways, PTL

-----------------------------------------------------------------------------
(* Which handles are valid.  A green context has one box, and so does the  *)
(* primary context until it is retained again or used by somebody else:    *)
(* who looks one up holds its box already, through its own Device, so that *)
(* the lookup finds it and never makes a second one.                       *)

InUse(b) == box[b].state # "unused"

\* The contexts that cuda.core alone destroys: green contexts, and the primary
\* context until it is retained again or used by another library.
Tracked(c) == c \in Greens \/ (c = Primary /\ ~foreign /\ retains <= 1)
KindOf(c) == IF c = Primary THEN "primary" ELSE "green"

\* What is held is live, and a box knows what kind of context it has.
HeldLive == \A b \in Boxes : Held(b) => box[b].state = "live"

KindsFit ==
    \A b \in Boxes : InUse(b) =>
        /\ box[b].kind = "green" => box[b].ctx \in Greens
        /\ box[b].kind = "primary" => box[b].ctx = Primary

\* An operation in a context is in that of its box.
Inward(t) ==
    /\ op[t].step \in Within => op[t].ctx = box[op[t].box].ctx
    /\ op[t].step = "entered" => current[t] = op[t].ctx
    /\ op[t].step \in {"lookup", "missed", "have"} /\ op[t].for = "green" => op[t].ctx \in Greens
Inwards == \A t \in Threads : Inward(t)

\* The Device of a thread holds the context that the thread has chosen.
Anchored(t) == Tracked(chosen[t]) => device[t] # None /\ box[device[t]].ctx = chosen[t]
Anchors == \A t \in Threads : Anchored(t)

\* A tracked context has one box, which knows its kind and is in the registry
\* while it is held.
One ==
    \A b \in Boxes : InUse(b) /\ Tracked(box[b].ctx) =>
        /\ box[b].kind = KindOf(box[b].ctx)
        /\ \A d \in Boxes : InUse(d) /\ box[d].ctx = box[b].ctx => d = b
        /\ box[b].state = "live" /\ Held(b) => registry[box[b].ctx] = b
        /\ box[b].ctx \in Greens => box[b].ctx \in greens

\* A thread looks up a tracked context while its own Device holds the box, so
\* that it finds it; or it has just created a green context.
Making(t, g) == op[t].for = "green" /\ op[t].step \in {"lookup", "missed"} /\ op[t].ctx = g
Looking(t) ==
    /\ op[t].step \in {"lookup", "missed"} /\ op[t].for # "green" /\ Tracked(op[t].ctx) =>
        op[t].step = "lookup" /\ device[t] # None /\ box[device[t]].ctx = op[t].ctx
    /\ op[t].step = "have" /\ op[t].for = "green" => box[op[t].box].kind = "green"
Looks == \A t \in Threads : Looking(t)

\* A green context just created has no box yet, and one maker.
Makings ==
    \A t \in Threads, g \in Greens : Making(t, g) =>
        /\ g \in greens
        /\ \A b \in Boxes : InUse(b) => box[b].ctx # g
        /\ \A u \in Threads : Making(u, g) => u = t

Known ==
    /\ HeldLive /\ KindsFit /\ retained <= retains /\ Inwards /\ Anchors
    /\ stray = {} => One /\ Looks /\ Makings

\* Steps that make no box, no context and delete none, of one thread.
LEMMA KnownStays ==
  ASSUME IInv, Known, NEW t,
         box' = box, stray \subseteq stray', foreign => foreign', stray = {} => greens' = greens,
         (retained <= retains)', retains' <= 1 => retains <= 1,
         \A b \in Boxes : Held(b)' => Held(b),
         \A b \in Boxes : Held(b) /\ registry[box[b].ctx] = b => registry'[box[b].ctx] = b,
         \A u \in Threads : u # t =>
            op'[u] = op[u] /\ device'[u] = device[u] /\ chosen'[u] = chosen[u] /\ current'[u] = current[u],
         t \in Threads => Inward(t)' /\ Anchored(t)',
         t \in Threads /\ stray = {} => Looking(t)' /\ \A g \in Greens : Making(t, g)' => Making(t, g)
  PROVE  Known'
<1>b. \A c : Tracked(c)' => Tracked(c)
  BY DEF Tracked
<1>1. HeldLive' /\ KindsFit'
  BY DEF Known, HeldLive, KindsFit, InUse
<1>2. Inwards'
  BY DEF Known, Inwards, Inward
<1>3. Anchors'
  BY <1>b DEF Known, Anchors, Anchored
<1>4. ASSUME stray' = {} PROVE One' /\ Looks' /\ Makings'
  <2>1. stray = {} /\ greens' = greens
    BY <1>4
  <2>2. One'
    BY <1>b, <2>1 DEF Known, One, InUse, KindOf
  <2>3. Looks'
    BY <1>b, <2>1 DEF Known, Looks, Looking
  <2>4. Makings'
    <3>1. \A u \in Threads, g \in Greens : Making(u, g)' => Making(u, g)
      BY <2>1 DEF Making
    <3> QED
      BY <2>1, <3>1 DEF Known, Makings, InUse
  <2> QED
    BY <2>2, <2>3, <2>4
<1> QED
  BY <1>1, <1>2, <1>3, <1>4 DEF Known

\* Nothing is held that was not.
LEMMA HeldStays ==
  ASSUME NEW t \in Threads, \A b \in objects' : b \in objects \/ Held(b),
         \A i \in Items : home'[i] \in Boxes => home'[i] = home[i] \/ Held(home'[i]),
         \A u \in Threads : u # t => cache'[u] = cache[u] /\ device'[u] = device[u] /\ op'[u].box = op[u].box,
         \A b \in Boxes : b \in {cache'[t], device'[t], op'[t].box} => Held(b)
  PROVE  \A b \in Boxes : Held(b)' => Held(b)
<1> SUFFICES ASSUME NEW b \in Boxes, Held(b)' PROVE Held(b)
  OBVIOUS
<1>1. \/ b \in objects'
      \/ \E u \in Threads : b \in {cache'[u], device'[u], op'[u].box}
      \/ \E i \in Items : home'[i] = b
  BY DEF Held
<1>2. CASE b \in objects'
  BY <1>2 DEF Held
<1>3. ASSUME NEW u \in Threads, b \in {cache'[u], device'[u], op'[u].box} PROVE Held(b)
  BY <1>3 DEF Held
<1>4. ASSUME NEW i \in Items, home'[i] = b PROVE Held(b)
  <2>1. CASE home'[i] = home[i]
    BY <1>4, <2>1 DEF Held
  <2>2. CASE home'[i] # home[i]
    BY <1>4, <2>2
  <2> QED
    BY <2>1, <2>2
<1> QED
  BY <1>1, <1>2, <1>3, <1>4

LEMMA HoldersHold ==
  ASSUME NEW t \in Threads, NEW b \in Boxes, b \in {cache[t], device[t], op[t].box}
  PROVE  Held(b)
  BY DEF Held

\* The end of an operation leaves nothing in hand.
LEMMA Over ==
  ASSUME op \in [Threads -> OpTypes], NEW t \in Threads, Done(t)
  PROVE  /\ op'[t].step = "idle" /\ op'[t].box = None /\ op'[t].for = "nothing"
         /\ \A u \in Threads : u # t => op'[u] = op[u]
<1>1. op' = [op EXCEPT ![t] = Idle]
  BY DEF Done
<1>2. op'[t] = Idle /\ \A u \in Threads : u # t => op'[u] = op[u]
  BY <1>1
<1> QED
  BY <1>2 DEF Idle

LEMMA LookupKnown ==
  ASSUME IInv, Known, NEW t \in Threads, Lookup(t)
  PROVE  Known'
<1> DEFINE c == op[t].ctx
<1>1. /\ op[t].step = "lookup"
      /\ \/ /\ registry[c] # None /\ Held(registry[c]) /\ registry' = registry
            /\ op' = [op EXCEPT ![t].step = "have", ![t].box = registry[c]]
         \/ /\ ~(registry[c] # None /\ Held(registry[c])) /\ registry' = [registry EXCEPT ![c] = None]
            /\ op' = [op EXCEPT ![t].step = "missed"]
      /\ UNCHANGED <<retained, retains, foreign, greens, current, box, cache, device, objects, item, home, chosen, stray, lost, faults>>
  BY DEF Lookup, driver, holding
<1>2. c \in Contexts /\ op \in [Threads -> OpTypes] /\ registry \in [Contexts -> Boxes \cup {None}]
  BY <1>1 DEF IInv, Ops, OpOK, Typed
<1>3. Inward(t) /\ Anchored(t) /\ (stray = {} => Looking(t))
  BY DEF Known, Inwards, Anchors, Looks
<1>4. CASE /\ registry[c] # None /\ Held(registry[c]) /\ registry' = registry
           /\ op' = [op EXCEPT ![t].step = "have", ![t].box = registry[c]]
  <2>1. registry[c] \in Boxes /\ box[registry[c]].ctx = c /\ InUse(registry[c])
    BY <1>2, <1>4 DEF IInv, Registered, InUse
  <2>2. /\ op'[t].step = "have" /\ op'[t].for = op[t].for /\ op'[t].ctx = c /\ op'[t].box = registry[c]
        /\ \A u \in Threads : u # t => op'[u] = op[u]
    BY <1>2, <1>4, <2>1, NextHave
  <2>3. \A b \in Boxes : Held(b)' => Held(b)
    <3>1. \A b \in Boxes : b \in {cache'[t], device'[t], op'[t].box} => Held(b)
      BY <1>1, <1>4, <2>2, HoldersHold
    <3> QED
      BY <1>1, <2>2, <3>1, HeldStays
  <2>4. Inward(t)' /\ Anchored(t)' /\ \A g \in Greens : ~Making(t, g)'
    BY <1>1, <1>3, <2>2 DEF Inward, Within, Anchored, Making, Tracked
  <2>5. ASSUME stray = {} PROVE Looking(t)'
    <3>1. op[t].for # "green"
      BY <1>1, <1>3, <2>1, <2>5 DEF Known, Makings, Making, Inward
    <3> QED
      BY <2>2, <3>1 DEF Looking
  <2> QED
    BY <1>1, <1>4, <2>2, <2>3, <2>4, <2>5, KnownStays DEF Known
<1>5. CASE /\ ~(registry[c] # None /\ Held(registry[c])) /\ registry' = [registry EXCEPT ![c] = None]
           /\ op' = [op EXCEPT ![t].step = "missed"]
  <2>1. "missed" \in Steps
    BY DEF Steps
  <2>2. /\ op'[t].step = "missed" /\ op'[t].for = op[t].for /\ op'[t].ctx = c /\ op'[t].box = op[t].box
        /\ \A u \in Threads : u # t => op'[u] = op[u]
    BY <1>2, <1>5, <2>1, NextStep
  <2>3. \A b \in Boxes : Held(b)' => Held(b)
    BY <1>1, <2>2 DEF Held
  <2>4. Inward(t)' /\ Anchored(t)' /\ \A g \in Greens : Making(t, g)' => Making(t, g)
    BY <1>1, <1>3, <2>2 DEF Inward, Within, Anchored, Making, Tracked
  <2>5. \A b \in Boxes : Held(b) /\ registry[box[b].ctx] = b => registry'[box[b].ctx] = b
    BY <1>2, <1>5, NamesAreDistinct DEF IInv, Typed, BoxTypes
  <2>6. ASSUME stray = {} PROVE Looking(t)'
    <3>1. ASSUME op[t].for # "green", Tracked(c) PROVE FALSE
      <4>1. device[t] \in Boxes /\ box[device[t]].ctx = c /\ Held(device[t])
        BY <1>1, <1>3, <2>6, <3>1 DEF Looking, IInv, Typed, Held
      <4>2. registry[c] = device[t]
        BY <2>6, <3>1, <4>1 DEF Known, One, HeldLive, InUse
      <4> QED
        BY <1>5, <4>1, <4>2, NamesAreDistinct
    <3>2. \A d : Tracked(d)' => Tracked(d)
      BY <1>1 DEF Tracked
    <3> QED
      BY <2>2, <3>1, <3>2 DEF Looking
  <2> QED
    BY <1>1, <2>2, <2>3, <2>4, <2>5, <2>6, KnownStays DEF Known
<1> QED
  BY <1>1, <1>4, <1>5

\* Steps of an idle thread that choose a context, and perhaps look one up that
\* nobody tracks.
LEMMA ChooseKnown ==
  ASSUME IInv, Known, NEW t \in Threads,
         UNCHANGED <<retained, retains, greens, box, registry, objects, item, home, stray>>, foreign => foreign',
         op[t].step = "idle",
         op' = op \/ (op'[t].step = "lookup" /\ op'[t].for = "object" /\ op'[t].box = None
                      /\ (stray = {} => ~Tracked(op'[t].ctx))),
         \A u \in Threads : u # t =>
            op'[u] = op[u] /\ cache'[u] = cache[u] /\ device'[u] = device[u] /\ chosen'[u] = chosen[u] /\ current'[u] = current[u],
         cache'[t] \in {cache[t], None},
         device'[t] \in Boxes => Held(device'[t]),
         Anchored(t)'
  PROVE  Known'
<1>1. \A b \in Boxes : Held(b)' => Held(b)
  <2>1. \A b \in Boxes : b \in {cache'[t], device'[t], op'[t].box} => Held(b)
    BY HoldersHold, NamesAreDistinct
  <2> QED
    BY <2>1, HeldStays
<1>2. Inward(t)' /\ \A g \in Greens : ~Making(t, g)'
  BY DEF Inward, Within, Making
<1>3. \A d : Tracked(d)' => Tracked(d)
  BY DEF Tracked
<1>4. stray = {} => Looking(t)'
  BY <1>3 DEF Looking
<1>5. (retained <= retains)'
  BY DEF Known
<1> QED
  BY <1>1, <1>2, <1>4, <1>5, KnownStays

LEMMA UsePrimaryKnown ==
  ASSUME IInv, Known, NEW t \in Threads, UsePrimary(t)
  PROVE  Known'
<1>1. /\ op[t].step = "idle" /\ cache[t] \in Boxes /\ box' = box /\ MakeCurrent(t, cache[t])
      /\ UNCHANGED <<retained, retains, foreign, greens, registry, cache, objects, item, home, op, stray>>
  BY DEF UsePrimary, driver, IInv, Typed
<1>2. /\ device'[t] = cache[t] /\ chosen'[t] = box[cache[t]].ctx
      /\ \A u \in Threads : u # t => device'[u] = device[u] /\ chosen'[u] = chosen[u] /\ current'[u] = current[u]
  BY <1>1 DEF MakeCurrent, IInv, Typed
<1>3. Held(device'[t]) /\ Anchored(t)'
  BY <1>1, <1>2, HoldersHold, NamesAreDistinct DEF Anchored
<1> QED
  BY <1>1, <1>2, <1>3, ChooseKnown

LEMMA SetCurrentKnown ==
  ASSUME IInv, Known, NEW t \in Threads, NEW b \in Boxes, SetCurrent(t, b)
  PROVE  Known'
<1>1. /\ op[t].step = "idle" /\ b \in objects /\ box' = box /\ MakeCurrent(t, b)
      /\ UNCHANGED <<retained, retains, foreign, greens, registry, cache, objects, item, home, stray>>
      /\ \/ op' = op
         \/ /\ current[t] # None /\ ~(device[t] # None /\ box[device[t]].ctx = current[t])
            /\ op' = [op EXCEPT ![t] = LookingUp("object", current[t], None)]
  BY DEF SetCurrent, driver
<1>2. /\ device'[t] = b /\ chosen'[t] = box[b].ctx
      /\ \A u \in Threads : u # t => device'[u] = device[u] /\ chosen'[u] = chosen[u] /\ current'[u] = current[u]
  BY <1>1 DEF MakeCurrent, IInv, Typed
<1>3. Held(device'[t]) /\ Anchored(t)'
  BY <1>1, <1>2, NamesAreDistinct DEF Held, Anchored
<1>4. CASE op' = op
  BY <1>1, <1>2, <1>3, <1>4, ChooseKnown
<1>5. CASE /\ current[t] # None /\ ~(device[t] # None /\ box[device[t]].ctx = current[t])
           /\ op' = [op EXCEPT ![t] = LookingUp("object", current[t], None)]
  <2>1. /\ op'[t] = LookingUp("object", current[t], None)
        /\ \A u \in Threads : u # t => op'[u] = op[u]
    BY <1>5 DEF IInv, Typed
  <2>2. op'[t].step = "lookup" /\ op'[t].for = "object" /\ op'[t].box = None /\ op'[t].ctx = current[t]
    BY <2>1 DEF LookingUp
  <2>3. ASSUME stray = {} PROVE ~Tracked(op'[t].ctx)
    <3>1. current[t] = chosen[t] /\ Anchored(t)
      BY <1>1, <1>5, <2>3 DEF IInv, Backs, Back, Due, Outside, Known, Anchors
    <3> QED
      BY <1>5, <2>2, <3>1 DEF Anchored
  <2> QED
    BY <1>1, <1>2, <1>3, <2>1, <2>2, <2>3, ChooseKnown
<1> QED
  BY <1>1, <1>4, <1>5

LEMMA ThreadExitKnown ==
  ASSUME IInv, Known, NEW t \in Threads, ThreadExit(t)
  PROVE  Known'
<1>1. /\ op[t].step = "idle"
      /\ UNCHANGED <<retained, retains, foreign, greens, box, registry, objects, item, home, op, stray>>
  BY DEF ThreadExit, driver, handles
<1>2. /\ cache'[t] = None /\ device'[t] = None /\ chosen'[t] = None
      /\ \A u \in Threads : u # t =>
            cache'[u] = cache[u] /\ device'[u] = device[u] /\ chosen'[u] = chosen[u] /\ current'[u] = current[u]
  BY DEF ThreadExit, IInv, Typed
<1>3. Anchored(t)'
  BY <1>2, NamesAreDistinct DEF Anchored, Tracked
<1> QED
  BY <1>1, <1>2, <1>3, ChooseKnown, NamesAreDistinct

LEMMA ForeignKnown ==
  ASSUME IInv, Known, NEW t \in Threads, ForeignCurrent(t)
  PROVE  Known'
<1>1. /\ op[t].step = "idle" /\ foreign'
      /\ UNCHANGED <<retained, retains, greens, box, registry, cache, device, objects, item, home, op, stray>>
  BY DEF ForeignCurrent, handles, holding
<1>2. /\ chosen'[t] = Primary
      /\ \A u \in Threads : u # t => chosen'[u] = chosen[u] /\ current'[u] = current[u]
  BY DEF ForeignCurrent, IInv, Typed
<1>3. Anchored(t)'
  BY <1>1, <1>2, NamesAreDistinct DEF Anchored, Tracked
<1> QED
  BY <1>1, <1>2, <1>3, ChooseKnown, HoldersHold

LEMMA DropObjectKnown ==
  ASSUME IInv, Known, NEW b \in Boxes, DropObject(b)
  PROVE  Known'
<1>1. /\ objects' \subseteq objects
      /\ UNCHANGED <<retained, retains, foreign, greens, current, box, registry, cache, device, item, home, op, chosen, stray, lost>>
  BY DEF DropObject, driver, handles
<1>2. \A d \in Boxes : Held(d)' => Held(d)
  BY <1>1 DEF Held
<1>3. ASSUME NEW t \in Threads
      PROVE  Inward(t)' /\ Anchored(t)' /\ (stray = {} => Looking(t)' /\ \A g \in Greens : Making(t, g)' => Making(t, g))
  BY <1>1 DEF Known, Inwards, Inward, Anchors, Anchored, Tracked, Looks, Looking, Making
<1> QED
  BY <1>1, <1>2, <1>3, KnownStays DEF Known

LEMMA CurrentKnown ==
  ASSUME IInv, Known, NEW t \in Threads, CurrentObject(t) \/ \E i \in Items : Allocate(t, i)
  PROVE  Known'
<1>1. PICK for \in {"object", "bind"}, i \in Items \cup {None} : Current(t, for, i)
  BY DEF CurrentObject, Allocate
<1>2. /\ op[t].step = "idle" /\ current[t] # None
      /\ op' = [op EXCEPT ![t] = LookingUp(for, current[t], i)]
      /\ UNCHANGED <<retained, retains, foreign, greens, current, box, registry, cache, device, objects, item, home, chosen, stray, lost, faults>>
  BY <1>1 DEF Current, driver, handles, holding
<1>3. /\ op'[t] = LookingUp(for, current[t], i)
      /\ \A u \in Threads : u # t => op'[u] = op[u]
  BY <1>2 DEF IInv, Typed
<1>4. op'[t].step = "lookup" /\ op'[t].for # "green" /\ op'[t].box = None /\ op'[t].ctx = current[t]
  BY <1>3 DEF LookingUp
<1>5. \A b \in Boxes : Held(b)' => Held(b)
  <2>1. \A b \in Boxes : b \in {cache'[t], device'[t], op'[t].box} => Held(b)
    BY <1>2, <1>4, HoldersHold, NamesAreDistinct
  <2> QED
    BY <1>2, <1>3, <2>1, HeldStays
<1>6. Inward(t)' /\ Anchored(t)' /\ \A g \in Greens : ~Making(t, g)'
  BY <1>2, <1>4 DEF Inward, Within, Making, Known, Anchors, Anchored, Tracked
<1>7. ASSUME stray = {} PROVE Looking(t)'
  <2>1. current[t] = chosen[t] /\ Anchored(t)
    BY <1>2, <1>7 DEF IInv, Backs, Back, Due, Outside, Known, Anchors
  <2> QED
    BY <1>2, <1>4, <2>1 DEF Looking, Anchored, Tracked
<1> QED
  BY <1>2, <1>3, <1>5, <1>6, <1>7, KnownStays DEF Known

\* Steps of an operation that work in a context, or hand over what is in hand.
LEMMA WorkKnown ==
  ASSUME IInv, Known, NEW t \in Threads,
         UNCHANGED <<retained, retains, foreign, box, registry, cache, device, chosen>>,
         stray \subseteq stray', stray = {} => greens' = greens,
         objects' \subseteq objects \cup {op[t].box},
         \A i \in Items : home'[i] \in {home[i], None, op[t].box},
         op'[t].box \in Boxes => Held(op'[t].box),
         op'[t].step \notin {"lookup", "missed", "have"},
         op'[t].step \in Within => op'[t].ctx = box[op'[t].box].ctx,
         op'[t].step = "entered" => current'[t] = op'[t].ctx,
         \A u \in Threads : u # t => op'[u] = op[u] /\ current'[u] = current[u]
  PROVE  Known'
<1>1. \A b \in Boxes : Held(b)' => Held(b)
  <2>1. \A b \in Boxes : b \in {cache'[t], device'[t], op'[t].box} => Held(b)
    BY HoldersHold
  <2>2. \A b \in objects' : b \in objects \/ Held(b)
    BY HoldersHold DEF Held
  <2>3. \A i \in Items : home'[i] \in Boxes => home'[i] = home[i] \/ Held(home'[i])
    BY HoldersHold, NamesAreDistinct
  <2> QED
    BY <2>1, <2>2, <2>3, HeldStays
<1>2. Inward(t)' /\ Looking(t)' /\ \A g \in Greens : ~Making(t, g)'
  BY DEF Inward, Looking, Making
<1>3. Anchored(t)'
  BY DEF Known, Anchors, Anchored, Tracked
<1> QED
  BY <1>1, <1>2, <1>3, KnownStays DEF Known

LEMMA StoreKnown ==
  ASSUME IInv, Known, NEW t \in Threads, Store(t)
  PROVE  Known'
<1>1. /\ op[t].step = "have" /\ Done(t)
      /\ greens' = IF op[t].for = "green" /\ box[op[t].box].kind # "green" THEN greens \ {op[t].ctx} ELSE greens
      /\ objects' \subseteq objects \cup {op[t].box}
      /\ home' = home \/ home' = [home EXCEPT ![op[t].item] = op[t].box]
      /\ UNCHANGED <<retained, retains, foreign, current, box, registry, cache, device, chosen, stray, lost>>
  BY DEF Store, handles
<1>2. /\ op'[t].step = "idle" /\ op'[t].box = None
      /\ \A u \in Threads : u # t => op'[u] = op[u]
  BY <1>1, Over DEF IInv, Typed
<1>3. stray = {} => greens' = greens
  BY <1>1 DEF Known, Looks, Looking
<1>4. \A i \in Items : home'[i] \in {home[i], None, op[t].box}
  BY <1>1 DEF IInv, Typed
<1>5. op'[t].step \notin Within /\ op'[t].box \notin Boxes
  BY <1>2, NamesAreDistinct DEF Within
<1> QED
  BY <1>1, <1>2, <1>3, <1>4, <1>5, WorkKnown

LEMMA EnteredKnown ==
  ASSUME IInv, Known, NEW t \in Threads, NEW for, NEW b \in Boxes, NEW i, Held(b),
         Entered(t, for, b, i),
         \A j \in Items : home'[j] \in {home[j], None},
         UNCHANGED <<retained, retains, foreign, greens, box, registry, cache, device, objects, chosen, stray, lost>>
  PROVE  Known'
<1>1. op' = [op EXCEPT ![t] = Inside(t, for, b, i)] /\ current' = [current EXCEPT ![t] = box[b].ctx]
  BY DEF Entered
<1>2. /\ op'[t] = Inside(t, for, b, i) /\ current'[t] = box[b].ctx
      /\ \A u \in Threads : u # t => op'[u] = op[u] /\ current'[u] = current[u]
  BY <1>1 DEF IInv, Typed
<1>3. op'[t].step = "entered" /\ op'[t].ctx = box[b].ctx /\ op'[t].box = b
  BY <1>2 DEF Inside
<1> QED
  BY <1>2, <1>3, WorkKnown

LEMMA CreateKnown ==
  ASSUME IInv, Known, NEW t \in Threads, NEW for \in {"create", "texture"}, NEW b \in Boxes, NEW i \in Items,
         Create(t, for, b, i)
  PROVE  Known'
<1>1. /\ Entered(t, for, b, i) /\ b \in objects
      /\ UNCHANGED <<retained, retains, foreign, greens, box, registry, cache, device, objects, home, chosen, stray, lost>>
  BY DEF Create, Unmade, driver, handles, holding
<1>2. Held(b)
  BY <1>1 DEF Held
<1> QED
  BY <1>1, <1>2, EnteredKnown

LEMMA DestroyKnown ==
  ASSUME IInv, Known, NEW t \in Threads, NEW i \in Items, Destroy(t, i)
  PROVE  Known'
<1>1. /\ op[t].step = "idle" /\ item[i] = "owned" /\ home' = [home EXCEPT ![i] = None]
      /\ UNCHANGED <<retained, retains, foreign, greens, box, registry, cache, device, objects, chosen, stray, lost>>
      /\ Entered(t, "destroy", home[i], i) \/ UNCHANGED <<op, current>>
  BY DEF Destroy, driver, handles, holding
<1>2. home[i] \in Boxes /\ \A j \in Items : home'[j] \in {home[j], None}
  BY <1>1 DEF IInv, Typed, Homes
<1>3. Held(home[i])
  BY <1>2 DEF Held
<1>4. CASE UNCHANGED <<op, current>>
  <2>1. op'[t].step \notin Within /\ op'[t].step \notin {"lookup", "missed", "have", "entered"}
    BY <1>1, <1>4 DEF Within
  <2> QED
    BY <1>1, <1>2, <1>4, <2>1, HoldersHold, WorkKnown
<1> QED
  BY <1>1, <1>2, <1>3, <1>4, EnteredKnown

LEMMA OperateKnown ==
  ASSUME IInv, Known, NEW t \in Threads, Operate(t)
  PROVE  Known'
<1>1. /\ op[t].step = "entered" /\ op' = [op EXCEPT ![t].step = "operated"]
      /\ UNCHANGED <<retained, retains, foreign, greens, current, box, registry, cache, device, objects, home, chosen, stray, lost>>
  BY DEF Operate, driver, handles, holding
<1>2. /\ op'[t].step = "operated" /\ op'[t].ctx = op[t].ctx /\ op'[t].box = op[t].box
      /\ \A u \in Threads : u # t => op'[u] = op[u]
  BY <1>1, NextStep DEF IInv, Typed, Steps
<1>3. op[t].ctx = box[op[t].box].ctx
  BY <1>1 DEF Known, Inwards, Inward, Within
<1> QED
  BY <1>1, <1>2, <1>3, HoldersHold, WorkKnown

LEMMA ExitKnown ==
  ASSUME IInv, Known, NEW t \in Threads, Exit(t) \/ ExitFails(t) \/ Undo(t)
  PROVE  Known'
<1>1. /\ op[t].step \in {"operated", "undo"}
      /\ Done(t) \/ op' = [op EXCEPT ![t].step = "undo"]
      /\ stray \subseteq stray'
      /\ home' = home \/ home' = [home EXCEPT ![op[t].item] = op[t].box]
      /\ \E c : current' = [current EXCEPT ![t] = c] \/ current' = current
      /\ UNCHANGED <<retained, retains, foreign, greens, box, registry, cache, device, objects, chosen, lost>>
  BY DEF Exit, ExitFails, Undo, driver, handles, holding
<1>2. /\ \A i \in Items : home'[i] \in {home[i], None, op[t].box}
      /\ \A u \in Threads : u # t => current'[u] = current[u]
  BY <1>1 DEF IInv, Typed
<1>3. CASE Done(t)
  <2>1. /\ op'[t].step = "idle" /\ op'[t].box = None
        /\ \A u \in Threads : u # t => op'[u] = op[u]
    BY <1>3, Over DEF IInv, Typed
  <2>2. op'[t].step \notin Within /\ op'[t].box \notin Boxes
    BY <2>1, NamesAreDistinct DEF Within
  <2> QED
    BY <1>1, <1>2, <2>1, <2>2, WorkKnown
<1>4. CASE op' = [op EXCEPT ![t].step = "undo"]
  <2>1. /\ op'[t].step = "undo" /\ op'[t].ctx = op[t].ctx /\ op'[t].box = op[t].box
        /\ \A u \in Threads : u # t => op'[u] = op[u]
    BY <1>4, NextStep DEF IInv, Typed, Steps
  <2>2. op[t].ctx = box[op[t].box].ctx
    BY <1>1 DEF Known, Inwards, Inward, Within
  <2> QED
    BY <1>1, <1>2, <2>1, <2>2, HoldersHold, WorkKnown
<1> QED
  BY <1>1, <1>3, <1>4

LEMMA RetainKnown ==
  ASSUME IInv, Known, NEW t \in Threads, Retain(t)
  PROVE  Known'
<1>1. /\ op[t].step = "idle" /\ retained' = retained + 1 /\ retains' = retains + 1
      /\ op' = [op EXCEPT ![t].step = "retained"]
      /\ UNCHANGED <<foreign, greens, current, box, registry, cache, device, objects, item, home, chosen, stray, lost>>
  BY DEF Retain, handles, holding
<1>2. /\ op'[t].step = "retained" /\ op'[t].box = op[t].box
      /\ \A u \in Threads : u # t => op'[u] = op[u]
  BY <1>1, NextStep DEF IInv, Typed, Steps
<1>3. \A b \in Boxes : Held(b)' => Held(b)
  <2>1. \A b \in Boxes : b \in {cache'[t], device'[t], op'[t].box} => Held(b)
    BY <1>1, <1>2, HoldersHold
  <2> QED
    BY <1>1, <1>2, <2>1, HeldStays
<1>4. Inward(t)' /\ Anchored(t)' /\ Looking(t)' /\ \A g \in Greens : ~Making(t, g)'
  <2>1. retains' <= 1 => retains <= 1
    BY <1>1, BoundsAreNatural DEF IInv, Typed
  <2> QED
    BY <1>1, <1>2, <2>1 DEF Inward, Within, Making, Looking, Known, Anchors, Anchored, Tracked
<1>5. (retained <= retains)'
  <2>1. retained \in Nat /\ retains \in Nat
    BY FS_CardinalityType, BoundsAreNatural DEF IInv, Counted, Typed
  <2> QED
    BY <1>1, <2>1 DEF Known
<1>6. retains' <= 1 => retains <= 1
  BY <1>1, BoundsAreNatural DEF IInv, Typed
<1> QED
  BY <1>1, <1>2, <1>3, <1>4, <1>5, <1>6, KnownStays

LEMMA CreateGreenKnown ==
  ASSUME IInv, Known, NEW t \in Threads, NEW g \in Greens, CreateGreen(t, g)
  PROVE  Known'
<1>1. /\ op[t].step = "idle" /\ g \notin greens /\ greens' = greens \cup {g}
      /\ op' = [op EXCEPT ![t] = LookingUp("green", g, None)]
      /\ UNCHANGED <<retained, retains, foreign, current, box, registry, cache, device, objects, item, home, chosen, stray, lost>>
  BY DEF CreateGreen, handles, holding
<1>2. /\ op'[t] = LookingUp("green", g, None)
      /\ \A u \in Threads : u # t => op'[u] = op[u]
  BY <1>1 DEF IInv, Typed
<1>3. op'[t].step = "lookup" /\ op'[t].for = "green" /\ op'[t].box = None /\ op'[t].ctx = g
  BY <1>2 DEF LookingUp
<1>4. \A b \in Boxes : Held(b)' => Held(b)
  <2>1. \A b \in Boxes : b \in {cache'[t], device'[t], op'[t].box} => Held(b)
    BY <1>1, <1>3, HoldersHold, NamesAreDistinct
  <2> QED
    BY <1>1, <1>2, <2>1, HeldStays
<1>5. HeldLive' /\ KindsFit' /\ (retained <= retains)' /\ Anchors'
  BY <1>1, <1>4 DEF Known, HeldLive, KindsFit, InUse, Anchors, Anchored, Tracked
<1>6. Inwards'
  BY <1>1, <1>2, <1>3 DEF Known, Inwards, Inward, Within
<1>7. ASSUME stray' = {} PROVE One' /\ Looks' /\ Makings'
  <2>1. One /\ Looks /\ Makings
    BY <1>1, <1>7 DEF Known
  <2>2. One'
    BY <1>1, <1>4, <2>1 DEF One, InUse, Tracked, KindOf
  <2>3. Looks'
    BY <1>1, <1>2, <1>3, <2>1 DEF Looks, Looking, Tracked
  <2>4. \A b \in Boxes : InUse(b) => box[b].ctx # g
    BY <1>1, <2>1 DEF One, Tracked
  <2>5. /\ \A u \in Threads : ~Making(u, g)
        /\ \A u \in Threads, h \in Greens : Making(u, h)' => (u = t /\ h = g) \/ (u # t /\ Making(u, h))
    BY <1>1, <1>2, <1>3, <2>1 DEF Makings, Making
  <2>6. Makings'
    BY <1>1, <2>1, <2>4, <2>5 DEF Makings, InUse
  <2> QED
    BY <2>2, <2>3, <2>6
<1> QED
  BY <1>5, <1>6, <1>7 DEF Known

\* What is held by an operation or by a Device is a box that holds.
LEMMA InHand ==
  ASSUME IInv, Known, NEW b \in Boxes, ~Held(b)
  PROVE  /\ \A u \in Threads : device[u] # b
         /\ \A u \in Threads : op[u].box # b
  BY HoldersHold

\* A thread makes and registers a box.
LEMMA NewBoxKnown ==
  ASSUME IInv, Known, NEW t \in Threads, NEW b \in Boxes,
         NEW kind \in {"primary", "green", "ref"}, NEW c \in Contexts, NewBox(b, kind, c),
         UNCHANGED <<retained, retains, foreign, greens, stray>>,
         \A d \in Boxes : Held(d)' => Held(d) \/ d = b,
         \A u \in Threads : u # t =>
            op'[u] = op[u] /\ device'[u] = device[u] /\ chosen'[u] = chosen[u] /\ current'[u] = current[u],
         kind = "green" => c \in Greens, kind = "primary" => c = Primary,
         stray = {} /\ Tracked(c) =>
            kind = KindOf(c) /\ (c \in Greens => c \in greens) /\ \A d \in Boxes : InUse(d) => box[d].ctx # c,
         stray = {} => \A u \in Threads, g \in Greens : u # t /\ Making(u, g) => g # c,
         Inward(t)', Anchored(t)', Looking(t)', \A g \in Greens : ~Making(t, g)'
  PROVE  Known'
<1>1. /\ box[b].state = "unused" /\ box'[b] = [state |-> "live", kind |-> kind, ctx |-> c]
      /\ \A d \in Boxes : d # b => box'[d] = box[d]
      /\ registry'[c] = b /\ \A e \in Contexts : e # c => registry'[e] = registry[e]
  BY DEF NewBox, IInv, Typed
<1>2. box'[b].state = "live" /\ box'[b].kind = kind /\ box'[b].ctx = c
  BY <1>1
<1>3. ~Held(b)
  BY <1>1 DEF Known, HeldLive
<1>4. /\ \A u \in Threads : device[u] # b
      /\ \A u \in Threads : op[u].box # b
  BY <1>3, InHand
<1>5. HeldLive' /\ KindsFit' /\ (retained <= retains)'
  BY <1>1, <1>2 DEF Known, HeldLive, KindsFit, InUse
<1>6. Inwards'
  <2>1. ASSUME NEW u \in Threads, u # t PROVE Inward(u)'
    <3>1. op[u].step \in Within => op[u].box \in Boxes
      BY DEF IInv, Ops, OpOK
    <3> QED
      BY <1>1, <1>4, <2>1, <3>1 DEF Known, Inwards, Inward
  <2> QED
    BY <2>1 DEF Inwards
<1>7. Anchors'
  <2>1. ASSUME NEW u \in Threads, u # t PROVE Anchored(u)'
    <3>1. device[u] # None => device[u] \in Boxes
      BY DEF IInv, Typed
    <3> QED
      BY <1>1, <1>4, <2>1, <3>1 DEF Known, Anchors, Anchored, Tracked
  <2> QED
    BY <2>1 DEF Anchors
<1>8. ASSUME stray' = {} PROVE One' /\ Looks' /\ Makings'
  <2>1. stray = {} /\ One /\ Looks /\ Makings
    BY <1>8 DEF Known
  <2>2. \A e : Tracked(e)' <=> Tracked(e)
    BY DEF Tracked
  <2>3. One'
    <3>2. ASSUME NEW d \in Boxes, InUse(d)', Tracked(box[d].ctx)', d # b
          PROVE  /\ box'[d].kind = KindOf(box[d].ctx)'
                 /\ \A e \in Boxes : InUse(e)' /\ box'[e].ctx = box'[d].ctx => e = d
                 /\ box'[d].state = "live" /\ Held(d)' => registry'[box'[d].ctx] = d
                 /\ box'[d].ctx \in Greens => box'[d].ctx \in greens'
      <4>1. box'[d] = box[d] /\ box[d].ctx \in Contexts
        BY <1>1, <3>2 DEF IInv, Typed, BoxTypes
      <4>2. InUse(d) /\ Tracked(box[d].ctx)
        BY <3>2, <4>1 DEF InUse, Tracked
      <4>3. box[d].ctx # c
        BY <2>1, <4>2
      <4> QED
        BY <1>1, <1>2, <2>1, <3>2, <4>1, <4>2, <4>3 DEF One, InUse, KindOf
    <3>3. ASSUME Tracked(c)
          PROVE  /\ box'[b].kind = KindOf(box[b].ctx)'
                 /\ \A e \in Boxes : InUse(e)' /\ box'[e].ctx = box'[b].ctx => e = b
                 /\ box'[b].state = "live" /\ Held(b)' => registry'[box'[b].ctx] = b
                 /\ box'[b].ctx \in Greens => box'[b].ctx \in greens'
      BY <1>1, <1>2, <2>1, <3>3 DEF InUse, KindOf
    <3>4. Tracked(box[b].ctx)' => Tracked(c)
      BY <1>2 DEF Tracked
    <3> QED
      BY <3>2, <3>3, <3>4 DEF One
  <2>4. Looks'
    <3>1. ASSUME NEW u \in Threads, u # t PROVE Looking(u)'
      <4>1. /\ device[u] # None => device[u] \in Boxes
            /\ op[u].step = "have" => op[u].box \in Boxes
        BY DEF IInv, Typed, Ops, OpOK
      <4> QED
        BY <1>1, <1>4, <2>1, <2>2, <3>1, <4>1 DEF Looks, Looking
    <3> QED
      BY <3>1 DEF Looks
  <2>5. Makings'
    <3>1. \A u \in Threads, g \in Greens : Making(u, g)' => u # t /\ Making(u, g) /\ g # c
      BY <2>1 DEF Making
    <3> QED
      BY <1>1, <1>2, <2>1, <3>1 DEF Makings, InUse
  <2> QED
    BY <2>3, <2>4, <2>5
<1> QED
  BY <1>5, <1>6, <1>7, <1>8 DEF Known

LEMMA RegisterKnown ==
  ASSUME IInv, Known, NEW t \in Threads, NEW b \in Boxes, Register(t, b)
  PROVE  Known'
<1> DEFINE kind == IF op[t].for = "green" THEN "green" ELSE "ref"
           c == op[t].ctx
<1>1. /\ op[t].step = "missed" /\ NewBox(b, kind, c)
      /\ op' = [op EXCEPT ![t].step = "have", ![t].box = b]
      /\ UNCHANGED <<retained, retains, foreign, greens, current, cache, device, objects, item, home, chosen, stray, lost>>
  BY DEF Register, driver, holding
<1>2. /\ c \in Contexts /\ Inward(t) /\ Anchored(t)
      /\ stray = {} => Looking(t) /\ Makings
  BY <1>1 DEF IInv, Ops, OpOK, Known, Inwards, Anchors, Looks
<1>3. /\ op'[t].step = "have" /\ op'[t].for = op[t].for /\ op'[t].ctx = c /\ op'[t].box = b
      /\ \A u \in Threads : u # t => op'[u] = op[u]
  BY <1>1, NextHave DEF IInv, Typed
<1>4. kind = "green" => c \in Greens /\ Making(t, c)
  BY <1>1, <1>2 DEF Inward, Making
<1>5. kind # "green" /\ stray = {} => ~Tracked(c)
  BY <1>1, <1>2 DEF Looking
<1>6. kind \in {"primary", "green", "ref"} /\ kind # "primary" /\ (kind = "green" <=> op[t].for = "green")
  OBVIOUS
<1>b. /\ box'[b].kind = kind /\ \A d \in Boxes : d # b => box'[d] = box[d]
      /\ box[b].state = "unused"
  BY <1>1, <1>2, <1>6, NewBoxOK DEF NewBox
<1> HIDE DEF kind, c
<1>7. \A d \in Boxes : Held(d)' => Held(d) \/ d = b
  BY <1>1, <1>3 DEF Held
<1>8. stray = {} /\ Tracked(c) =>
        kind = KindOf(c) /\ (c \in Greens => c \in greens) /\ \A d \in Boxes : InUse(d) => box[d].ctx # c
  BY <1>2, <1>4, <1>5, NamesAreDistinct DEF KindOf, Makings
<1>9. stray = {} => \A u \in Threads, g \in Greens : u # t /\ Making(u, g) => g # c
  BY <1>2, <1>4, <1>5 DEF Makings, Tracked
<1>10. Inward(t)' /\ Looking(t)' /\ \A g \in Greens : ~Making(t, g)'
  BY <1>3, <1>4, <1>6, <1>b DEF Inward, Within, Looking, Making
<1>11. Anchored(t)'
  <2>1. device[t] # None => device[t] \in Boxes /\ device[t] # b
    BY <1>b, InHand DEF IInv, Typed, Known, HeldLive
  <2> QED
    BY <1>1, <1>2, <1>b, <2>1 DEF Anchored, Tracked
<1> QED
  BY <1>1, <1>2, <1>3, <1>4, <1>6, <1>7, <1>8, <1>9, <1>10, <1>11, NewBoxKnown

\* A thread that has retained the primary context, the only one that did, makes
\* the first box of it.
LEMMA AdoptsFirst ==
  ASSUME IInv, Known, NEW t \in Threads, op[t].step = "retained", stray = {}, Tracked(Primary)
  PROVE  \A d \in Boxes : InUse(d) => box[d].ctx # Primary
<1> SUFFICES ASSUME NEW d \in Boxes, InUse(d), box[d].ctx = Primary PROVE FALSE
  OBVIOUS
<1>1. box[d].kind = "primary" /\ retains <= 1
  BY NamesAreDistinct DEF Known, One, KindOf, Tracked
<1>2. d \in PrimaryBoxes /\ t \in Retaining
  BY <1>1 DEF PrimaryBoxes, Retaining
<1>3. Cardinality(PrimaryBoxes) \in Nat \ {0} /\ Cardinality(Retaining) \in Nat \ {0}
  BY <1>2, FS_CardinalityType, FS_EmptySet DEF IInv, Counted
<1>4. retained <= retains /\ retains \in 0 .. MaxRetains
  BY DEF Known, IInv, Typed
<1> QED
  BY <1>1, <1>3, <1>4, BoundsAreNatural DEF IInv, Counted

LEMMA AdoptKnown ==
  ASSUME IInv, Known, NEW t \in Threads, NEW b \in Boxes, Adopt(t, b)
  PROVE  Known'
<1>1. /\ op[t].step = "retained" /\ NewBox(b, "primary", Primary)
      /\ cache' = [cache EXCEPT ![t] = b] /\ MakeCurrent(t, b) /\ Done(t)
      /\ UNCHANGED <<retained, retains, foreign, greens, objects, item, home, stray>>
  BY DEF Adopt, driver
<1>2. Primary \in Contexts /\ "primary" \in {"primary", "green", "ref"} /\ "primary" # "green"
  BY DEF Contexts
<1>3. box'[b].ctx = Primary
  BY <1>1, <1>2, NewBoxOK
<1>4. /\ device'[t] = b /\ chosen'[t] = Primary /\ cache'[t] = b
      /\ \A u \in Threads : u # t =>
            cache'[u] = cache[u] /\ device'[u] = device[u] /\ chosen'[u] = chosen[u] /\ current'[u] = current[u]
  BY <1>1, <1>3 DEF MakeCurrent, IInv, Typed
<1>5. /\ op'[t].step = "idle" /\ op'[t].box = None
      /\ \A u \in Threads : u # t => op'[u] = op[u]
  BY <1>1, Over DEF IInv, Typed
<1>6. \A d \in Boxes : Held(d)' => Held(d) \/ d = b
  BY <1>1, <1>4, <1>5, NamesAreDistinct DEF Held
<1>7. stray = {} /\ Tracked(Primary) => \A d \in Boxes : InUse(d) => box[d].ctx # Primary
  BY <1>1, AdoptsFirst
<1>8. Inward(t)' /\ Anchored(t)' /\ Looking(t)' /\ \A g \in Greens : ~Making(t, g)'
  BY <1>3, <1>4, <1>5, NamesAreDistinct DEF Inward, Within, Anchored, Looking, Making
<1>9. "primary" = KindOf(Primary) /\ \A g \in Greens : g # Primary
  BY NamesAreDistinct DEF KindOf
<1> QED
  BY <1>1, <1>2, <1>4, <1>5, <1>6, <1>7, <1>8, <1>9, NewBoxKnown

LEMMA AdoptOnlyKnown ==
  ASSUME IInv, Known, NEW t \in Threads, NEW b \in Boxes, AdoptOnly(t, b)
  PROVE  Known'
<1>1. /\ op[t].step = "retained" /\ NewBox(b, "primary", Primary)
      /\ cache' = [cache EXCEPT ![t] = b] /\ Done(t)
      /\ UNCHANGED <<retained, retains, foreign, greens, current, device, objects, item, home, chosen, stray, lost>>
  BY DEF AdoptOnly, driver
<1>2. Primary \in Contexts /\ "primary" \in {"primary", "green", "ref"} /\ "primary" # "green"
  BY DEF Contexts
<1>3. box[b].state = "unused" /\ \A d \in Boxes : d # b => box'[d] = box[d]
  BY <1>1, <1>2, NewBoxOK DEF NewBox
<1>4. cache'[t] = b /\ \A u \in Threads : u # t => cache'[u] = cache[u]
  BY <1>1 DEF IInv, Typed
<1>5. /\ op'[t].step = "idle" /\ op'[t].box = None
      /\ \A u \in Threads : u # t => op'[u] = op[u]
  BY <1>1, Over DEF IInv, Typed
<1>6. \A d \in Boxes : Held(d)' => Held(d) \/ d = b
  BY <1>1, <1>4, <1>5, NamesAreDistinct DEF Held
<1>7. stray = {} /\ Tracked(Primary) => \A d \in Boxes : InUse(d) => box[d].ctx # Primary
  BY <1>1, AdoptsFirst
<1>8. Anchored(t)'
  <2>1. device[t] # None => device[t] \in Boxes /\ device[t] # b
    BY <1>3, InHand DEF IInv, Typed, Known, HeldLive
  <2> QED
    BY <1>1, <1>3, <2>1 DEF Known, Anchors, Anchored, Tracked
<1>9. Inward(t)' /\ Looking(t)' /\ \A g \in Greens : ~Making(t, g)'
  BY <1>5 DEF Inward, Within, Looking, Making
<1>10. "primary" = KindOf(Primary) /\ \A g \in Greens : g # Primary
  BY NamesAreDistinct DEF KindOf
<1> QED
  BY <1>1, <1>2, <1>5, <1>6, <1>7, <1>8, <1>9, <1>10, NewBoxKnown

LEMMA PushFailsKnown ==
  ASSUME IInv, Known, NEW t \in Threads, NEW b \in Boxes, PushFails(t, b)
  PROVE  Known'
<1>1. /\ op[t].step = "idle" /\ current' = [current EXCEPT ![t] = None]
      /\ UNCHANGED <<retained, retains, foreign, greens, box, registry, cache, device, objects, item, home, op, chosen, stray>>
  BY DEF PushFails, driver, handles, holding
<1>2. \A u \in Threads : u # t => current'[u] = current[u]
  BY <1>1 DEF IInv, Typed
<1>3. Held(device[t]) \/ device[t] \notin Boxes
  BY HoldersHold
<1>4. Anchored(t)'
  BY <1>1 DEF Known, Anchors, Anchored, Tracked
<1> QED
  BY <1>1, <1>2, <1>3, <1>4, ChooseKnown

LEMMA AllocateFailsKnown ==
  ASSUME IInv, Known, NEW t \in Threads, NEW i \in Items, AllocateFails(t, i)
  PROVE  Known'
<1>1. /\ op[t].step = "idle"
      /\ UNCHANGED <<retained, retains, foreign, greens, current, box, registry, cache, device, objects, home, op, chosen, stray>>
  BY DEF AllocateFails, driver, handles, holding
<1>2. op'[t].step \notin Within /\ op'[t].step \notin {"lookup", "missed", "have", "entered"}
  BY <1>1 DEF Within
<1> QED
  BY <1>1, <1>2, HoldersHold, WorkKnown

LEMMA DeleteKnown ==
  ASSUME IInv, Known, NEW b \in Boxes, Delete(b)
  PROVE  Known'
<1>1. UNCHANGED <<current, cache, device, objects, item, home, op, chosen, stray, lost>>
  BY DEF Delete, holding
<1>2. \A d \in Boxes : Held(d)' <=> Held(d)
  BY <1>1 DEF Held
<1>h. \A u \in Threads :
        /\ device[u] # None => device[u] \in Boxes
        /\ op[u].step \in {"have"} \cup Within => op[u].box \in Boxes
  BY DEF IInv, Typed, Ops, OpOK
<1>3. CASE /\ box[b].state = "live" /\ ~Held(b)
           /\ box' = [box EXCEPT ![b].state = "unregistered"]
           /\ registry' = [registry EXCEPT ![box[b].ctx] = None]
           /\ UNCHANGED driver
  <2>1. /\ \A d \in Boxes : box'[d].kind = box[d].kind /\ box'[d].ctx = box[d].ctx /\ (InUse(d)' <=> InUse(d))
        /\ \A d \in Boxes : d # b => box'[d] = box[d]
    BY <1>3 DEF IInv, Typed, BoxTypes, InUse
  <2>2. UNCHANGED <<retained, retains, foreign, greens>>
    BY <1>3 DEF driver
  <2>3. HeldLive' /\ KindsFit' /\ (retained <= retains)'
    BY <1>2, <1>3, <2>1, <2>2 DEF Known, HeldLive, KindsFit
  <2>4. Inwards' /\ Anchors'
    BY <1>1, <1>h, <2>1, <2>2 DEF Known, Inwards, Inward, Anchors, Anchored, Tracked
  <2>5. ASSUME stray' = {} PROVE One' /\ Looks' /\ Makings'
    <3>1. One /\ Looks /\ Makings
      BY <1>1, <2>5 DEF Known
    <3>2. \A d \in Boxes : Tracked(box[d].ctx)' <=> Tracked(box[d].ctx)
      BY <2>1, <2>2 DEF Tracked
    <3>3. One'
      <4>1. ASSUME NEW d \in Boxes, InUse(d), Tracked(box[d].ctx), box[d].state = "live", Held(d)
            PROVE  registry'[box[d].ctx] = d
        <5>1. d # b /\ registry[box[d].ctx] = d
          BY <1>3, <3>1, <4>1 DEF One
        <5>2. box[d].ctx # box[b].ctx
          BY <1>3, <3>1, <4>1, <5>1 DEF One, InUse
        <5> QED
          BY <1>3, <5>1, <5>2 DEF IInv, Typed, BoxTypes
      <4> QED
        BY <1>2, <2>1, <2>2, <3>1, <3>2, <4>1 DEF One, KindOf, HeldLive, Known
    <3>4. Looks'
      BY <1>1, <1>h, <2>1, <2>2, <3>1 DEF Looks, Looking, Tracked
    <3>5. Makings'
      BY <1>1, <2>1, <2>2, <3>1 DEF Makings, Making
    <3> QED
      BY <3>3, <3>4, <3>5
  <2> QED
    BY <2>3, <2>4, <2>5 DEF Known
<1>4. CASE /\ box[b].state = "unregistered" /\ box' = [box EXCEPT ![b] = Unused]
           /\ Destroyed(b) /\ UNCHANGED registry
  <2>1. /\ ~InUse(b)' /\ InUse(b) /\ ~Held(b)
        /\ \A d \in Boxes : d # b => box'[d] = box[d]
    BY <1>4 DEF IInv, Typed, InUse, Unused, Known, HeldLive
  <2>2. /\ foreign' = foreign /\ retains' = retains
        /\ retained' = retained \/ retained' = retained - 1
        /\ greens' = greens \/ (box[b].kind = "green" /\ greens' = greens \ {box[b].ctx})
    BY <1>4 DEF Destroyed
  <2>b. /\ \A u \in Threads : device[u] # b
        /\ \A u \in Threads : op[u].box # b
    BY <2>1, InHand
  <2>3. HeldLive' /\ KindsFit'
    BY <1>2, <2>1 DEF Known, HeldLive, KindsFit, InUse
  <2>c. (retained <= retains)'
    <3>1. retained \in Nat /\ retains \in Nat
      BY FS_CardinalityType, BoundsAreNatural DEF IInv, Counted, Typed
    <3> QED
      BY <2>2, <3>1 DEF Known
  <2>4. Inwards' /\ Anchors'
    BY <1>1, <1>h, <2>1, <2>2, <2>b DEF Known, Inwards, Inward, Anchors, Anchored, Tracked
  <2>5. ASSUME stray' = {} PROVE One' /\ Looks' /\ Makings'
    <3>1. One /\ Looks /\ Makings
      BY <1>1, <2>5 DEF Known
    <3>2. greens' = greens \/ (box[b].ctx \in Greens /\ greens' = greens \ {box[b].ctx})
      BY <2>1, <2>2 DEF Known, KindsFit
    <3>3. One'
      <4>1. ASSUME NEW d \in Boxes, InUse(d)', Tracked(box[d].ctx)'
            PROVE  /\ d # b /\ box'[d] = box[d] /\ InUse(d) /\ Tracked(box[d].ctx)
                   /\ box[d].ctx \in Greens => box[d].ctx \in greens'
        <5>1. d # b /\ box'[d] = box[d] /\ InUse(d) /\ Tracked(box[d].ctx)
          BY <2>1, <2>2, <4>1 DEF InUse, Tracked
        <5>2. box[d].ctx # box[b].ctx
          BY <2>1, <3>1, <5>1 DEF One
        <5> QED
          BY <3>1, <3>2, <5>1, <5>2 DEF One
      <4>2. \A d \in Boxes : InUse(d)' => d # b /\ InUse(d) /\ box'[d] = box[d]
        BY <2>1 DEF InUse
      <4> QED
        BY <1>2, <1>4, <3>1, <4>1, <4>2 DEF One, KindOf
    <3>4. Looks'
      BY <1>1, <1>h, <2>1, <2>2, <2>b, <3>1 DEF Looks, Looking, Tracked
    <3>5. Makings'
      <4>1. \A d \in Boxes : InUse(d)' => InUse(d) /\ box'[d] = box[d]
        BY <2>1 DEF InUse
      <4> QED
        BY <1>1, <2>1, <3>1, <3>2, <4>1 DEF Makings, Making
    <3> QED
      BY <3>3, <3>4, <3>5
  <2> QED
    BY <2>3, <2>c, <2>4, <2>5 DEF Known
<1> QED
  BY <1>3, <1>4 DEF Delete, Deleter

LEMMA KnownInit == Init => Known
<1> SUFFICES ASSUME Init PROVE Known
  OBVIOUS
<1>1. \A b \in Boxes : ~InUse(b) /\ ~Held(b)
  BY NamesAreDistinct DEF Init, Unused, Idle, InUse, Held
<1>2. \A t \in Threads : op[t].step = "idle" /\ ~Tracked(chosen[t])
  BY NamesAreDistinct DEF Init, Idle, Tracked
<1>3. retained <= retains
  BY DEF Init
<1> QED
  BY <1>1, <1>2, <1>3
     DEF Known, HeldLive, KindsFit, Inwards, Inward, Within, Anchors, Anchored, One, Looks, Looking, Makings, Making

LEMMA KnownNext == IInv /\ Known /\ [Next]_vars => Known'
<1> SUFFICES ASSUME IInv, Known, [Next]_vars PROVE Known'
  OBVIOUS
<1>1. ASSUME NEW t \in Threads,
             Lookup(t) \/ Retain(t) \/ UsePrimary(t) \/ CurrentObject(t) \/ Store(t) \/ ThreadExit(t) \/ ForeignCurrent(t)
      PROVE  Known'
  BY <1>1, LookupKnown, RetainKnown, UsePrimaryKnown, CurrentKnown, StoreKnown, ThreadExitKnown, ForeignKnown
<1>2. ASSUME NEW t \in Threads, NEW b \in Boxes, Register(t, b) \/ Adopt(t, b) \/ AdoptOnly(t, b) \/ SetCurrent(t, b) \/ PushFails(t, b)
      PROVE  Known'
  BY <1>2, RegisterKnown, AdoptKnown, AdoptOnlyKnown, SetCurrentKnown, PushFailsKnown
<1>3. ASSUME NEW t \in Threads, NEW g \in Greens, CreateGreen(t, g) PROVE Known'
  BY <1>3, CreateGreenKnown
<1>4. ASSUME NEW t \in Threads, NEW i \in Items, Allocate(t, i) \/ AllocateFails(t, i) \/ Destroy(t, i) PROVE Known'
  BY <1>4, CurrentKnown, AllocateFailsKnown, DestroyKnown
<1>5. ASSUME NEW t \in Threads, NEW i \in Items, NEW b \in Boxes, NEW for \in {"create", "texture"}, Create(t, for, b, i)
      PROVE  Known'
  BY <1>5, CreateKnown
<1>6. ASSUME NEW t \in Threads, Operate(t) \/ Exit(t) \/ ExitFails(t) \/ Undo(t) PROVE Known'
  BY <1>6, OperateKnown, ExitKnown
<1>7. ASSUME NEW b \in Boxes, Delete(b) \/ DropObject(b) PROVE Known'
  BY <1>7, DeleteKnown, DropObjectKnown
<1>8. CASE UNCHANGED vars
  <2>1. UNCHANGED <<retained, retains, foreign, greens, current, box, registry, cache, device, objects, home, op, chosen, stray, lost>>
    BY <1>8 DEF vars
  <2>2. \A b \in Boxes : Held(b)' <=> Held(b)
    BY <2>1 DEF Held
  <2> QED
    BY <2>1, <2>2 DEF Known, HeldLive, KindsFit, InUse, Inwards, Inward, Anchors, Anchored, Tracked, One, KindOf,
                      Looks, Looking, Makings, Making
<1> QED
  BY <1>1, <1>2, <1>3, <1>4, <1>5, <1>6, <1>7, <1>8 DEF Next

LEMMA KnownAlways == Spec => [](IInv /\ Known)
  BY InvInit, InvNext, KnownInit, KnownNext, PTL DEF Spec

\* A green context has one box, which knows that it is green and is the one in
\* the registry, however raw contexts and boxes are reused, whatever retains
\* the primary context, and whatever old boxes are still being deleted.
THEOREM GreensKnown == Spec => []GreenKnown
<1>1. Known => GreenKnown
  BY NamesAreDistinct DEF Known, One, InUse, Tracked, KindOf, GreenKnown
<1> QED
  BY <1>1, KnownAlways, PTL

\* A held box has its context, unless it is a reference to a primary context that
\* was retained again.
LEMMA HeldValid ==
  ASSUME IInv, Known, stray = {}, NEW b \in Boxes, Held(b)
  PROVE  Valid(box[b].ctx) \/ Borrowed(b)
<1>1. /\ box[b].state = "live" /\ InUse(b) /\ box[b].ctx \in Contexts
      /\ box[b].kind \in {"primary", "green", "ref"}
  BY DEF Known, HeldLive, InUse, IInv, Typed, BoxTypes
<1>2. CASE box[b].ctx = Primary /\ ~foreign /\ ~Borrowed(b)
  <2>1. box[b].kind = "primary"
    <3>1. CASE retains <= 1
      BY <1>1, <1>2, <3>1 DEF Known, One, Tracked, KindOf
    <3>2. CASE ~(retains <= 1)
      <4>1. retains > 1
        BY <3>2, BoundsAreNatural DEF IInv, Typed
      <4> QED
        BY <1>1, <1>2, <4>1, NamesAreDistinct DEF Borrowed, Known, KindsFit
    <3> QED
      BY <3>1, <3>2
  <2>2. Cardinality(PrimaryBoxes) \in Nat \ {0} /\ Cardinality(Retaining) \in Nat
    BY <2>1, FS_CardinalityType, FS_EmptySet DEF IInv, Counted, PrimaryBoxes
  <2> QED
    BY <1>2, <2>2 DEF IInv, Counted, Valid
<1>3. CASE box[b].ctx # Primary
  BY <1>1, <1>3 DEF Known, One, Tracked, Contexts, Valid
<1> QED
  BY <1>2, <1>3 DEF Valid

\* If a handle exists, its context is valid, on any number of threads that retain
\* the primary context.  Borrowed handles are the exception: a second retain
\* makes a box whose registration hides the first, and TLC shows what follows.
THEOREM HandlesAreValid == Spec => []OtherHandlesValid
<1>1. IInv /\ Known => OtherHandlesValid
  BY HeldValid DEF OtherHandlesValid
<1> QED
  BY <1>1, KnownAlways, PTL

\* An operation runs in the context that it asked for, which is still there.
THEOREM OperationsAreHome == Spec => []EnteredIsHome
<1>1. ASSUME IInv, Known, NEW t \in Threads, op[t].step = "entered"
      PROVE  current[t] = op[t].ctx /\ (stray = {} => Valid(op[t].ctx) \/ Borrowed(op[t].box))
  <2>1. current[t] = op[t].ctx /\ op[t].ctx = box[op[t].box].ctx
    BY <1>1 DEF Known, Inwards, Inward, Within
  <2>2. op[t].box \in Boxes
    BY <1>1 DEF IInv, Ops, OpOK, Within
  <2>3. Held(op[t].box)
    BY <2>2, HoldersHold
  <2> QED
    BY <1>1, <2>1, <2>2, <2>3, HeldValid
<1>2. IInv /\ Known => EnteredIsHome
  BY <1>1 DEF EnteredIsHome
<1> QED
  BY <1>2, KnownAlways, PTL
=============================================================================
