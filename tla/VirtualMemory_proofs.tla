-------------------------- MODULE VirtualMemory_proofs --------------------------
(***************************************************************************)
(* Proofs about VirtualMemory, for any number of threads, buffers and      *)
(* allocations, any address space, granularity and sizes, and any number   *)
(* of failing calls: the types, with what the driver must keep disjoint,   *)
(* and who holds each reference to physical memory (IInv).                 *)
(*                                                                         *)
(* The second half, from "Who claims which range" on, is about addresses.  *)
(* Boxes, transactions and running deleters claim ranges; BInv says that   *)
(* the claims are disjoint, that every reservation is one of them, and     *)
(* what is mapped in each, as long as the driver has not handed out a      *)
(* range that some box still remembers: ~recycled.                         *)
(***************************************************************************)
EXTENDS VirtualMemory, FiniteSetTheorems, TLAPS

-----------------------------------------------------------------------------
(* What a thread at each step has done, and what its transaction undoes.   *)

Calls == [op : {"none", "allocate", "grow", "close"}, b : Buffers \cup {None}, to : Buffers \cup {None},
          new : Nat, prev : Nat, ptr : 0 .. Top, h : Handles \cup {None}, old : Handles \cup {None},
          dptr : 0 .. Top, dsize : Nat, dh : Handles \cup {None}]

Entries == [do : {"free", "release", "remap", "unmap"}, at : Nat, n : Nat, h : Handles \cup {None}]
Undo(do, at, n, h) == [do |-> do, at |-> at, n |-> n, h |-> h]

\* What a transaction registers, in the order in which it does, for a call c
\* that found the old buffer at address at.
Plan(c, at) ==
    LET total == Granules(c.new) IN
    IF c.op = "grow"
    THEN <<Undo("free", c.ptr, total, None), Undo("release", 0, 0, c.old), Undo("remap", at, c.prev, c.old),
           Undo("unmap", c.ptr, c.prev, None), Undo("release", 0, 0, c.h),
           Undo("unmap", c.ptr + c.prev, total - c.prev, None)>>
    ELSE <<Undo("release", 0, 0, c.h), Undo("free", c.ptr, total, None), Undo("unmap", c.ptr, total, None)>>

\* How much of it is registered at each step.
GrowDepth(p) ==
    CASE p \in {"probe", "probe_free", "reserve", "free_old", "clear", "return"} -> {0}
      [] p = "retain" -> {1} [] p = "unmap_old" -> {2} [] p = "map_old" -> {3} [] p = "create" -> {4}
      [] p = "map" -> {5} [] p = "access" -> {6} [] p = "rollback" -> 0 .. 6
      [] OTHER -> {}
AllocateDepth(p) ==
    CASE p = "create" -> {0} [] p = "reserve" -> {1} [] p = "map" -> {2} [] p = "access" -> {3}
      [] p = "rollback" -> 0 .. 3
      [] OTHER -> {}

Deallocation == {"d_retain", "d_unmap", "d_free", "d_release"}

\* A thread at step p with call c and k entries to undo.
StepOK(p, c, k) ==
    \/ p = "idle" /\ c = Idle /\ k = 0
    \/ c.op = "grow" /\ k \in GrowDepth(p)
    \/ c.op = "allocate" /\ k \in AllocateDepth(p)
    \/ c.op \in {"grow", "close"} /\ p \in Deallocation /\ k = 0

CallOK(p, c, k) ==
    /\ c.op = "grow" => /\ c.b \in Buffers /\ c.to \in Buffers
                        /\ c.prev <= Granules(c.new)
                        /\ k >= 2 => c.old \in Handles
                        /\ k >= 5 => c.h \in Handles /\ c.h # c.old
    /\ c.op = "allocate" => /\ c.to \in Buffers /\ c.prev = 0 /\ c.old = None
                            /\ k >= 1 => c.h \in Handles
    /\ c.op \in {"grow", "allocate"} => c.new > 0
    /\ p \in {"d_unmap", "d_free", "d_release"} => c.dh \in Handles

ListOK(s, plan, k) ==
    /\ Len(s) = k /\ k <= Len(plan)
    /\ \A i \in 1 .. k : s[i] = plan[k + 1 - i]

\* A growth works on an open buffer until it clears it.
Works(p) == p \notin {"return"} \cup Deallocation
Fits(p, c, s, at, open) ==
    /\ StepOK(p, c, Len(s)) /\ CallOK(p, c, Len(s))
    /\ ListOK(s, Plan(c, at), Len(s))
    /\ c.op = "grow" /\ Works(p) => open
WorkOK(t) == Fits(pc[t], call[t], undo[t], box[call[t].b].ptr, buffer[call[t].b].open)

Apart == \A t, u \in Threads : t # u => {call[t].b, call[t].to} \cap {call[u].b, call[u].to} \subseteq {None}

Work == /\ call \in [Threads -> Calls] /\ undo \in [Threads -> Seq(Entries)]
        /\ \A t \in Threads : WorkOK(t)
        /\ Apart

\* The references that thread t's transaction will release.
Taken(c, k) ==
    IF c.op = "grow" THEN (IF k >= 2 THEN {c.old} ELSE {}) \cup (IF k >= 5 THEN {c.h} ELSE {})
    ELSE IF c.op = "allocate" /\ k >= 1 THEN {c.h} ELSE {}
Freeing == {"d_unmap", "d_free", "d_release"}
\* The reference that its deallocation has in hand.
InHand(p, c) == IF p \in Freeing THEN {c.dh} ELSE {}
Takers(h) == {t \in Threads : h \in Taken(call[t], Len(undo[t]))}
Freers(h) == {t \in Threads : h \in InHand(pc[t], call[t])}

Counted == \A h \in Handles : phys[h].refs = kept[h] + Cardinality(Takers(h)) + Cardinality(Freers(h))

\* Reservations lie within the address space.
Bounded == \A r \in reserved : r.base + r.len <= Top

IInv == TypeOK /\ Bounded /\ Work /\ Counted

-----------------------------------------------------------------------------
(* Granules, records and lists.                                            *)

\* Rounding up to granules.
LEMMA GranulesNat ==
  ASSUME NEW n \in Nat
  PROVE  Granules(n) \in Nat /\ (n > 0 => Granules(n) > 0)
<1>1. Gran \in Nat /\ Gran >= 1
  BY GranIsPositive
<1>2. (n + Gran - 1) \in Nat
  BY <1>1
<1>3. (n + Gran - 1) \div Gran \in Nat
  BY <1>1, <1>2
<1>4. ASSUME n > 0 PROVE (n + Gran - 1) \div Gran > 0
  <2> DEFINE q == (n + Gran - 1) \div Gran
  <2>1. n + Gran - 1 = Gran * q + ((n + Gran - 1) % Gran) /\ (n + Gran - 1) % Gran \in 0 .. Gran - 1
    BY <1>1, <1>2
  <2>2. q \in Nat
    BY <1>3
  <2>3. q = 0 => n + Gran - 1 <= Gran - 1
    BY <1>1, <2>1
  <2> QED
    BY <1>1, <1>4, <2>2, <2>3
<1> QED
  BY <1>3, <1>4 DEF Granules

\* A larger size does not need fewer granules.
LEMMA GranulesMonotone ==
  ASSUME NEW m \in Nat, NEW n \in Nat, m <= n
  PROVE  Granules(m) <= Granules(n)
<1>1. Gran \in Nat \ {0}
  BY GranIsPositive
<1>2. (m + Gran - 1) \in Nat /\ (n + Gran - 1) \in Nat /\ m + Gran - 1 <= n + Gran - 1
  BY <1>1
<1>3. \A x, y \in Nat : x <= y => x \div Gran <= y \div Gran
  BY <1>1
<1> QED
  BY <1>2, <1>3 DEF Granules

\* The plan, entry by entry.
LEMMA GrowPlan ==
  ASSUME NEW c, NEW at, c.op = "grow"
  PROVE  /\ Len(Plan(c, at)) = 6
         /\ Plan(c, at)[1] = Undo("free", c.ptr, Granules(c.new), None)
         /\ Plan(c, at)[2] = Undo("release", 0, 0, c.old)
         /\ Plan(c, at)[3] = Undo("remap", at, c.prev, c.old)
         /\ Plan(c, at)[4] = Undo("unmap", c.ptr, c.prev, None)
         /\ Plan(c, at)[5] = Undo("release", 0, 0, c.h)
         /\ Plan(c, at)[6] = Undo("unmap", c.ptr + c.prev, Granules(c.new) - c.prev, None)
  BY DEF Plan

\* That of an allocation.
LEMMA AllocatePlan ==
  ASSUME NEW c, NEW at, c.op # "grow"
  PROVE  /\ Len(Plan(c, at)) = 3
         /\ Plan(c, at)[1] = Undo("release", 0, 0, c.h)
         /\ Plan(c, at)[2] = Undo("free", c.ptr, Granules(c.new), None)
         /\ Plan(c, at)[3] = Undo("unmap", c.ptr, Granules(c.new), None)
  BY DEF Plan

\* A new entry, the newest one undone, and a plan that differs later only.
LEMMA Pushed ==
  ASSUME NEW s \in Seq(Entries), NEW p, NEW q, ListOK(s, p, Len(s)), NEW e \in Entries,
         Len(q) = Len(p), Len(p) \in Nat, Len(s) + 1 <= Len(p),
         \A i \in 1 .. Len(s) : q[i] = p[i], q[Len(s) + 1] = e
  PROVE  /\ <<e>> \o s \in Seq(Entries) /\ Len(<<e>> \o s) = Len(s) + 1
         /\ ListOK(<<e>> \o s, q, Len(s) + 1)
<1>1. /\ <<e>> \o s \in Seq(Entries) /\ Len(<<e>> \o s) = Len(s) + 1
      /\ \A i \in 1 .. Len(s) + 1 : (<<e>> \o s)[i] = IF i = 1 THEN e ELSE s[i - 1]
  OBVIOUS
<1>2. Len(s) \in Nat
  OBVIOUS
<1>3. ASSUME NEW i \in 1 .. Len(s) + 1 PROVE (<<e>> \o s)[i] = q[Len(s) + 1 + 1 - i]
  <2>1. CASE i = 1
    BY <1>1, <1>2, <2>1
  <2>2. CASE i # 1
    <3>1. i - 1 \in 1 .. Len(s) /\ Len(s) + 1 - (i - 1) \in 1 .. Len(s) /\ Len(s) + 1 - (i - 1) = Len(s) + 1 + 1 - i
      BY <1>2, <2>2
    <3>2. s[i - 1] = p[Len(s) + 1 - (i - 1)]
      BY <3>1 DEF ListOK
    <3> QED
      BY <1>1, <2>2, <3>1, <3>2
  <2> QED
    BY <2>1, <2>2
<1> QED
  BY <1>1, <1>2, <1>3 DEF ListOK

\* The newest entry taken off leaves the list of the plan one shorter.
LEMMA Popped ==
  ASSUME NEW s \in Seq(Entries), NEW p, ListOK(s, p, Len(s)), s # <<>>, Len(p) \in Nat
  PROVE  /\ Tail(s) \in Seq(Entries) /\ Len(s) \in Nat \ {0} /\ Len(Tail(s)) = Len(s) - 1
         /\ Head(s) \in Entries /\ Head(s) = p[Len(s)]
         /\ ListOK(Tail(s), p, Len(s) - 1)
<1>1. /\ Tail(s) \in Seq(Entries) /\ Len(s) \in Nat \ {0} /\ Len(Tail(s)) = Len(s) - 1
      /\ Head(s) \in Entries /\ Head(s) = s[1]
      /\ \A i \in 1 .. Len(s) - 1 : Tail(s)[i] = s[i + 1]
  OBVIOUS
<1>2. Head(s) = p[Len(s)]
  BY <1>1 DEF ListOK
<1>3. ASSUME NEW i \in 1 .. Len(s) - 1 PROVE Tail(s)[i] = p[Len(s) - 1 + 1 - i]
  <2>0. \A n \in Nat \ {0} : \A j \in 1 .. n - 1 : j + 1 \in 1 .. n /\ n + 1 - (j + 1) = n - 1 + 1 - j
    OBVIOUS
  <2>1. i + 1 \in 1 .. Len(s) /\ Len(s) + 1 - (i + 1) = Len(s) - 1 + 1 - i
    BY <1>1, <2>0
  <2> QED
    BY <1>1, <2>1 DEF ListOK
<1>4. Len(s) <= Len(p)
  BY DEF ListOK
<1> QED
  BY <1>1, <1>2, <1>3, <1>4 DEF ListOK

\* The empty transaction fits every plan.
LEMMA NoList == ASSUME NEW c, NEW at PROVE ListOK(<<>>, Plan(c, at), 0)
<1>1. 0 <= Len(Plan(c, at))
  BY GrowPlan, AllocatePlan
<1> QED
  BY <1>1 DEF ListOK

\* Where the old buffer is, and whether it is open, matters only to a growth
\* at work.
LEMMA FitsElsewhere ==
  ASSUME NEW p, NEW c, NEW s \in Seq(Entries), NEW at, NEW open, NEW at2, NEW open2, Fits(p, c, s, at, open),
         c.op = "grow" /\ Works(p) => at2 = at /\ open2 = open
  PROVE  Fits(p, c, s, at2, open2)
<1>1. CASE c.op = "grow" /\ Works(p)
  BY <1>1
<1>2. CASE c.op = "grow" /\ ~Works(p)
  <2>1. Len(s) = 0
    BY <1>2 DEF Fits, StepOK, Works, Deallocation, GrowDepth, Idle
  <2>2. s = <<>>
    BY <2>1
  <2> QED
    BY <1>2, <2>1, <2>2, NoList DEF Fits
<1>3. CASE c.op # "grow"
  BY <1>3 DEF Fits, Plan
<1> QED
  BY <1>1, <1>2, <1>3

-----------------------------------------------------------------------------
(* The steps of one thread.                                                *)

\* Thread t goes to step p with call c and transaction s.
Goes(t, p, c, s) ==
    /\ pc'[t] = p /\ call'[t] = c /\ undo'[t] = s
    /\ \A u \in Threads \ {t} : pc'[u] = pc[u] /\ call'[u] = call[u] /\ undo'[u] = undo[u]

\* What thread t does to buffers and boxes leaves the growths of others alone.
Spares(t) ==
    \A u \in Threads \ {t} : call[u].op = "grow" /\ Works(pc[u]) =>
        box'[call[u].b].ptr = box[call[u].b].ptr /\ buffer'[call[u].b].open = buffer[call[u].b].open

\* When a thread goes on to a place that fits, all threads are in place.
LEMMA GoesWork ==
  ASSUME Work, NEW t \in Threads, NEW p, NEW c \in Calls, NEW s \in Seq(Entries), Goes(t, p, c, s), Spares(t),
         call' \in [Threads -> Calls], undo' \in [Threads -> Seq(Entries)],
         Fits(p, c, s, box'[c.b].ptr, buffer'[c.b].open),
         \A u \in Threads \ {t} : {c.b, c.to} \cap {call[u].b, call[u].to} \subseteq {None}
  PROVE  Work'
<1>1. ASSUME NEW u \in Threads PROVE WorkOK(u)'
  <2>1. CASE u = t
    BY <2>1 DEF WorkOK, Goes
  <2>2. CASE u # t
    <3>1. pc'[u] = pc[u] /\ call'[u] = call[u] /\ undo'[u] = undo[u] /\ undo[u] \in Seq(Entries)
      BY <2>2 DEF Goes, Work
    <3>2. Fits(pc[u], call[u], undo[u], box[call[u].b].ptr, buffer[call[u].b].open)
      BY DEF Work, WorkOK
    <3>4. call[u].op = "grow" /\ Works(pc[u]) =>
             box'[call[u].b].ptr = box[call[u].b].ptr /\ buffer'[call[u].b].open = buffer[call[u].b].open
      BY <2>2 DEF Spares
    <3>3. Fits(pc[u], call[u], undo[u], box'[call[u].b].ptr, buffer'[call[u].b].open)
      BY <3>1, <3>2, <3>4, FitsElsewhere
    <3> QED
      BY <3>1, <3>3 DEF WorkOK
  <2> QED
    BY <2>1, <2>2
<1>2. Apart'
  <2> SUFFICES ASSUME NEW u \in Threads, NEW v \in Threads, u # v
               PROVE  {call'[u].b, call'[u].to} \cap {call'[v].b, call'[v].to} \subseteq {None}
    BY DEF Apart
  <2> QED
    BY DEF Goes, Work, Apart
<1> QED
  BY <1>1, <1>2 DEF Work

-----------------------------------------------------------------------------
(* Counting references.                                                    *)

In(x, S) == IF x \in S THEN 1 ELSE 0

\* The references to h that a thread at step p with call c and k entries has.
Owed(p, c, k, h) == In(h, Taken(c, k)) + In(h, InHand(p, c))

\* A step of thread t moves as many references as it takes over or gives up.
Balanced(t, p, c, k) ==
    \A h \in Handles :
        phys'[h].refs + kept[h] + Owed(pc[t], call[t], Len(undo[t]), h) = phys[h].refs + kept'[h] + Owed(p, c, k, h)

\* A set of threads that differs in t only.
LEMMA SetMoves ==
  ASSUME NEW S \in SUBSET Threads, NEW T \in SUBSET Threads, NEW t \in Threads,
         \A u \in Threads \ {t} : u \in S <=> u \in T
  PROVE  /\ Cardinality(S) \in Nat /\ Cardinality(T) \in Nat
         /\ Cardinality(T) + In(t, S) = Cardinality(S) + In(t, T)
<1>1. IsFiniteSet(S) /\ IsFiniteSet(T)
  BY InstanceIsFinite, FS_Subset
<1>2. Cardinality(S) \in Nat /\ Cardinality(T) \in Nat
  BY <1>1, FS_CardinalityType
<1>3. Cardinality(S \ {t}) = IF t \in S THEN Cardinality(S) - 1 ELSE Cardinality(S)
  BY <1>1, FS_RemoveElement
<1>4. Cardinality(T \ {t}) = IF t \in T THEN Cardinality(T) - 1 ELSE Cardinality(T)
  BY <1>1, FS_RemoveElement
<1>5. Cardinality(S \ {t}) = Cardinality(T \ {t})
  <2>1. S \ {t} = T \ {t}
    OBVIOUS
  <2> QED
    BY <2>1
<1>6. PICK x \in Int : x = IF t \in S THEN 1 ELSE 0
  OBVIOUS
<1>7. PICK y \in Int : y = IF t \in T THEN 1 ELSE 0
  OBVIOUS
<1>8. Cardinality(S \ {t}) = Cardinality(S) - x /\ Cardinality(T \ {t}) = Cardinality(T) - y
  BY <1>2, <1>3, <1>4, <1>6, <1>7
<1>9. Cardinality(T) + x = Cardinality(S) + y
  BY <1>2, <1>5, <1>8
<1>10. In(t, S) = x /\ In(t, T) = y
  BY <1>6, <1>7, Zenon DEF In
<1> QED
  BY <1>2, <1>9, <1>10, Zenon

\* The count stays right when a thread takes over exactly what it is given.
LEMMA CountMoves ==
  ASSUME TypeOK, Counted, NEW t \in Threads, NEW p, NEW c, NEW s, Goes(t, p, c, s),
         \A h \in Handles : phys'[h].refs \in Int /\ kept'[h] \in Int,
         Balanced(t, p, c, Len(s))
  PROVE  Counted'
<1> SUFFICES ASSUME NEW h \in Handles
             PROVE  phys'[h].refs = kept'[h] + Cardinality(Takers(h)') + Cardinality(Freers(h)')
  BY DEF Counted
<1>1. \A u \in Threads \ {t} : (u \in Takers(h) <=> u \in Takers(h)') /\ (u \in Freers(h) <=> u \in Freers(h)')
  BY DEF Goes, Takers, Freers
<1>2. /\ t \in Takers(h) <=> h \in Taken(call[t], Len(undo[t]))
      /\ t \in Takers(h)' <=> h \in Taken(c, Len(s))
      /\ t \in Freers(h) <=> h \in InHand(pc[t], call[t])
      /\ t \in Freers(h)' <=> h \in InHand(p, c)
  BY DEF Goes, Takers, Freers
<1>3. /\ Takers(h) \in SUBSET Threads /\ Takers(h)' \in SUBSET Threads
      /\ Freers(h) \in SUBSET Threads /\ Freers(h)' \in SUBSET Threads
  BY DEF Takers, Freers
<1>4. /\ Cardinality(Takers(h)) \in Nat /\ Cardinality(Takers(h)') \in Nat
      /\ Cardinality(Takers(h)') + In(t, Takers(h)) = Cardinality(Takers(h)) + In(t, Takers(h)')
  BY <1>1, <1>3, SetMoves
<1>5. /\ Cardinality(Freers(h)) \in Nat /\ Cardinality(Freers(h)') \in Nat
      /\ Cardinality(Freers(h)') + In(t, Freers(h)) = Cardinality(Freers(h)) + In(t, Freers(h)')
  BY <1>1, <1>3, SetMoves
<1>6. phys[h].refs = kept[h] + Cardinality(Takers(h)) + Cardinality(Freers(h)) /\ phys[h].refs \in Nat /\ kept[h] \in Nat
  BY DEF Counted, TypeOK
<1>7. PICK x, x2, y, y2 \in Int :
         /\ x = In(t, Takers(h)) /\ x = In(h, Taken(call[t], Len(undo[t])))
         /\ x2 = In(t, Takers(h)') /\ x2 = In(h, Taken(c, Len(s)))
         /\ y = In(t, Freers(h)) /\ y = In(h, InHand(pc[t], call[t]))
         /\ y2 = In(t, Freers(h)') /\ y2 = In(h, InHand(p, c))
  BY <1>2 DEF In
<1>8. /\ phys'[h].refs \in Int /\ kept'[h] \in Int
      /\ phys'[h].refs + kept[h] + (x + y) = phys[h].refs + kept'[h] + (x2 + y2)
  <2>1. Owed(pc[t], call[t], Len(undo[t]), h) = x + y /\ Owed(p, c, Len(s), h) = x2 + y2
    BY <1>7 DEF Owed
  <2> QED
    BY <2>1 DEF Balanced
<1>9. /\ Cardinality(Takers(h)') + x = Cardinality(Takers(h)) + x2
      /\ Cardinality(Freers(h)') + y = Cardinality(Freers(h)) + y2
  BY <1>4, <1>5, <1>7, Zenon
<1>10. /\ Cardinality(Takers(h)) \in Nat /\ Cardinality(Takers(h)') \in Nat
       /\ Cardinality(Freers(h)) \in Nat /\ Cardinality(Freers(h)') \in Nat
  BY <1>4, <1>5, Zenon
<1>11. x \in Int /\ x2 \in Int /\ y \in Int /\ y2 \in Int
  OBVIOUS
<1>12. PICK r, r2, k, k2 \in Int : r = phys[h].refs /\ r2 = phys'[h].refs /\ k = kept[h] /\ k2 = kept'[h]
  BY <1>6, <1>8
<1>13. PICK a, a2, f, f2 \in Int : /\ a = Cardinality(Takers(h)) /\ a2 = Cardinality(Takers(h)')
                                   /\ f = Cardinality(Freers(h)) /\ f2 = Cardinality(Freers(h)')
  BY <1>10
<1>14. r = k + a + f
  BY <1>6, <1>12, <1>13
<1>15. r2 + k + (x + y) = r + k2 + (x2 + y2)
  BY <1>8, <1>12
<1>16. a2 + x = a + x2 /\ f2 + y = f + y2
  BY <1>9, <1>13
<1>17. r2 = k2 + a2 + f2
  BY <1>14, <1>15, <1>16
<1> QED
  BY <1>12, <1>13, <1>17

\* Who takes or frees h has a reference to it.
LEMMA Referred ==
  ASSUME TypeOK, Counted, NEW t \in Threads, NEW h \in Handles,
         h \in Taken(call[t], Len(undo[t])) \cup InHand(pc[t], call[t])
  PROVE  phys[h].refs \in Nat \ {0}
<1>1. IsFiniteSet(Takers(h)) /\ IsFiniteSet(Freers(h))
  BY InstanceIsFinite, FS_Subset DEF Takers, Freers
<1>2. /\ Cardinality(Takers(h)) \in Nat /\ Cardinality(Freers(h)) \in Nat
      /\ Takers(h) # {} => Cardinality(Takers(h)) # 0
      /\ Freers(h) # {} => Cardinality(Freers(h)) # 0
  BY <1>1, FS_CardinalityType, FS_EmptySet
<1>3. t \in Takers(h) \/ t \in Freers(h)
  BY DEF Takers, Freers
<1>4. phys[h].refs = kept[h] + Cardinality(Takers(h)) + Cardinality(Freers(h)) /\ kept[h] \in Nat
  BY DEF Counted, TypeOK
<1> QED
  BY <1>2, <1>3, <1>4

\* Nobody takes or frees what has no reference.
LEMMA Unreferred ==
  ASSUME TypeOK, Counted, NEW h \in Handles, phys[h].refs = 0
  PROVE  /\ \A t \in Threads : h \notin Taken(call[t], Len(undo[t])) \cup InHand(pc[t], call[t])
         /\ kept[h] = 0
<1>1. ASSUME NEW t \in Threads PROVE h \notin Taken(call[t], Len(undo[t])) /\ ~h \in InHand(pc[t], call[t])
  BY Referred
<1>2. IsFiniteSet(Takers(h)) /\ IsFiniteSet(Freers(h))
  BY InstanceIsFinite, FS_Subset DEF Takers, Freers
<1>3. Cardinality(Takers(h)) \in Nat /\ Cardinality(Freers(h)) \in Nat
  BY <1>2, FS_CardinalityType
<1>4. phys[h].refs = kept[h] + Cardinality(Takers(h)) + Cardinality(Freers(h)) /\ kept[h] \in Nat
  BY DEF Counted, TypeOK
<1> QED
  BY <1>1, <1>3, <1>4

-----------------------------------------------------------------------------
(* Types, in parts.                                                        *)

RangesOK(rs) ==
    /\ rs \subseteq [base : 0 .. Top, len : 1 .. Top, is : {"pending", "owned", "leaving", "lost"}]
    /\ \A r, s \in rs : r # s => Cells(r.base, r.len) \cap Cells(s.base, s.len) = {}
    /\ \A r \in rs : r.base + r.len <= Top
MappingsOK(ms) ==
    /\ ms \subseteq [base : 0 .. Top, len : 1 .. Top, h : Handles, access : BOOLEAN]
    /\ \A m, n \in ms : m # n => Cells(m.base, m.len) \cap Cells(n.base, n.len) = {}
BuffersOK(bf, bx) ==
    /\ bf \in [Buffers -> [open : BOOLEAN, size : Nat]]
    /\ bx \in [Buffers -> [ptr : 0 .. Top, size : Nat, holders : SUBSET Holders]]
    /\ \A b \in Buffers : bf[b].open => "buffer" \in bx[b].holders /\ bx[b].size = bf[b].size
PhysOK(ps) == ps \in [Handles -> [len : Nat, refs : Nat]]

\* The type invariant, by part.
LEMMA TypeParts ==
  TypeOK /\ Bounded <=> /\ RangesOK(reserved) /\ MappingsOK(mapped) /\ PhysOK(phys) /\ BuffersOK(buffer, box)
             /\ kept \in [Handles -> Nat] /\ pc \in [Threads -> Steps]
  BY DEF TypeOK, Bounded, RangesOK, MappingsOK, BuffersOK, PhysOK

\* The same of the next state.
LEMMA TypePartsNext ==
  TypeOK' /\ Bounded' <=> /\ RangesOK(reserved') /\ MappingsOK(mapped') /\ PhysOK(phys') /\ BuffersOK(buffer', box')
              /\ kept' \in [Handles -> Nat] /\ pc' \in [Threads -> Steps]
  BY DEF TypeOK, Bounded, RangesOK, MappingsOK, BuffersOK, PhysOK

\* What the driver does to ranges.
LEMMA Reserved ==
  ASSUME RangesOK(reserved), NEW n \in Int, NEW a \in Reservable(n)
  PROVE  /\ n \in 1 .. Top /\ a \in 0 .. Top
         /\ RangesOK(reserved \cup {[base |-> a, len |-> n, is |-> "pending"]})
<1>1. /\ a \in 0 .. Top /\ n > 0 /\ a + n <= Top
      /\ \A r \in reserved : Cells(r.base, r.len) \cap Cells(a, n) = {}
  BY DEF Reservable
<1>2. n \in 1 .. Top
  BY <1>1, GranIsPositive
<1> DEFINE new == [base |-> a, len |-> n, is |-> "pending"]
<1>3. new \in [base : 0 .. Top, len : 1 .. Top, is : {"pending", "owned", "leaving", "lost"}]
      /\ new.base = a /\ new.len = n
  BY <1>1, <1>2
<1> HIDE DEF new
<1>4. \A r \in reserved : Cells(r.base, r.len) \cap Cells(new.base, new.len) = {}
                           /\ Cells(new.base, new.len) \cap Cells(r.base, r.len) = {}
  BY <1>1, <1>3
<1>5. RangesOK(reserved \cup {new})
  BY <1>1, <1>3, <1>4 DEF RangesOK
<1> QED
  BY <1>1, <1>2, <1>5 DEF new

\* cuMemAddressFree.
LEMMA FreedOK == ASSUME RangesOK(reserved), NEW a, NEW n PROVE RangesOK(Freed(a, n))
  BY DEF RangesOK, Freed

\* Marking moves no reservation.
LEMMA MarkOK ==
  ASSUME RangesOK(reserved), NEW a, NEW w \in {"pending", "owned", "leaving", "lost"} PROVE RangesOK(Mark(a, w))
<1> DEFINE f(r) == IF a = r.base THEN [r EXCEPT !.is = w] ELSE r
<1>1. \A r \in reserved : f(r) \in [base : 0 .. Top, len : 1 .. Top, is : {"pending", "owned", "leaving", "lost"}]
                          /\ f(r).base = r.base /\ f(r).len = r.len
  BY DEF RangesOK
<1>2. Mark(a, w) = {f(r) : r \in reserved}
  BY DEF Mark
<1> HIDE DEF f
<1>3. \A r, s \in reserved : f(r) # f(s) => Cells(f(r).base, f(r).len) \cap Cells(f(s).base, f(s).len) = {}
  BY <1>1 DEF RangesOK
<1>4. \A r \in reserved : r.base + r.len <= Top
  BY DEF RangesOK
<1>5. \A r \in reserved : f(r).base + f(r).len <= Top
  BY <1>1, <1>4
<1>6. RangesOK({f(r) : r \in reserved})
  BY <1>1, <1>3, <1>5 DEF RangesOK
<1> QED
  BY <1>2, <1>6

\* What it does to mappings.
LEMMA MappedOK ==
  ASSUME RangesOK(reserved), MappingsOK(mapped), NEW a \in Nat, NEW n \in Int, NEW h \in Handles, Mappable(a, n, h)
  PROVE  MappingsOK(mapped \cup {Mapping(a, n, h)})
<1>1. PICK r \in reserved : Cells(a, n) \subseteq Cells(r.base, r.len)
  BY DEF Mappable
<1>2. n > 0 /\ r.base \in 0 .. Top /\ r.len \in 1 .. Top
  BY DEF Mappable, RangesOK
<1>3. a \in Cells(a, n) /\ a + n - 1 \in Cells(a, n)
  BY <1>2 DEF Cells
<1>4. r.base <= a /\ a <= r.base + r.len - 1 /\ a + n - 1 <= r.base + r.len - 1
  BY <1>1, <1>2, <1>3 DEF Cells
<1>5. \A m \in mapped : Cells(m.base, m.len) \cap Cells(a, n) = {}
  BY DEF Mappable, Backing
<1>6. Mapping(a, n, h) \in [base : 0 .. Top, len : 1 .. Top, h : Handles, access : BOOLEAN]
  <2>1. r.base + r.len <= Top /\ Top \in Nat
    BY GranIsPositive DEF RangesOK
  <2>2. a \in 0 .. Top /\ n \in 1 .. Top
    BY <1>2, <1>4, <2>1
  <2> QED
    BY <2>2 DEF Mapping
<1>7. Mapping(a, n, h).base = a /\ Mapping(a, n, h).len = n
  BY DEF Mapping
<1> QED
  BY <1>5, <1>6, <1>7 DEF MappingsOK

\* cuMemUnmap.
LEMMA UnmappedOK == ASSUME MappingsOK(mapped), NEW a, NEW n PROVE MappingsOK(Unmapped(a, n))
  BY DEF MappingsOK, Unmapped

\* cuMemSetAccess.
LEMMA AccessOK == ASSUME MappingsOK(mapped), NEW a, NEW n PROVE MappingsOK(WithAccess(a, n))
<1> DEFINE f(m) == IF m \in Inside(a, n) THEN [m EXCEPT !.access = TRUE] ELSE m
<1>1. \A m \in mapped : f(m) \in [base : 0 .. Top, len : 1 .. Top, h : Handles, access : BOOLEAN]
                        /\ f(m).base = m.base /\ f(m).len = m.len
  BY DEF MappingsOK
<1>2. WithAccess(a, n) = {f(m) : m \in mapped}
  BY DEF WithAccess
<1> HIDE DEF f
<1>3. \A m, k \in mapped : f(m) # f(k) => Cells(f(m).base, f(m).len) \cap Cells(f(k).base, f(k).len) = {}
  BY <1>1 DEF MappingsOK
<1>4. MappingsOK({f(m) : m \in mapped})
  BY <1>1, <1>3 DEF MappingsOK
<1> QED
  BY <1>2, <1>4

\* References.
LEMMA RefOK ==
  ASSUME PhysOK(phys), NEW h \in Handles
  PROVE  /\ PhysOK(Ref(h)) /\ (phys[h].refs > 0 => PhysOK(Unref(h)))
         /\ \A x \in Handles : Ref(h)[x].refs = phys[x].refs + In(x, {h})
         /\ \A x \in Handles : Unref(h)[x].refs = phys[x].refs - In(x, {h})
         /\ \A x \in Handles : Ref(h)[x].len = phys[x].len /\ Unref(h)[x].len = phys[x].len
<1>1. phys[h] \in [len : Nat, refs : Nat] /\ phys \in [Handles -> [len : Nat, refs : Nat]]
  BY DEF PhysOK
<1>2. Ref(h)[h] = [len |-> phys[h].len, refs |-> phys[h].refs + 1] /\ Unref(h)[h] = [len |-> phys[h].len, refs |-> phys[h].refs - 1]
  BY <1>1 DEF Ref, Unref
<1>3. \A x \in Handles : x # h => Ref(h)[x] = phys[x] /\ Unref(h)[x] = phys[x]
  BY <1>1 DEF Ref, Unref
<1>4. PhysOK(Ref(h)) /\ (phys[h].refs > 0 => PhysOK(Unref(h)))
  <2>1. DOMAIN Ref(h) = Handles /\ DOMAIN Unref(h) = Handles
    BY <1>1 DEF Ref, Unref
  <2>2. \A x \in Handles : Ref(h)[x] \in [len : Nat, refs : Nat]
    BY <1>1, <1>2, <1>3
  <2>3. phys[h].refs > 0 => \A x \in Handles : Unref(h)[x] \in [len : Nat, refs : Nat]
    BY <1>1, <1>2, <1>3
  <2>4. Ref(h) = [x \in Handles |-> Ref(h)[x]] /\ Unref(h) = [x \in Handles |-> Unref(h)[x]]
    BY <1>1 DEF Ref, Unref
  <2> QED
    BY <2>2, <2>3, <2>4 DEF PhysOK
<1>5. \A x \in Handles : phys[x].refs \in Nat
  BY <1>1
<1> QED
  BY <1>1, <1>2, <1>3, <1>4, <1>5 DEF In

-----------------------------------------------------------------------------
(* One step of one thread, in general.                                     *)

\* What is known of a thread.
LEMMA Known ==
  ASSUME IInv, NEW t \in Threads
  PROVE  /\ RangesOK(reserved) /\ MappingsOK(mapped) /\ PhysOK(phys) /\ BuffersOK(buffer, box)
         /\ kept \in [Handles -> Nat] /\ pc \in [Threads -> Steps]
         /\ call \in [Threads -> Calls] /\ undo \in [Threads -> Seq(Entries)]
         /\ call[t] \in Calls /\ undo[t] \in Seq(Entries) /\ pc[t] \in Steps
         /\ StepOK(pc[t], call[t], Len(undo[t])) /\ CallOK(pc[t], call[t], Len(undo[t]))
         /\ ListOK(undo[t], Plan(call[t], OldPtr(t)), Len(undo[t]))
         /\ call[t].op = "grow" /\ Works(pc[t]) => buffer[call[t].b].open
         /\ Len(undo[t]) \in Nat
<1>1. WorkOK(t) /\ call[t] \in Calls /\ undo[t] \in Seq(Entries) /\ call \in [Threads -> Calls] /\ undo \in [Threads -> Seq(Entries)]
  BY DEF IInv, Work
<1>2. Len(undo[t]) \in Nat
  BY <1>1
<1>3. pc[t] \in Steps /\ pc \in [Threads -> Steps]
  BY TypeParts DEF IInv
<1> QED
  BY <1>1, <1>2, <1>3, TypeParts DEF IInv, WorkOK, Fits, OldPtr

\* The invariant after thread t has gone to step p with call c and
\* transaction s.
LEMMA Step ==
  ASSUME IInv, NEW t \in Threads, NEW p \in Steps, NEW c \in Calls, NEW s \in Seq(Entries),
         pc' = [pc EXCEPT ![t] = p], call' = [call EXCEPT ![t] = c], undo' = [undo EXCEPT ![t] = s],
         RangesOK(reserved'), MappingsOK(mapped'), PhysOK(phys'), BuffersOK(buffer', box'), kept' \in [Handles -> Nat],
         Spares(t), Fits(p, c, s, box'[c.b].ptr, buffer'[c.b].open),
         \A u \in Threads \ {t} : {c.b, c.to} \cap {call[u].b, call[u].to} \subseteq {None},
         Balanced(t, p, c, Len(s))
  PROVE  IInv'
<1>1. /\ pc \in [Threads -> Steps] /\ call \in [Threads -> Calls] /\ undo \in [Threads -> Seq(Entries)]
  BY Known
<1>2. /\ Goes(t, p, c, s) /\ pc' \in [Threads -> Steps] /\ call' \in [Threads -> Calls] /\ undo' \in [Threads -> Seq(Entries)]
  BY <1>1 DEF Goes
<1>3. TypeOK' /\ Bounded'
  BY <1>2, TypePartsNext
<1>4. Work'
  BY <1>2, GoesWork DEF IInv
<1>5. \A h \in Handles : phys'[h].refs \in Int /\ kept'[h] \in Int
  BY DEF PhysOK
<1>6. Counted'
  BY <1>2, <1>5, CountMoves DEF IInv
<1> QED
  BY <1>3, <1>4, <1>6 DEF IInv

\* A thread that works for no buffer but those it worked for.
LEMMA Aparts ==
  ASSUME IInv, NEW t \in Threads, NEW c, {c.b, c.to} \subseteq {call[t].b, call[t].to, None}
  PROVE  \A u \in Threads \ {t} : {c.b, c.to} \cap {call[u].b, call[u].to} \subseteq {None}
  BY DEF IInv, Work, Apart

\* The same by step: where a step can be, and how much it has registered.
Table(p, c, k) ==
    /\ p = "idle" => c = Idle /\ k = 0
    /\ p \in {"probe", "probe_free", "free_old", "clear", "return"} => c.op = "grow" /\ k = 0
    /\ p = "reserve" => (c.op = "grow" /\ k = 0) \/ (c.op = "allocate" /\ k = 1)
    /\ p = "retain" => c.op = "grow" /\ k = 1
    /\ p = "unmap_old" => c.op = "grow" /\ k = 2
    /\ p = "map_old" => c.op = "grow" /\ k = 3
    /\ p = "create" => (c.op = "grow" /\ k = 4) \/ (c.op = "allocate" /\ k = 0)
    /\ p = "map" => (c.op = "grow" /\ k = 5) \/ (c.op = "allocate" /\ k = 2)
    /\ p = "access" => (c.op = "grow" /\ k = 6) \/ (c.op = "allocate" /\ k = 3)
    /\ p = "rollback" => (c.op = "grow" /\ k \in 0 .. 6) \/ (c.op = "allocate" /\ k \in 0 .. 3)
    /\ p \in Deallocation => c.op \in {"grow", "close"} /\ k = 0

\* The table follows from StepOK.
LEMMA AtStep == ASSUME NEW p, NEW c, NEW k, StepOK(p, c, k) PROVE Table(p, c, k)
<1>1. p = "idle" => c = Idle /\ k = 0
  BY DEF StepOK, GrowDepth, AllocateDepth, Deallocation
<1>2. p \in {"probe", "probe_free", "free_old", "clear", "return"} => c.op = "grow" /\ k = 0
  BY DEF StepOK, GrowDepth, AllocateDepth, Deallocation
<1>3. p = "reserve" => (c.op = "grow" /\ k = 0) \/ (c.op = "allocate" /\ k = 1)
  BY DEF StepOK, GrowDepth, AllocateDepth, Deallocation
<1>4. /\ p = "retain" => c.op = "grow" /\ k = 1
      /\ p = "unmap_old" => c.op = "grow" /\ k = 2
      /\ p = "map_old" => c.op = "grow" /\ k = 3
  BY DEF StepOK, GrowDepth, AllocateDepth, Deallocation
<1>5. p = "create" => (c.op = "grow" /\ k = 4) \/ (c.op = "allocate" /\ k = 0)
  BY DEF StepOK, GrowDepth, AllocateDepth, Deallocation
<1>6. p = "map" => (c.op = "grow" /\ k = 5) \/ (c.op = "allocate" /\ k = 2)
  BY DEF StepOK, GrowDepth, AllocateDepth, Deallocation
<1>7. p = "access" => (c.op = "grow" /\ k = 6) \/ (c.op = "allocate" /\ k = 3)
  BY DEF StepOK, GrowDepth, AllocateDepth, Deallocation
<1>8. p = "rollback" => (c.op = "grow" /\ k \in 0 .. 6) \/ (c.op = "allocate" /\ k \in 0 .. 3)
  BY DEF StepOK, GrowDepth, AllocateDepth, Deallocation
<1>9. p \in Deallocation => c.op \in {"grow", "close"} /\ k = 0
  BY DEF StepOK, GrowDepth, AllocateDepth, Deallocation
<1> QED
  BY <1>1, <1>2, <1>3, <1>4, <1>5, <1>6, <1>7, <1>8, <1>9 DEF Table

\* A thread is where the table says.
LEMMA Located == ASSUME IInv, NEW t \in Threads PROVE Table(pc[t], call[t], Len(undo[t]))
  BY Known, AtStep

\* Leaves what Python sees alone.
LEMMA SparesAll == ASSUME NEW t \in Threads, UNCHANGED python PROVE Spares(t)
  BY DEF Spares, python

\* Any step that does not count references.
LEMMA StepUncounted ==
  ASSUME IInv, NEW t \in Threads, NEW p \in Steps, NEW c \in Calls, NEW s \in Seq(Entries),
         pc' = [pc EXCEPT ![t] = p], call' = [call EXCEPT ![t] = c], undo' = [undo EXCEPT ![t] = s],
         RangesOK(reserved'), MappingsOK(mapped'), UNCHANGED <<phys, kept>>, BuffersOK(buffer', box'),
         Spares(t), Fits(p, c, s, box'[c.b].ptr, buffer'[c.b].open),
         \A u \in Threads \ {t} : {c.b, c.to} \cap {call[u].b, call[u].to} \subseteq {None},
         Taken(c, Len(s)) = Taken(call[t], Len(undo[t])),
         InHand(p, c) = InHand(pc[t], call[t])
  PROVE  IInv'
<1>1. PhysOK(phys') /\ kept' \in [Handles -> Nat] /\ PhysOK(phys)
  BY Known
<1>2. Balanced(t, p, c, Len(s))
  <2>1. \A h : Owed(pc[t], call[t], Len(undo[t]), h) = Owed(p, c, Len(s), h)
    BY DEF Owed
  <2> QED
    BY <2>1 DEF Balanced
<1> QED
  BY <1>1, <1>2, Step

-----------------------------------------------------------------------------
(* Steps inside the transaction.                                           *)

Transaction == {"reserve", "retain", "unmap_old", "map_old", "create", "map", "access"}

\* Writing back what is there changes nothing.
LEMMA Same ==
  ASSUME IInv, NEW t \in Threads
  PROVE  call = [call EXCEPT ![t] = call[t]] /\ undo = [undo EXCEPT ![t] = undo[t]] /\ pc = [pc EXCEPT ![t] = pc[t]]
  BY Known

\* A call in the transaction fails.
LEMMA Raises ==
  ASSUME IInv, NEW t \in Threads, pc[t] \in Transaction, Raise(t), UNCHANGED undo
  PROVE  IInv'
<1> DEFINE c == call[t]  s == undo[t]
<1>1. /\ c \in Calls /\ s \in Seq(Entries) /\ StepOK(pc[t], c, Len(s)) /\ CallOK(pc[t], c, Len(s))
      /\ ListOK(s, Plan(c, OldPtr(t)), Len(s))
      /\ c.op = "grow" /\ Works(pc[t]) => buffer[c.b].open
      /\ RangesOK(reserved) /\ MappingsOK(mapped) /\ BuffersOK(buffer, box)
  BY Known
<1>2. /\ pc' = [pc EXCEPT ![t] = "rollback"] /\ call' = [call EXCEPT ![t] = c] /\ undo' = [undo EXCEPT ![t] = s]
      /\ UNCHANGED <<reserved, mapped, phys, kept, buffer, box>> /\ UNCHANGED python
  BY Same DEF Raise, Goto, driver, python
<1>3. /\ \/ c.op = "grow" /\ Len(s) \in 0 .. 6
         \/ c.op = "allocate" /\ Len(s) \in 0 .. 3
      /\ pc[t] \notin Freeing /\ Works(pc[t])
  BY Located DEF Table, Transaction, Freeing, Works, Deallocation
<1>4. StepOK("rollback", c, Len(s)) /\ CallOK("rollback", c, Len(s))
  BY <1>1, <1>3 DEF StepOK, CallOK, GrowDepth, AllocateDepth
<1>5. Fits("rollback", c, s, box'[c.b].ptr, buffer'[c.b].open)
  <2>1. box'[c.b].ptr = OldPtr(t) /\ buffer'[c.b].open = buffer[c.b].open
    BY <1>2 DEF OldPtr
  <2>2. c.op = "grow" => buffer[c.b].open
    BY <1>1, <1>3
  <2> HIDE DEF c, s
  <2> QED
    BY <1>1, <1>4, <2>1, <2>2 DEF Fits
<1>6. Spares(t) /\ "rollback" \in Steps /\ "rollback" \notin Freeing
  BY <1>2, SparesAll DEF Steps, Freeing
<1>7. \A u \in Threads \ {t} : {c.b, c.to} \cap {call[u].b, call[u].to} \subseteq {None}
  BY Aparts
<1> HIDE DEF c, s
<1>8. c = call[t] /\ s = undo[t]
  BY DEF c, s
<1>9. Taken(c, Len(s)) = Taken(call[t], Len(undo[t])) /\ InHand("rollback", c) = InHand(pc[t], call[t])
  BY <1>3, <1>6, <1>8 DEF InHand
<1> QED
  BY <1>1, <1>2, <1>3, <1>5, <1>6, <1>7, <1>9, StepUncounted

\* Entry e is the next one of the plan for call c, which thread t goes to
\* step p with; and the references it takes.
Extends(t, p, c, e) ==
    LET k == Len(undo[t]) plan == Plan(c, OldPtr(t)) IN
    /\ c.op = call[t].op /\ c.b = call[t].b /\ c.to = call[t].to
    /\ k + 1 <= Len(plan) /\ plan[k + 1] = e
    /\ \A i \in 1 .. k : plan[i] = Plan(call[t], OldPtr(t))[i]
    /\ StepOK(p, c, k + 1) /\ CallOK(p, c, k + 1)
Takes(t, c) ==
    LET k == Len(undo[t]) IN
    \A h \in Handles : phys'[h].refs + In(h, Taken(call[t], k)) = phys[h].refs + In(h, Taken(c, k + 1))

\* A call in the transaction succeeds and registers its undo.
LEMMA Registers ==
  ASSUME IInv, NEW t \in Threads, NEW p \in Steps, NEW c \in Calls, NEW e \in Entries,
         pc' = [pc EXCEPT ![t] = p], call' = [call EXCEPT ![t] = c], undo' = [undo EXCEPT ![t] = <<e>> \o @],
         UNCHANGED python, UNCHANGED kept,
         pc[t] \in Transaction, p \notin Freeing,
         Extends(t, p, c, e), Takes(t, c),
         RangesOK(reserved'), MappingsOK(mapped'), PhysOK(phys')
  PROVE  IInv'
<1> DEFINE k == Len(undo[t])  plan == Plan(c, OldPtr(t))
<1>0. /\ c.op = call[t].op /\ c.b = call[t].b /\ c.to = call[t].to
      /\ k + 1 <= Len(plan) /\ plan[k + 1] = e
      /\ \A i \in 1 .. k : plan[i] = Plan(call[t], OldPtr(t))[i]
      /\ StepOK(p, c, k + 1) /\ CallOK(p, c, k + 1)
      /\ \A h \in Handles : phys'[h].refs + In(h, Taken(call[t], k)) = phys[h].refs + In(h, Taken(c, k + 1))
  BY DEF Extends, Takes
<1>00. k = Len(undo[t]) /\ plan = Plan(c, OldPtr(t))
  OBVIOUS
<1> HIDE DEF k, plan
<1> DEFINE s == <<e>> \o undo[t]
<1>1. /\ undo[t] \in Seq(Entries) /\ ListOK(undo[t], Plan(call[t], OldPtr(t)), k) /\ k \in Nat
      /\ call[t].op = "grow" /\ Works(pc[t]) => buffer[call[t].b].open
      /\ BuffersOK(buffer, box) /\ kept \in [Handles -> Nat] /\ PhysOK(phys)
  BY <1>00, Known
<1>2. Len(plan) = Len(Plan(call[t], OldPtr(t))) /\ Len(plan) \in Nat
  BY <1>0, <1>00, GrowPlan, AllocatePlan
<1>3. s \in Seq(Entries) /\ Len(s) = k + 1 /\ ListOK(s, plan, k + 1)
  <2>1. undo[t] \in Seq(Entries) /\ ListOK(undo[t], Plan(call[t], OldPtr(t)), Len(undo[t]))
    BY <1>00, <1>1
  <2>2. /\ Len(Plan(call[t], OldPtr(t))) \in Nat /\ Len(undo[t]) + 1 <= Len(Plan(call[t], OldPtr(t)))
        /\ \A i \in 1 .. Len(undo[t]) : plan[i] = Plan(call[t], OldPtr(t))[i]
        /\ plan[Len(undo[t]) + 1] = e
    BY <1>0, <1>00, <1>2
  <2>3. /\ <<e>> \o undo[t] \in Seq(Entries) /\ Len(<<e>> \o undo[t]) = Len(undo[t]) + 1
        /\ ListOK(<<e>> \o undo[t], plan, Len(undo[t]) + 1)
    BY <1>2, <2>1, <2>2, Pushed
  <2> QED
    BY <1>00, <2>3
<1>4. pc[t] \notin Freeing /\ Works(pc[t])
  BY DEF Transaction, Freeing, Works, Deallocation
<1>5. UNCHANGED <<buffer, box>>
  BY DEF python
<1>6. Fits(p, c, s, box'[c.b].ptr, buffer'[c.b].open)
  BY <1>0, <1>00, <1>1, <1>3, <1>4, <1>5 DEF Fits, OldPtr
<1>7. Spares(t)
  BY SparesAll
<1>8. \A u \in Threads \ {t} : {c.b, c.to} \cap {call[u].b, call[u].to} \subseteq {None}
  BY <1>0, Aparts
<1>9. undo' = [undo EXCEPT ![t] = s]
  OBVIOUS
<1> HIDE DEF s
<1>10. Balanced(t, p, c, Len(s))
  <2> SUFFICES ASSUME NEW h \in Handles
               PROVE  phys'[h].refs + kept[h] + Owed(pc[t], call[t], Len(undo[t]), h)
                      = phys[h].refs + kept'[h] + Owed(p, c, Len(s), h)
    BY DEF Balanced
  <2>1. InHand(pc[t], call[t]) = {} /\ InHand(p, c) = {}
    BY <1>4 DEF InHand
  <2>2. PICK x, y \in Int : x = In(h, Taken(call[t], k)) /\ y = In(h, Taken(c, k + 1))
    BY DEF In
  <2>3. Owed(pc[t], call[t], Len(undo[t]), h) = x /\ Owed(p, c, Len(s), h) = y
    BY <1>00, <1>3, <2>1, <2>2 DEF Owed, In
  <2>4. phys'[h].refs \in Int /\ phys[h].refs \in Int /\ kept[h] \in Int /\ kept'[h] = kept[h]
    BY <1>1 DEF PhysOK
  <2>5. phys'[h].refs + x = phys[h].refs + y
    <3>1. phys'[h].refs + In(h, Taken(call[t], k)) = phys[h].refs + In(h, Taken(c, k + 1))
      BY <1>0
    <3>2. In(h, Taken(call[t], k)) = x /\ In(h, Taken(c, k + 1)) = y
      BY <2>2
    <3> QED
      BY <3>1, <3>2
  <2>6. x \in Int /\ y \in Int
    OBVIOUS
  <2>7. phys'[h].refs + kept[h] + x = phys[h].refs + kept'[h] + y
    BY <2>4, <2>5, <2>6
  <2> QED
    BY <2>3, <2>7
<1>11. BuffersOK(buffer', box') /\ kept' \in [Handles -> Nat]
  BY <1>1, <1>5
<1> QED
  BY <1>3, <1>6, <1>7, <1>8, <1>9, <1>10, <1>11, Step

\* What a call record holds after one field of it is set.
LEMMA SetPtr ==
  ASSUME NEW c \in Calls, NEW v \in 0 .. Top
  PROVE  LET d == [c EXCEPT !.ptr = v] IN
         /\ d \in Calls /\ d.ptr = v
         /\ d.op = c.op /\ d.b = c.b /\ d.to = c.to /\ d.new = c.new /\ d.prev = c.prev /\ d.h = c.h /\ d.old = c.old /\ d.dh = c.dh
  BY DEF Calls

\* The old memory.
LEMMA SetOld ==
  ASSUME NEW c \in Calls, NEW v \in Handles
  PROVE  LET d == [c EXCEPT !.old = v] IN
         /\ d \in Calls /\ d.old = v
         /\ d.op = c.op /\ d.b = c.b /\ d.to = c.to /\ d.new = c.new /\ d.prev = c.prev /\ d.h = c.h /\ d.ptr = c.ptr /\ d.dh = c.dh
  BY DEF Calls

\* The new memory.
LEMMA SetH ==
  ASSUME NEW c \in Calls, NEW v \in Handles
  PROVE  LET d == [c EXCEPT !.h = v] IN
         /\ d \in Calls /\ d.h = v
         /\ d.op = c.op /\ d.b = c.b /\ d.to = c.to /\ d.new = c.new /\ d.prev = c.prev /\ d.old = c.old /\ d.ptr = c.ptr /\ d.dh = c.dh
  BY DEF Calls

\* The memory a deallocation has retained.
LEMMA SetDh ==
  ASSUME NEW c \in Calls, NEW v \in Handles
  PROVE  LET d == [c EXCEPT !.dh = v] IN
         /\ d \in Calls /\ d.dh = v
         /\ d.op = c.op /\ d.b = c.b /\ d.to = c.to /\ d.new = c.new /\ d.prev = c.prev /\ d.old = c.old /\ d.ptr = c.ptr /\ d.h = c.h
  BY DEF Calls

\* cuMemAddressReserve: an allocation or a growth has its range.
LEMMA ReserveKeeps == ASSUME IInv, NEW t \in Threads, Reserve(t) PROVE IInv'
<1>1. /\ call[t] \in Calls /\ CallOK(pc[t], call[t], Len(undo[t])) /\ RangesOK(reserved) /\ MappingsOK(mapped) /\ PhysOK(phys)
      /\ pc[t] = "reserve" /\ pc[t] \in Transaction /\ Len(undo[t]) \in Nat
  BY Known DEF Reserve, Transaction
<1>2. (call[t].op = "grow" /\ Len(undo[t]) = 0) \/ (call[t].op = "allocate" /\ Len(undo[t]) = 1)
  BY <1>1, Located DEF Table
<1>3. CASE Raise(t) /\ UNCHANGED undo
  BY <1>1, <1>3, Raises
<1>4. ASSUME NEW a \in Reservable(Total(t)),
             reserved' = reserved \cup {[base |-> a, len |-> Total(t), is |-> "pending"]},
             call' = [call EXCEPT ![t].ptr = a], Register(t, "free", a, Total(t), None),
             Goto(t, IF Growing(t) THEN "retain" ELSE "map"),
             UNCHANGED <<mapped, phys, python, kept, ops, faults>>
      PROVE  IInv'
  <2> DEFINE c == [call[t] EXCEPT !.ptr = a]
             e == Undo("free", a, Total(t), None)
             k == Len(undo[t])
             p == IF Growing(t) THEN "retain" ELSE "map"
             plan == Plan(c, OldPtr(t))
  <2>1. /\ Total(t) \in Nat /\ Total(t) \in Int /\ Total(t) = Granules(call[t].new)
    BY <1>1, GranulesNat DEF Total, Calls
  <2>2. a \in 0 .. Top /\ a \in Nat /\ RangesOK(reserved')
    <3>1. a \in 0 .. Top /\ RangesOK(reserved \cup {[base |-> a, len |-> Total(t), is |-> "pending"]})
      BY <1>1, <2>1, Reserved
    <3>2. a \in Nat
      BY <3>1, GranIsPositive
    <3> QED
      BY <1>4, <3>1, <3>2
  <2>3. /\ c \in Calls /\ c.ptr = a
        /\ c.op = call[t].op /\ c.b = call[t].b /\ c.to = call[t].to /\ c.new = call[t].new /\ c.prev = call[t].prev
        /\ c.h = call[t].h /\ c.old = call[t].old
    BY <1>1, <2>2, SetPtr
  <2>4. e \in Entries
    BY <2>1, <2>2 DEF Entries, Undo
  <2>5. pc' = [pc EXCEPT ![t] = p] /\ call' = [call EXCEPT ![t] = c] /\ undo' = [undo EXCEPT ![t] = <<e>> \o @]
    BY <1>4 DEF Goto, Register, Undo
  <2>6. p \in Steps /\ p \notin Freeing
    BY DEF Steps, Freeing
  <2>7. UNCHANGED python /\ UNCHANGED kept /\ PhysOK(phys') /\ MappingsOK(mapped')
    BY <1>1, <1>4
  <2>8. Extends(t, p, c, e) /\ Taken(c, k + 1) = Taken(call[t], k)
    <3> HIDE DEF c, e
    <3> e = Undo("free", a, Total(t), None)
      BY DEF e
    <3>1. CASE call[t].op = "grow" /\ k = 0
      <4>1. p = "retain"
        BY <3>1 DEF Growing
      <4> QED
        BY <1>1, <2>1, <2>3, <3>1, <4>1, GrowPlan DEF StepOK, GrowDepth, CallOK, Taken, Freeing, Extends
    <3>2. CASE call[t].op = "allocate" /\ k = 1
      <4>1. p = "map"
        BY <3>2 DEF Growing
      <4> QED
        BY <1>1, <2>1, <2>3, <3>2, <4>1, AllocatePlan DEF StepOK, AllocateDepth, CallOK, Taken, Freeing, Extends
    <3> QED
      BY <1>2, <3>1, <3>2
  <2>9. Takes(t, c)
    BY <1>4, <2>8 DEF Takes
  <2> HIDE DEF c, e, p, k, plan
  <2> QED
    BY <1>1, <2>2, <2>3, <2>4, <2>5, <2>6, <2>7, <2>8, <2>9, Registers
<1> QED
  BY <1>3, <1>4 DEF Reserve

\* The sizes that a call in the transaction works with.
LEMMA Sized ==
  ASSUME IInv, NEW t \in Threads, call[t].op \in {"grow", "allocate"}
  PROVE  /\ call[t].new \in Nat /\ call[t].prev \in Nat /\ call[t].ptr \in Nat
         /\ Total(t) = Granules(call[t].new) /\ Total(t) \in Nat
         /\ call[t].prev <= Total(t) /\ Chunk(t) = Total(t) - call[t].prev /\ Chunk(t) \in Nat
         /\ call[t].op = "grow" => call[t].b \in Buffers /\ OldPtr(t) \in Nat
<1>1. call[t] \in Calls /\ CallOK(pc[t], call[t], Len(undo[t])) /\ BuffersOK(buffer, box)
  BY Known
<1>2. call[t].new \in Nat /\ call[t].prev \in Nat /\ call[t].ptr \in 0 .. Top
  BY <1>1 DEF Calls
<1>3. Total(t) = Granules(call[t].new) /\ Total(t) \in Nat
  BY <1>2, GranulesNat DEF Total
<1>4. call[t].prev <= Total(t)
  BY <1>1, <1>2, <1>3 DEF CallOK
<1>5. ASSUME call[t].op = "grow" PROVE call[t].b \in Buffers /\ OldPtr(t) \in 0 .. Top
  BY <1>1, <1>5 DEF CallOK, BuffersOK, OldPtr
<1>6. \A x \in 0 .. Top : x \in Nat
  BY GranIsPositive
<1> QED
  BY <1>2, <1>3, <1>4, <1>5, <1>6 DEF Chunk

\* What the transaction takes, entry by entry.
LEMMA TakenTable ==
  ASSUME NEW c
  PROVE  /\ c.op = "grow" => /\ Taken(c, 0) = {} /\ Taken(c, 1) = {} /\ Taken(c, 2) = {c.old} /\ Taken(c, 3) = {c.old}
                             /\ Taken(c, 4) = {c.old} /\ Taken(c, 5) = {c.old, c.h} /\ Taken(c, 6) = {c.old, c.h}
         /\ c.op = "allocate" => /\ Taken(c, 0) = {} /\ Taken(c, 1) = {c.h} /\ Taken(c, 2) = {c.h} /\ Taken(c, 3) = {c.h}
         /\ c.op \notin {"grow", "allocate"} => \A k : Taken(c, k) = {}
<1>1. c.op = "grow" => /\ Taken(c, 0) = {} /\ Taken(c, 1) = {} /\ Taken(c, 2) = {c.old} /\ Taken(c, 3) = {c.old}
                       /\ Taken(c, 4) = {c.old}
  BY DEF Taken
<1>2. c.op = "grow" => Taken(c, 5) = {c.old, c.h} /\ Taken(c, 6) = {c.old, c.h}
  BY DEF Taken
<1>3. c.op = "allocate" => /\ Taken(c, 0) = {} /\ Taken(c, 1) = {c.h} /\ Taken(c, 2) = {c.h} /\ Taken(c, 3) = {c.h}
  BY DEF Taken
<1>4. c.op \notin {"grow", "allocate"} => \A k : Taken(c, k) = {}
  BY DEF Taken
<1> QED
  BY <1>1, <1>2, <1>3, <1>4

\* The references to h are among those that the thread takes.
LEMMA Backed1 == ASSUME IInv, NEW a, NEW m \in Backing(a) PROVE m \in mapped /\ m.h \in Handles
  BY TypeParts DEF IInv, Backing, MappingsOK

\* cuMemRetainAllocationHandle: a growth takes a reference to the old memory.
LEMMA RetainKeeps == ASSUME IInv, NEW t \in Threads, Retain(t) PROVE IInv'
<1>1. /\ call[t] \in Calls /\ CallOK(pc[t], call[t], Len(undo[t])) /\ RangesOK(reserved) /\ MappingsOK(mapped) /\ PhysOK(phys)
      /\ pc[t] = "retain" /\ pc[t] \in Transaction
  BY Known DEF Retain, Transaction
<1>2. call[t].op = "grow" /\ Len(undo[t]) = 1
  BY <1>1, Located DEF Table
<1>3. CASE Raise(t) /\ UNCHANGED undo
  BY <1>1, <1>3, Raises
<1>4. ASSUME NEW m \in OldBacking(t), phys' = Ref(m.h), call' = [call EXCEPT ![t].old = m.h],
             Register(t, "release", 0, 0, m.h), Goto(t, "unmap_old"),
             UNCHANGED <<reserved, mapped, python, kept, ops, faults>>
      PROVE  IInv'
  <2> DEFINE h == m.h
             c == [call[t] EXCEPT !.old = h]
             e == Undo("release", 0, 0, h)
  <2>1. h \in Handles
    BY <1>4, Backed1 DEF OldBacking
  <2>2. /\ c \in Calls /\ c.old = h
        /\ c.op = call[t].op /\ c.b = call[t].b /\ c.to = call[t].to /\ c.new = call[t].new /\ c.prev = call[t].prev
        /\ c.ptr = call[t].ptr
    BY <1>1, <2>1, SetOld
  <2>3. e \in Entries
    BY <2>1 DEF Entries, Undo
  <2>4. pc' = [pc EXCEPT ![t] = "unmap_old"] /\ call' = [call EXCEPT ![t] = c] /\ undo' = [undo EXCEPT ![t] = <<e>> \o @]
    BY <1>4 DEF Goto, Register, Undo
  <2> e = Undo("release", 0, 0, h) /\ phys' = Ref(h)
    BY <1>4
  <2> HIDE DEF h, c, e
  <2>5. UNCHANGED python /\ UNCHANGED kept /\ PhysOK(phys') /\ MappingsOK(mapped') /\ RangesOK(reserved')
    <3>1. PhysOK(Ref(h))
      BY <1>1, <2>1, RefOK
    <3>2. phys' = Ref(h)
      OBVIOUS
    <3> QED
      BY <1>1, <1>4, <3>1, <3>2
  <2>6. \A x \in Handles : phys'[x].refs = phys[x].refs + In(x, {h}) /\ phys[x].refs \in Int
    <3>1. \A x \in Handles : Ref(h)[x].refs = phys[x].refs + In(x, {h})
      BY <1>1, <2>1, RefOK
    <3>2. \A x \in Handles : phys[x].refs \in Int
      BY <1>1 DEF PhysOK
    <3>3. phys' = Ref(h)
      OBVIOUS
    <3> QED
      BY <3>1, <3>2, <3>3
  <2>7. Extends(t, "unmap_old", c, e)
    BY <1>1, <1>2, <2>1, <2>2, GrowPlan DEF StepOK, GrowDepth, CallOK, Freeing, Extends
  <2>8. Taken(call[t], 1) = {} /\ Taken(c, 1 + 1) = {h}
    BY <1>2, <2>2 DEF Taken
  <2>9. \A x : In(x, {}) = 0 /\ In(x, {h}) \in Int
    BY DEF In
  <2>10. Takes(t, c)
    <3> SUFFICES ASSUME NEW x \in Handles PROVE phys'[x].refs + In(x, {}) = phys[x].refs + In(x, {h})
      BY <1>2, <2>8 DEF Takes
    <3> QED
      BY <2>6, <2>9
  <2> QED
    BY <1>1, <2>2, <2>3, <2>4, <2>5, <2>7, <2>10, Registers DEF Steps, Freeing
<1> QED
  BY <1>3, <1>4 DEF Retain

\* cuMemUnmap of the old range.
LEMMA UnmapOldKeeps == ASSUME IInv, NEW t \in Threads, UnmapOld(t) PROVE IInv'
<1>1. /\ call[t] \in Calls /\ CallOK(pc[t], call[t], Len(undo[t])) /\ RangesOK(reserved) /\ MappingsOK(mapped) /\ PhysOK(phys)
      /\ pc[t] = "unmap_old" /\ pc[t] \in Transaction
  BY Known DEF UnmapOld, Transaction
<1>2. call[t].op = "grow" /\ Len(undo[t]) = 2
  BY <1>1, Located DEF Table
<1>3. CASE Raise(t) /\ UNCHANGED undo
  BY <1>1, <1>3, Raises
<1>4. CASE /\ mapped' = Unmapped(OldPtr(t), call[t].prev) /\ reserved' = Mark(OldPtr(t), "leaving")
           /\ Register(t, "remap", OldPtr(t), call[t].prev, call[t].old) /\ Goto(t, "map_old")
           /\ UNCHANGED <<phys, python, kept, call, ops, faults>>
  <2> DEFINE c == call[t]
             e == Undo("remap", OldPtr(t), c.prev, c.old)
  <2>1. c.old \in Handles /\ c.prev \in Nat /\ OldPtr(t) \in Nat
    BY <1>1, <1>2, Sized DEF CallOK
  <2>2. e \in Entries
    BY <2>1 DEF Entries, Undo
  <2>3. pc' = [pc EXCEPT ![t] = "map_old"] /\ call' = [call EXCEPT ![t] = c] /\ undo' = [undo EXCEPT ![t] = <<e>> \o @]
    BY <1>4, Same DEF Goto, Register, Undo
  <2>4. UNCHANGED python /\ UNCHANGED kept /\ PhysOK(phys') /\ MappingsOK(mapped') /\ RangesOK(reserved')
    BY <1>1, <1>4, UnmappedOK, MarkOK
  <2>5. Extends(t, "map_old", c, e)
    BY <1>1, <1>2, GrowPlan DEF StepOK, GrowDepth, CallOK, Freeing, Extends
  <2>6. Taken(c, 2) = Taken(c, 2 + 1)
    BY <1>2 DEF Taken
  <2>7. Takes(t, c)
    BY <1>2, <1>4, <2>6 DEF Takes
  <2> HIDE DEF e
  <2> QED
    BY <1>1, <2>2, <2>3, <2>4, <2>5, <2>7, Registers DEF Steps, Freeing
<1> QED
  BY <1>1, <1>3, <1>4 DEF UnmapOld

\* cuMemMap of the old memory at the new range.
LEMMA MapOldKeeps == ASSUME IInv, NEW t \in Threads, MapOld(t) PROVE IInv'
<1>1. /\ call[t] \in Calls /\ CallOK(pc[t], call[t], Len(undo[t])) /\ RangesOK(reserved) /\ MappingsOK(mapped) /\ PhysOK(phys)
      /\ pc[t] = "map_old" /\ pc[t] \in Transaction
  BY Known DEF MapOld, Transaction
<1>2. call[t].op = "grow" /\ Len(undo[t]) = 3
  BY <1>1, Located DEF Table
<1>3. CASE Raise(t) /\ UNCHANGED undo
  BY <1>1, <1>3, Raises
<1>4. CASE /\ Mappable(call[t].ptr, call[t].prev, call[t].old)
           /\ mapped' = mapped \cup {Mapping(call[t].ptr, call[t].prev, call[t].old)}
           /\ Register(t, "unmap", call[t].ptr, call[t].prev, None) /\ Goto(t, "create")
           /\ UNCHANGED <<reserved, phys, python, kept, call, ops, faults>>
  <2> DEFINE c == call[t]
             e == Undo("unmap", c.ptr, c.prev, None)
  <2>1. c.old \in Handles /\ c.prev \in Nat /\ c.ptr \in Nat
    BY <1>1, <1>2, Sized DEF CallOK
  <2>2. e \in Entries
    BY <2>1 DEF Entries, Undo
  <2>3. pc' = [pc EXCEPT ![t] = "create"] /\ call' = [call EXCEPT ![t] = c] /\ undo' = [undo EXCEPT ![t] = <<e>> \o @]
    BY <1>4, Same DEF Goto, Register, Undo
  <2>4. UNCHANGED python /\ UNCHANGED kept /\ PhysOK(phys') /\ MappingsOK(mapped') /\ RangesOK(reserved')
    BY <1>1, <1>4, <2>1, MappedOK
  <2>5. Extends(t, "create", c, e)
    BY <1>1, <1>2, GrowPlan DEF StepOK, GrowDepth, CallOK, Freeing, Extends
  <2>6. Taken(c, 3) = Taken(c, 3 + 1)
    BY <1>2 DEF Taken
  <2>7. Takes(t, c)
    BY <1>2, <1>4, <2>6 DEF Takes
  <2> HIDE DEF e
  <2> QED
    BY <1>1, <2>2, <2>3, <2>4, <2>5, <2>7, Registers DEF Steps, Freeing
<1> QED
  BY <1>1, <1>3, <1>4 DEF MapOld

\* cuMemCreate: memory with one reference, the transaction's.
LEMMA CreateKeeps == ASSUME IInv, NEW t \in Threads, Create(t) PROVE IInv'
<1>1. /\ call[t] \in Calls /\ CallOK(pc[t], call[t], Len(undo[t])) /\ RangesOK(reserved) /\ MappingsOK(mapped) /\ PhysOK(phys)
      /\ pc[t] = "create" /\ pc[t] \in Transaction
  BY Known DEF Create, Transaction
<1>2. (call[t].op = "grow" /\ Len(undo[t]) = 4) \/ (call[t].op = "allocate" /\ Len(undo[t]) = 0)
  BY <1>1, Located DEF Table
<1>3. CASE Raise(t) /\ UNCHANGED undo
  BY <1>1, <1>3, Raises
<1>4. ASSUME NEW h \in Handles, Unused(h), phys' = [phys EXCEPT ![h] = [len |-> Chunk(t), refs |-> 1]],
             call' = [call EXCEPT ![t].h = h], Register(t, "release", 0, 0, h),
             Goto(t, IF Growing(t) THEN "map" ELSE "reserve"),
             UNCHANGED <<reserved, mapped, python, kept, ops, faults>>
      PROVE  IInv'
  <2> DEFINE c == [call[t] EXCEPT !.h = h]
             e == Undo("release", 0, 0, h)
             p == IF Growing(t) THEN "map" ELSE "reserve"
  <2>1. Chunk(t) \in Nat
    BY <1>2, Sized
  <2>2. /\ c \in Calls /\ c.h = h
        /\ c.op = call[t].op /\ c.b = call[t].b /\ c.to = call[t].to /\ c.new = call[t].new /\ c.prev = call[t].prev
        /\ c.ptr = call[t].ptr /\ c.old = call[t].old
    BY <1>1, SetH
  <2>3. e \in Entries
    BY DEF Entries, Undo
  <2>4. pc' = [pc EXCEPT ![t] = p] /\ call' = [call EXCEPT ![t] = c] /\ undo' = [undo EXCEPT ![t] = <<e>> \o @]
    BY <1>4 DEF Goto, Register, Undo
  <2>5. PhysOK(phys')
    <3>1. [len |-> Chunk(t), refs |-> 1] \in [len : Nat, refs : Nat]
      BY <2>1
    <3> QED
      BY <1>1, <1>4, <3>1 DEF PhysOK
  <2>6. UNCHANGED python /\ UNCHANGED kept /\ MappingsOK(mapped') /\ RangesOK(reserved') /\ p \in Steps /\ p \notin Freeing
    BY <1>1, <1>4 DEF Steps, Freeing
  <2>7. phys[h].refs = 0 /\ phys'[h].refs = 1
    BY <1>1, <1>4 DEF Unused, PhysOK
  <2>8. \A x \in Handles : x # h => phys'[x].refs = phys[x].refs
    BY <1>1, <1>4 DEF PhysOK
  <2>9. h \notin Taken(call[t], Len(undo[t]))
    <3>1. TypeOK /\ Counted
      BY DEF IInv
    <3> QED
      BY <2>7, <3>1, Unreferred
  <2>10. call[t].op = "grow" => h # call[t].old
    <3>1. call[t].op = "grow" => Taken(call[t], Len(undo[t])) = {call[t].old}
      BY <1>2, TakenTable
    <3> QED
      BY <2>9, <3>1
  <2> e = Undo("release", 0, 0, h)
    OBVIOUS
  <2> HIDE DEF c, e
  <2>11. Extends(t, p, c, e)
    <3>1. CASE call[t].op = "grow" /\ Len(undo[t]) = 4
      <4>1. p = "map"
        BY <3>1 DEF Growing
      <4> QED
        BY <1>1, <2>2, <2>10, <3>1, <4>1, GrowPlan DEF StepOK, GrowDepth, CallOK, Freeing, Extends
    <3>2. CASE call[t].op = "allocate" /\ Len(undo[t]) = 0
      <4>1. p = "reserve"
        BY <3>2 DEF Growing
      <4> QED
        BY <1>1, <2>2, <3>2, <4>1, AllocatePlan DEF StepOK, AllocateDepth, CallOK, Freeing, Extends
    <3> QED
      BY <1>2, <3>1, <3>2
  <2>12. Taken(c, Len(undo[t]) + 1) = Taken(call[t], Len(undo[t])) \cup {h}
    <3>1. call[t].op = "grow" /\ Len(undo[t]) = 4 =>
             Taken(call[t], Len(undo[t])) = {call[t].old} /\ Taken(c, Len(undo[t]) + 1) = {call[t].old, h}
      BY <2>2, TakenTable
    <3>2. call[t].op = "allocate" /\ Len(undo[t]) = 0 =>
             Taken(call[t], Len(undo[t])) = {} /\ Taken(c, Len(undo[t]) + 1) = {h}
      BY <2>2, TakenTable
    <3> QED
      BY <1>2, <3>1, <3>2
  <2>13. Takes(t, c)
    <3> SUFFICES ASSUME NEW x \in Handles
                 PROVE  phys'[x].refs + In(x, Taken(call[t], Len(undo[t])))
                        = phys[x].refs + In(x, Taken(call[t], Len(undo[t])) \cup {h})
      BY <2>12 DEF Takes
    <3>1. CASE x = h
      BY <2>7, <2>9, <3>1 DEF In
    <3>2. CASE x # h
      BY <2>8, <3>2 DEF In
    <3> QED
      BY <3>1, <3>2
  <2> HIDE DEF p
  <2> QED
    BY <1>1, <2>2, <2>3, <2>4, <2>5, <2>6, <2>11, <2>13, Registers
<1> QED
  BY <1>3, <1>4 DEF Create

\* cuMemMap of the new memory; allocate registers its undo in any case.
LEMMA MapKeeps == ASSUME IInv, NEW t \in Threads, Map(t) PROVE IInv'
<1> DEFINE c == call[t]
           at == c.ptr + c.prev
           e == Undo("unmap", at, Chunk(t), None)
<1>0. c = call[t] /\ at = c.ptr + c.prev /\ e = Undo("unmap", at, Chunk(t), None)
  OBVIOUS
<1> HIDE DEF c, at, e
<1>1. /\ c \in Calls /\ CallOK(pc[t], c, Len(undo[t])) /\ RangesOK(reserved) /\ MappingsOK(mapped) /\ PhysOK(phys)
      /\ pc[t] = "map" /\ pc[t] \in Transaction
  BY <1>0, Known DEF Map, Transaction
<1>2. (c.op = "grow" /\ Len(undo[t]) = 5) \/ (c.op = "allocate" /\ Len(undo[t]) = 2)
  BY <1>0, <1>1, Located DEF Table
<1>3. /\ at \in Nat /\ Chunk(t) \in Nat /\ Chunk(t) \in Int /\ c.h \in Handles
      /\ Chunk(t) = Granules(c.new) - c.prev /\ (c.op = "allocate" => c.prev = 0 /\ at = c.ptr /\ Chunk(t) = Granules(c.new))
  <2>1. /\ c.prev \in Nat /\ c.ptr \in Nat /\ Chunk(t) \in Nat /\ Chunk(t) = Granules(c.new) - c.prev /\ Granules(c.new) \in Nat
    BY <1>0, <1>2, Sized
  <2>2. c.h \in Handles /\ (c.op = "allocate" => c.prev = 0)
    <3>1. c.op = "grow" /\ Len(undo[t]) = 5 => c.h \in Handles
      BY <1>1 DEF CallOK
    <3>2. c.op = "allocate" /\ Len(undo[t]) = 2 => c.h \in Handles /\ c.prev = 0
      BY <1>1 DEF CallOK
    <3> QED
      BY <1>2, <3>1, <3>2
  <2>3. at \in Nat /\ (c.prev = 0 => at = c.ptr /\ Chunk(t) = Granules(c.new))
    BY <1>0, <2>1
  <2> QED
    BY <2>1, <2>2, <2>3
<1>4. e \in Entries
  BY <1>0, <1>3 DEF Entries, Undo
<1>5. Taken(c, Len(undo[t])) = Taken(c, Len(undo[t]) + 1)
  <2>1. c.op = "grow" => Taken(c, 5) = Taken(c, 5 + 1)
    BY TakenTable, 5 + 1 = 6
  <2>2. c.op = "allocate" => Taken(c, 2) = Taken(c, 2 + 1)
    BY TakenTable, 2 + 1 = 3
  <2> QED
    BY <1>2, <2>1, <2>2
<1>6. ASSUME NEW p \in {"access", "rollback"}, p = "access" \/ c.op = "allocate"
      PROVE  Extends(t, p, c, e)
  <2>1. CASE c.op = "grow" /\ Len(undo[t]) = 5
    <3>1. p = "access"
      BY <1>6, <2>1
    <3>2. StepOK(p, c, 5 + 1) /\ CallOK(p, c, 5 + 1)
      BY <1>1, <2>1, <3>1 DEF StepOK, GrowDepth, CallOK, Freeing
    <3>3. Len(Plan(c, OldPtr(t))) = 6 /\ Plan(c, OldPtr(t))[5 + 1] = e
      BY <1>0, <1>3, <2>1, GrowPlan
    <3> QED
      BY <1>0, <2>1, <3>2, <3>3 DEF Extends
  <2>2. CASE c.op = "allocate" /\ Len(undo[t]) = 2
    <3>2. StepOK(p, c, 2 + 1) /\ CallOK(p, c, 2 + 1)
      BY <1>1, <2>2 DEF StepOK, AllocateDepth, CallOK, Freeing
    <3>3. Len(Plan(c, OldPtr(t))) = 3 /\ Plan(c, OldPtr(t))[2 + 1] = e
      BY <1>0, <1>3, <2>2, AllocatePlan
    <3> QED
      BY <1>0, <2>2, <3>2, <3>3 DEF Extends
  <2> QED
    BY <1>2, <2>1, <2>2
<1>7. CASE /\ Mappable(at, Chunk(t), c.h) /\ mapped' = mapped \cup {Mapping(at, Chunk(t), c.h)}
           /\ Register(t, "unmap", at, Chunk(t), None) /\ Goto(t, "access")
           /\ UNCHANGED <<reserved, phys, python, kept, call, ops, faults>>
  <2>1. pc' = [pc EXCEPT ![t] = "access"] /\ call' = [call EXCEPT ![t] = c] /\ undo' = [undo EXCEPT ![t] = <<e>> \o @]
    BY <1>0, <1>7, Same DEF Goto, Register, Undo
  <2>2. UNCHANGED python /\ UNCHANGED kept /\ PhysOK(phys') /\ MappingsOK(mapped') /\ RangesOK(reserved')
    BY <1>1, <1>3, <1>7, MappedOK
  <2>3. Extends(t, "access", c, e)
    BY <1>6
  <2>4. Takes(t, c)
    BY <1>0, <1>5, <1>7 DEF Takes
  <2> QED
    BY <1>1, <1>4, <2>1, <2>2, <2>3, <2>4, Registers DEF Steps, Freeing
<1>8. CASE Raise(t) /\ c.op = "allocate" /\ Register(t, "unmap", at, Chunk(t), None)
  <2>1. pc' = [pc EXCEPT ![t] = "rollback"] /\ call' = [call EXCEPT ![t] = c] /\ undo' = [undo EXCEPT ![t] = <<e>> \o @]
    BY <1>0, <1>8, Same DEF Goto, Register, Undo, Raise
  <2>2. UNCHANGED python /\ UNCHANGED kept /\ PhysOK(phys') /\ MappingsOK(mapped') /\ RangesOK(reserved') /\ UNCHANGED phys
    BY <1>1, <1>8 DEF Raise, driver
  <2>3. Extends(t, "rollback", c, e)
    BY <1>6, <1>8
  <2>4. Takes(t, c)
    BY <1>0, <1>5, <2>2 DEF Takes
  <2> QED
    BY <1>1, <1>4, <2>1, <2>2, <2>3, <2>4, Registers DEF Steps, Freeing
<1>9. CASE Raise(t) /\ UNCHANGED undo
  BY <1>1, <1>9, Raises
<1> QED
  BY <1>0, <1>2, <1>7, <1>8, <1>9 DEF Map, Growing

\* A thread with nothing to undo.
LEMMA FitsNothing ==
  ASSUME NEW p, NEW c, NEW at, NEW open, StepOK(p, c, 0), CallOK(p, c, 0), c.op = "grow" /\ Works(p) => open
  PROVE  Fits(p, c, <<>>, at, open)
<1>1. Len(<<>>) = 0
  OBVIOUS
<1> QED
  BY <1>1, NoList DEF Fits

\* The call of an idle thread.
LEMMA IdleCall ==
  /\ Idle \in Calls /\ Idle.op = "none" /\ Idle.b = None /\ Idle.to = None
  /\ StepOK("idle", Idle, 0) /\ CallOK("idle", Idle, 0) /\ \A k : Taken(Idle, k) = {}
<1>1. 0 \in 0 .. Top /\ 0 \in Nat
  BY GranIsPositive
<1>2. Idle \in Calls /\ Idle.op = "none" /\ Idle.b = None /\ Idle.to = None
  BY <1>1 DEF Idle, Calls
<1>3. StepOK("idle", Idle, 0)
  BY DEF StepOK
<1>4. CallOK("idle", Idle, 0)
  BY <1>2 DEF CallOK
<1> QED
  BY <1>2, <1>3, <1>4, TakenTable

\* A thread that becomes idle.
LEMMA FitsIdle == ASSUME NEW at, NEW open PROVE Fits("idle", Idle, <<>>, at, open)
  BY IdleCall, FitsNothing

\* An idle thread works for no buffer.
LEMMA IdleApart == ASSUME NEW t \in Threads PROVE \A u \in Threads \ {t} : {Idle.b, Idle.to} \cap {call[u].b, call[u].to} \subseteq {None}
  BY IdleCall

\* A step that leaves nothing to undo.
LEMMA StepEmpty ==
  ASSUME IInv, NEW t \in Threads, NEW p \in Steps, NEW c \in Calls,
         pc' = [pc EXCEPT ![t] = p], call' = [call EXCEPT ![t] = c], undo' = [undo EXCEPT ![t] = <<>>],
         RangesOK(reserved'), MappingsOK(mapped'), PhysOK(phys'), BuffersOK(buffer', box'), kept' \in [Handles -> Nat],
         Spares(t), Fits(p, c, <<>>, box'[c.b].ptr, buffer'[c.b].open),
         \A u \in Threads \ {t} : {c.b, c.to} \cap {call[u].b, call[u].to} \subseteq {None},
         Balanced(t, p, c, 0)
  PROVE  IInv'
<1>0. <<>> \in Seq(Entries) /\ Len(<<>>) = 0
  OBVIOUS
<1>1. PICK s \in Seq(Entries) : s = <<>> /\ Len(s) = 0
  BY <1>0, Zenon
<1>2. undo' = [undo EXCEPT ![t] = s] /\ Fits(p, c, s, box'[c.b].ptr, buffer'[c.b].open) /\ Balanced(t, p, c, Len(s))
  BY <1>1
<1> QED
  BY <1>2, Step

\* A new Buffer, where the call has made room for one.
LEMMA NewBufferOK ==
  ASSUME IInv, NEW t \in Threads, NEW size \in Nat, call[t].op \in {"grow", "allocate"}, NewBuffer(t, size)
  PROVE  BuffersOK(buffer', box') /\ Spares(t)
<1> DEFINE to == call[t].to
<1>1. call[t] \in Calls /\ CallOK(pc[t], call[t], Len(undo[t])) /\ BuffersOK(buffer, box)
  BY Known
<1>2. to \in Buffers /\ call[t].ptr \in 0 .. Top
  BY <1>1 DEF CallOK, Calls
<1>3. /\ [open |-> TRUE, size |-> size] \in [open : BOOLEAN, size : Nat]
      /\ [ptr |-> call[t].ptr, size |-> size, holders |-> {"buffer"}] \in [ptr : 0 .. Top, size : Nat, holders : SUBSET Holders]
  BY <1>2 DEF Holders
<1>4. BuffersOK(buffer', box')
  BY <1>1, <1>2, <1>3 DEF BuffersOK, NewBuffer
<1>5. ASSUME NEW u \in Threads \ {t}, call[u].op = "grow" PROVE call[u].b # to
  <2>1. call[u].b \in Buffers
    BY <1>5, Known DEF CallOK
  <2>2. {call[t].b, call[t].to} \cap {call[u].b, call[u].to} \subseteq {None}
    BY <1>5 DEF IInv, Work, Apart
  <2>3. call[u].b # None
    BY <2>1, NoneIsNothing
  <2> QED
    BY <2>2, <2>3
<1>6. Spares(t)
  <2> SUFFICES ASSUME NEW u \in Threads \ {t}, call[u].op = "grow"
               PROVE  box'[call[u].b].ptr = box[call[u].b].ptr /\ buffer'[call[u].b].open = buffer[call[u].b].open
    BY DEF Spares
  <2>1. call[u].b # to /\ call[u].b \in Buffers
    BY <1>5, Known DEF CallOK
  <2> QED
    BY <1>1, <2>1 DEF NewBuffer, BuffersOK
<1> QED
  BY <1>4, <1>6

\* cuMemSetAccess and commit: the references of the transaction go to kept.
LEMMA AccessKeeps == ASSUME IInv, NEW t \in Threads, Access(t) PROVE IInv'
<1> DEFINE c == call[t]
<1>1. /\ c \in Calls /\ CallOK(pc[t], c, Len(undo[t])) /\ RangesOK(reserved) /\ MappingsOK(mapped) /\ PhysOK(phys)
      /\ BuffersOK(buffer, box) /\ kept \in [Handles -> Nat]
      /\ (c.op = "grow" /\ Works(pc[t]) => buffer[c.b].open)
      /\ pc[t] = "access" /\ pc[t] \in Transaction
  BY Known DEF Access, Transaction
<1>2. (c.op = "grow" /\ Len(undo[t]) = 6) \/ (c.op = "allocate" /\ Len(undo[t]) = 3)
  BY <1>1, Located DEF Table
<1>3. CASE Raise(t) /\ UNCHANGED undo
  BY <1>1, <1>3, Raises
<1>4. CASE /\ mapped' = Opened(t) /\ reserved' = Mark(c.ptr, "owned") /\ Commit(t, {c.h, c.old})
           /\ IF Growing(t) THEN Goto(t, "free_old") /\ UNCHANGED <<python, call>> ELSE Return(t) /\ NewBuffer(t, Gran * Total(t))
           /\ UNCHANGED <<phys, ops, faults>>
  <2>1. RangesOK(reserved') /\ MappingsOK(mapped') /\ PhysOK(phys')
    BY <1>1, <1>4, MarkOK, AccessOK DEF Opened
  <2>2. /\ kept' \in [Handles -> Nat]
        /\ \A x \in Handles : kept[x] \in Int /\ kept'[x] = kept[x] + In(x, {c.h, c.old})
    BY <1>1, <1>4 DEF Commit, In
  <2>3. undo' = [undo EXCEPT ![t] = <<>>] 
    BY <1>4 DEF Commit
  <2>4. InHand(pc[t], c) = {} /\ \A x : In(x, {}) = 0
    BY <1>1 DEF InHand, Freeing, In
  <2>5. CASE c.op = "grow" /\ Len(undo[t]) = 6
    <3>1. pc' = [pc EXCEPT ![t] = "free_old"] /\ call' = [call EXCEPT ![t] = c] /\ UNCHANGED python /\ UNCHANGED <<buffer, box>>
      BY <1>4, <2>5, Same DEF Growing, Goto, python
    <3>2. StepOK("free_old", c, 0) /\ CallOK("free_old", c, 0)
      BY <1>1, <2>5 DEF StepOK, GrowDepth, CallOK, Freeing
    <3>3. buffer[c.b].open
      BY <1>1, <2>5 DEF Works, Deallocation
    <3>4. Fits("free_old", c, <<>>, box'[c.b].ptr, buffer'[c.b].open)
      BY <3>1, <3>2, <3>3, FitsNothing
    <3>5. Taken(c, Len(undo[t])) = {c.h, c.old} /\ Taken(c, 0) = {} /\ InHand("free_old", c) = {}
      BY <2>3, <2>5, TakenTable DEF InHand, Freeing
    <3>6. Balanced(t, "free_old", c, 0)
      <4> SUFFICES ASSUME NEW x \in Handles
                   PROVE  phys'[x].refs + kept[x] + (In(x, {c.h, c.old}) + In(x, {})) = phys[x].refs + kept'[x] + (In(x, {}) + In(x, {}))
        BY <2>4, <3>5 DEF Balanced, Owed
      <4>1. In(x, {c.h, c.old}) \in Int /\ phys[x].refs \in Int /\ phys' = phys
        BY <1>1, <1>4 DEF In, PhysOK
      <4>2. PICK i \in Int : i = In(x, {c.h, c.old})
        BY <4>1
      <4>3. kept'[x] = kept[x] + i /\ kept[x] \in Int /\ In(x, {}) = 0
        BY <2>2, <2>4, <4>2
      <4>4. phys[x].refs + kept[x] + (i + 0) = phys[x].refs + kept'[x] + (0 + 0)
        BY <4>1, <4>3
      <4> QED
        BY <4>1, <4>2, <4>3, <4>4
    <3>7. Spares(t) /\ \A u \in Threads \ {t} : {c.b, c.to} \cap {call[u].b, call[u].to} \subseteq {None}
      BY <3>1, SparesAll, Aparts
    <3>8. BuffersOK(buffer', box')
      BY <1>1, <3>1
    <3> HIDE DEF c
    <3> QED
      BY <1>1, <2>1, <2>2, <2>3, <3>1, <3>4, <3>6, <3>7, <3>8, StepEmpty DEF Steps
  <2>6. CASE c.op = "allocate" /\ Len(undo[t]) = 3
    <3>1. pc' = [pc EXCEPT ![t] = "idle"] /\ call' = [call EXCEPT ![t] = Idle] /\ NewBuffer(t, Gran * Total(t))
      BY <1>4, <2>6 DEF Growing, Return, Goto
    <3>2. Gran * Total(t) \in Nat
      <4>1. Total(t) \in Nat /\ Gran \in Nat
        BY <2>6, Sized, GranIsPositive
      <4> QED
        BY <4>1
    <3>3. BuffersOK(buffer', box') /\ Spares(t)
      BY <2>6, <3>1, <3>2, NewBufferOK
    <3>4. c.old = None /\ c.old \notin Handles
      BY <1>1, <2>6, NoneIsNothing DEF CallOK
    <3>5. Taken(c, Len(undo[t])) = {c.h} /\ Taken(Idle, 0) = {} /\ InHand("idle", Idle) = {}
      BY <2>3, <2>6, TakenTable, IdleCall DEF InHand, Freeing
    <3>6. Balanced(t, "idle", Idle, 0)
      <4> SUFFICES ASSUME NEW x \in Handles
                   PROVE  phys'[x].refs + kept[x] + (In(x, {c.h}) + In(x, {})) = phys[x].refs + kept'[x] + (In(x, {}) + In(x, {}))
        BY <2>4, <3>5 DEF Balanced, Owed
      <4>1. In(x, {c.h, c.old}) \in Int /\ phys[x].refs \in Int /\ phys' = phys /\ In(x, {c.h}) = In(x, {c.h, c.old})
        BY <1>1, <1>4, <3>4 DEF In, PhysOK
      <4>2. PICK i \in Int : i = In(x, {c.h, c.old})
        BY <4>1
      <4>3. kept'[x] = kept[x] + i /\ kept[x] \in Int /\ In(x, {}) = 0
        BY <2>2, <2>4, <4>2
      <4>4. phys[x].refs + kept[x] + (i + 0) = phys[x].refs + kept'[x] + (0 + 0)
        BY <4>1, <4>3
      <4> QED
        BY <4>1, <4>2, <4>3, <4>4
    <3> QED
      BY <2>1, <2>2, <2>3, <3>1, <3>3, <3>6, FitsIdle, IdleCall, IdleApart, StepEmpty DEF Steps
  <2> QED
    BY <1>2, <2>5, <2>6
<1> QED
  BY <1>3, <1>4 DEF Access

\* What the newest entry gives back is what the transaction took last.
Newest(c, k, u) ==
    /\ u.do = "release" => u.h \in Handles /\ Taken(c, k) = Taken(c, k - 1) \cup {u.h} /\ u.h \notin Taken(c, k - 1)
    /\ u.do # "release" => Taken(c, k) = Taken(c, k - 1)
    /\ u.do = "remap" => u.h \in Handles

\* The newest entry of a transaction, by the kind of call and its depth.
LEMMA NewestOfPlan ==
  ASSUME NEW p, NEW c, NEW at, NEW k, CallOK(p, c, k),
         (c.op = "grow" /\ k \in 1 .. 6) \/ (c.op = "allocate" /\ k \in 1 .. 3)
  PROVE  Newest(c, k, Plan(c, at)[k])
<1> DEFINE u == Plan(c, at)[k]
<1> SUFFICES Newest(c, k, u)
  OBVIOUS
<1> HIDE DEF u
<1>1. CASE c.op = "grow" /\ k \in 1 .. 6
  <2>0. c.op = "grow"
    BY <1>1
  <2>1. k = 1 \/ k = 2 \/ k = 3 \/ k = 4 \/ k = 5 \/ k = 6
    BY <1>1
  <2>2. k \in {2, 3} => c.old \in Handles
    BY <1>1 DEF CallOK
  <2>3. k = 5 => c.h \in Handles /\ c.h # c.old
    BY <1>1 DEF CallOK
  <2>4. CASE k = 1
    <3>0. Plan(c, at)[1] = Undo("free", c.ptr, Granules(c.new), None)
      BY <2>0, GrowPlan
    <3>1. u.do = "free" /\ u.h = None
      BY <2>4, <3>0 DEF Undo, u
    <3>2. Taken(c, k) = {} /\ Taken(c, k - 1) = {}
      BY <2>0, <2>4, 1 - 1 = 0, TakenTable
    <3> QED
      BY <3>1, <3>2 DEF Newest
  <2>5. CASE k = 2
    <3>0. Plan(c, at)[2] = Undo("release", 0, 0, c.old)
      BY <2>0, GrowPlan
    <3>1. u.do = "release" /\ u.h = c.old
      BY <2>5, <3>0 DEF Undo, u
    <3>2. Taken(c, k) = {c.old} /\ Taken(c, k - 1) = {}
      BY <2>0, <2>5, 2 - 1 = 1, TakenTable
    <3> QED
      BY <2>2, <2>5, <3>1, <3>2 DEF Newest
  <2>6. CASE k = 3
    <3>0. Plan(c, at)[3] = Undo("remap", at, c.prev, c.old)
      BY <2>0, GrowPlan
    <3>1. u.do = "remap" /\ u.h = c.old
      BY <2>6, <3>0 DEF Undo, u
    <3>2. Taken(c, k) = {c.old} /\ Taken(c, k - 1) = {c.old}
      BY <2>0, <2>6, 3 - 1 = 2, TakenTable
    <3> QED
      BY <2>2, <2>6, <3>1, <3>2 DEF Newest
  <2>7. CASE k = 4
    <3>0. Plan(c, at)[4] = Undo("unmap", c.ptr, c.prev, None)
      BY <2>0, GrowPlan
    <3>1. u.do = "unmap" /\ u.h = None
      BY <2>7, <3>0 DEF Undo, u
    <3>2. Taken(c, k) = {c.old} /\ Taken(c, k - 1) = {c.old}
      BY <2>0, <2>7, 4 - 1 = 3, TakenTable
    <3> QED
      BY <3>1, <3>2 DEF Newest
  <2>8. CASE k = 5
    <3>0. Plan(c, at)[5] = Undo("release", 0, 0, c.h)
      BY <2>0, GrowPlan
    <3>1. u.do = "release" /\ u.h = c.h
      BY <2>8, <3>0 DEF Undo, u
    <3>2. Taken(c, k) = {c.old, c.h} /\ Taken(c, k - 1) = {c.old}
      BY <2>0, <2>8, 5 - 1 = 4, TakenTable
    <3> QED
      BY <2>3, <2>8, <3>1, <3>2 DEF Newest
  <2>9. CASE k = 6
    <3>0. Plan(c, at)[6] = Undo("unmap", c.ptr + c.prev, Granules(c.new) - c.prev, None)
      BY <2>0, GrowPlan
    <3>1. u.do = "unmap" /\ u.h = None
      BY <2>9, <3>0 DEF Undo, u
    <3>2. Taken(c, k) = {c.old, c.h} /\ Taken(c, k - 1) = {c.old, c.h}
      BY <2>0, <2>9, 6 - 1 = 5, TakenTable
    <3> QED
      BY <3>1, <3>2 DEF Newest
  <2> QED
    BY <2>1, <2>4, <2>5, <2>6, <2>7, <2>8, <2>9
<1>2. CASE c.op = "allocate" /\ k \in 1 .. 3
  <2>0. c.op = "allocate" /\ c.op # "grow"
    BY <1>2
  <2>1. k = 1 \/ k = 2 \/ k = 3
    BY <1>2
  <2>2. c.h \in Handles
    BY <1>2 DEF CallOK
  <2>4. CASE k = 1
    <3>0. Plan(c, at)[1] = Undo("release", 0, 0, c.h)
      BY <2>0, AllocatePlan
    <3>1. u.do = "release" /\ u.h = c.h
      BY <2>4, <3>0 DEF Undo, u
    <3>2. Taken(c, k) = {c.h} /\ Taken(c, k - 1) = {}
      BY <2>0, <2>4, 1 - 1 = 0, TakenTable
    <3> QED
      BY <2>2, <3>1, <3>2 DEF Newest
  <2>5. CASE k = 2
    <3>0. Plan(c, at)[2] = Undo("free", c.ptr, Granules(c.new), None)
      BY <2>0, AllocatePlan
    <3>1. u.do = "free" /\ u.h = None
      BY <2>5, <3>0 DEF Undo, u
    <3>2. Taken(c, k) = {c.h} /\ Taken(c, k - 1) = {c.h}
      BY <2>0, <2>5, 2 - 1 = 1, TakenTable
    <3> QED
      BY <3>1, <3>2 DEF Newest
  <2>6. CASE k = 3
    <3>0. Plan(c, at)[3] = Undo("unmap", c.ptr, Granules(c.new), None)
      BY <2>0, AllocatePlan
    <3>1. u.do = "unmap" /\ u.h = None
      BY <2>6, <3>0 DEF Undo, u
    <3>2. Taken(c, k) = {c.h} /\ Taken(c, k - 1) = {c.h}
      BY <2>0, <2>6, 3 - 1 = 2, TakenTable
    <3> QED
      BY <3>1, <3>2 DEF Newest
  <2> QED
    BY <2>1, <2>4, <2>5, <2>6
<1> QED
  BY <1>1, <1>2

\* One entry undone, the newest.
LEMMA RollbackKeeps == ASSUME IInv, NEW t \in Threads, Rollback(t) PROVE IInv'
<1> DEFINE c == call[t]
           k == Len(undo[t])
           u == Head(undo[t])
           s == Tail(undo[t])
<1>1. /\ c \in Calls /\ undo[t] \in Seq(Entries) /\ k \in Nat /\ RangesOK(reserved) /\ MappingsOK(mapped) /\ PhysOK(phys)
      /\ BuffersOK(buffer, box) /\ kept \in [Handles -> Nat] /\ StepOK(pc[t], c, k) /\ CallOK(pc[t], c, k)
      /\ ListOK(undo[t], Plan(c, OldPtr(t)), k) /\ (c.op = "grow" /\ Works(pc[t]) => buffer[c.b].open)
      /\ pc[t] = "rollback" /\ undo[t] # <<>>
  BY Known DEF Rollback
<1>2. (c.op = "grow" /\ k \in 0 .. 6) \/ (c.op = "allocate" /\ k \in 0 .. 3)
  BY <1>1, Located DEF Table
<1>3. Len(Plan(c, OldPtr(t))) \in Nat
  BY GrowPlan, AllocatePlan
<1>4. /\ s \in Seq(Entries) /\ k \in Nat \ {0} /\ Len(s) = k - 1 /\ u \in Entries /\ u = Plan(c, OldPtr(t))[k]
      /\ ListOK(s, Plan(c, OldPtr(t)), k - 1)
  BY <1>1, <1>3, Popped
<1>5. Newest(c, k, u)
  <2>1. (c.op = "grow" /\ k \in 1 .. 6) \/ (c.op = "allocate" /\ k \in 1 .. 3)
    BY <1>2, <1>4
  <2> QED
    BY <1>1, <1>4, <2>1, NewestOfPlan
<1>6. /\ reserved' = IF u.do = "free" /\ Freeable(u.at, u.n) THEN Freed(u.at, u.n) ELSE reserved
      /\ phys' = IF u.do = "release" THEN Unref(u.h) ELSE phys
      /\ mapped' = CASE u.do = "unmap" /\ FullyMapped(u.at, u.n) -> Unmapped(u.at, u.n)
                     [] u.do = "remap" /\ Mappable(u.at, u.n, u.h) -> mapped \cup {Mapping(u.at, u.n, u.h)}
                     [] OTHER -> mapped
      /\ pc' = [pc EXCEPT ![t] = "rollback"] /\ call' = [call EXCEPT ![t] = c] /\ undo' = [undo EXCEPT ![t] = s]
      /\ UNCHANGED python /\ UNCHANGED <<buffer, box>> /\ kept' = kept
  BY <1>1, Same DEF Rollback, python
<1>7. c = call[t] /\ k = Len(undo[t])
  OBVIOUS
<1> HIDE DEF c, k, u, s
<1>8. u.at \in Nat /\ u.n \in Nat /\ u.do \in {"free", "release", "remap", "unmap"}
  BY <1>4 DEF Entries
<1>9. RangesOK(reserved')
  BY <1>1, <1>6, FreedOK
<1>10. MappingsOK(mapped')
  <2>1. CASE u.do = "unmap"
    <3>1. mapped' = Unmapped(u.at, u.n) \/ mapped' = mapped
      BY <1>6, <2>1
    <3> QED
      BY <1>1, <3>1, UnmappedOK
  <2>2. CASE u.do = "remap"
    <3>1. (Mappable(u.at, u.n, u.h) /\ mapped' = mapped \cup {Mapping(u.at, u.n, u.h)}) \/ mapped' = mapped
      BY <1>6, <2>2
    <3>2. u.h \in Handles /\ u.at \in Nat /\ u.n \in Int
      BY <1>5, <1>8, <2>2 DEF Newest
    <3> QED
      BY <1>1, <3>1, <3>2, MappedOK
  <2>3. CASE u.do \notin {"unmap", "remap"}
    BY <1>1, <1>6, <2>3
  <2> QED
    BY <2>1, <2>2, <2>3
<1>11. TypeOK /\ Counted
  BY DEF IInv
<1>12. u.do = "release" => phys[u.h].refs > 0
  <2> SUFFICES ASSUME u.do = "release" PROVE phys[u.h].refs > 0
    OBVIOUS
  <2>1. u.h \in Handles /\ u.h \in Taken(call[t], Len(undo[t]))
    BY <1>5, <1>7 DEF Newest
  <2>2. phys[u.h].refs \in Nat \ {0}
    BY <1>11, <2>1, Referred
  <2> QED
    BY <2>2
<1>13. PhysOK(phys')
  <2>1. CASE u.do = "release"
    <3>1. u.h \in Handles /\ phys' = Unref(u.h)
      BY <1>5, <1>6, <2>1 DEF Newest
    <3>2. PhysOK(Unref(u.h))
      BY <1>1, <1>12, <2>1, <3>1, RefOK
    <3> QED
      BY <3>1, <3>2
  <2>2. CASE u.do # "release"
    BY <1>1, <1>6, <2>2
  <2> QED
    BY <2>1, <2>2
<1>14. InHand(pc[t], call[t]) = {} /\ InHand("rollback", c) = {}
  BY <1>1 DEF InHand, Freeing
<1>15. Balanced(t, "rollback", c, Len(s))
  <2> SUFFICES ASSUME NEW x \in Handles
               PROVE  phys'[x].refs + kept[x] + (In(x, Taken(c, k)) + In(x, {})) = phys[x].refs + kept'[x] + (In(x, Taken(c, k - 1)) + In(x, {}))
    BY <1>4, <1>7, <1>14 DEF Balanced, Owed
  <2>1. phys[x].refs \in Int /\ kept[x] \in Int /\ kept'[x] = kept[x] /\ In(x, {}) = 0
    BY <1>1, <1>6 DEF PhysOK, In
  <2>2. PICK i, j, d \in Int : i = In(x, Taken(c, k)) /\ j = In(x, Taken(c, k - 1)) /\ d = In(x, {u.h})
    BY DEF In
  <2>3. CASE u.do = "release"
    <3>1. u.h \in Handles /\ phys' = Unref(u.h) /\ Taken(c, k) = Taken(c, k - 1) \cup {u.h} /\ u.h \notin Taken(c, k - 1)
      BY <1>5, <1>6, <2>3 DEF Newest
    <3>2. i = j + d
      BY <2>2, <3>1 DEF In
    <3>3. \A y \in Handles : Unref(u.h)[y].refs = phys[y].refs - In(y, {u.h})
      BY <1>1, <3>1, RefOK
    <3>4. phys'[x].refs = phys[x].refs - d
      BY <2>2, <3>1, <3>3
    <3>5. phys'[x].refs + kept[x] + (i + 0) = phys[x].refs + kept'[x] + (j + 0)
      BY <2>1, <3>2, <3>4
    <3> QED
      BY <2>1, <2>2, <3>5
  <2>4. CASE u.do # "release"
    <3>1. phys' = phys /\ i = j
      BY <1>5, <1>6, <2>2, <2>4 DEF Newest
    <3>2. phys'[x].refs + kept[x] + (i + 0) = phys[x].refs + kept'[x] + (j + 0)
      BY <2>1, <3>1
    <3> QED
      BY <2>1, <2>2, <3>2
  <2> QED
    BY <2>3, <2>4
<1>16. Fits("rollback", c, s, box'[c.b].ptr, buffer'[c.b].open)
  <2>1. k - 1 \in Nat /\ ((c.op = "grow" /\ k - 1 \in 0 .. 6) \/ (c.op = "allocate" /\ k - 1 \in 0 .. 3))
    BY <1>2, <1>4
  <2>2. StepOK("rollback", c, k - 1)
    BY <2>1 DEF StepOK, GrowDepth, AllocateDepth
  <2>3. CallOK("rollback", c, k - 1)
    BY <1>1, <2>1 DEF CallOK
  <2>4. box'[c.b].ptr = OldPtr(t) /\ (c.op = "grow" => buffer'[c.b].open)
    BY <1>1, <1>6, <1>7 DEF OldPtr, Works, Deallocation
  <2> QED
    BY <1>4, <2>2, <2>3, <2>4 DEF Fits
<1>17. Spares(t) /\ (\A v \in Threads \ {t} : {c.b, c.to} \cap {call[v].b, call[v].to} \subseteq {None})
  BY <1>6, <1>7, SparesAll, Aparts
<1>18. BuffersOK(buffer', box') /\ kept' \in [Handles -> Nat] /\ "rollback" \in Steps
  BY <1>1, <1>6 DEF Steps
<1> QED
  BY <1>1, <1>4, <1>6, <1>9, <1>10, <1>13, <1>15, <1>16, <1>17, <1>18, Step

\* Nothing left to undo: the call raises.
LEMMA RolledBackKeeps == ASSUME IInv, NEW t \in Threads, RolledBack(t) PROVE IInv'
<1>1. /\ call[t] \in Calls /\ RangesOK(reserved) /\ MappingsOK(mapped) /\ PhysOK(phys)
      /\ BuffersOK(buffer, box) /\ kept \in [Handles -> Nat]
      /\ pc[t] = "rollback" /\ undo[t] = <<>> /\ Len(undo[t]) = 0
  BY Known DEF RolledBack
<1>2. call[t].op = "grow" \/ call[t].op = "allocate"
  BY <1>1, Located DEF Table
<1>3. /\ pc' = [pc EXCEPT ![t] = "idle"] /\ call' = [call EXCEPT ![t] = Idle] /\ undo' = [undo EXCEPT ![t] = <<>>]
      /\ UNCHANGED <<reserved, mapped, phys, buffer, box, kept>> /\ UNCHANGED python
  BY <1>1, Same DEF RolledBack, Return, Goto, driver, python
<1>4. /\ Taken(call[t], Len(undo[t])) = {} /\ Taken(Idle, 0) = {} /\ InHand(pc[t], call[t]) = {} /\ InHand("idle", Idle) = {}
  BY <1>1, <1>2, TakenTable, IdleCall DEF InHand, Freeing
<1>5. Balanced(t, "idle", Idle, 0)
  BY <1>3, <1>4 DEF Balanced, Owed
<1> QED
  BY <1>1, <1>3, <1>5, FitsIdle, IdleCall, IdleApart, SparesAll, StepEmpty DEF Steps

-----------------------------------------------------------------------------
(* Before the transaction.                                                 *)

\* Balanced when no reference moves.
LEMMA BalancedStill ==
  ASSUME NEW t \in Threads, NEW p, NEW c, NEW k, phys' = phys, kept' = kept,
         Taken(c, k) = Taken(call[t], Len(undo[t])), InHand(p, c) = InHand(pc[t], call[t])
  PROVE  Balanced(t, p, c, k)
  BY DEF Balanced, Owed

\* allocate begins.
LEMMA AllocateKeeps ==
  ASSUME IInv, NEW t \in Threads, NEW b \in Buffers, NEW n \in Sizes, Allocate(t, b, n) PROVE IInv'
<1> DEFINE c == [Idle EXCEPT !.op = "allocate", !.to = b, !.new = n]
<1>1. /\ RangesOK(reserved) /\ MappingsOK(mapped) /\ PhysOK(phys) /\ BuffersOK(buffer, box) /\ kept \in [Handles -> Nat]
      /\ undo[t] \in Seq(Entries) /\ pc[t] = "idle" /\ ~Busy(b)
  BY Known DEF Allocate, Begin, Free
<1>2. call[t] = Idle /\ Len(undo[t]) = 0 /\ undo[t] = <<>>
  <2>1. call[t] = Idle /\ Len(undo[t]) = 0
    BY <1>1, Located DEF Table
  <2> QED
    BY <1>1, <2>1
<1>3. n \in Nat /\ n > 0
  BY SizesArePositive
<1>4. c \in Calls /\ c.op = "allocate" /\ c.b = None /\ c.to = b /\ c.prev = 0 /\ c.old = None /\ c.new = n
  BY <1>3, IdleCall DEF Calls, Idle
<1>5. /\ pc' = [pc EXCEPT ![t] = "create"] /\ call' = [call EXCEPT ![t] = c] /\ undo' = [undo EXCEPT ![t] = <<>>]
      /\ UNCHANGED <<reserved, mapped, phys, buffer, box, kept>> /\ UNCHANGED python
  BY <1>2, Same DEF Allocate, Begin, Goto, driver, python
<1> HIDE DEF c
<1>6. Fits("create", c, <<>>, box'[c.b].ptr, buffer'[c.b].open)
  <2>1. StepOK("create", c, 0) /\ CallOK("create", c, 0)
    BY <1>3, <1>4 DEF StepOK, CallOK, AllocateDepth, Freeing
  <2> QED
    BY <1>4, <2>1, FitsNothing
<1>7. \A u \in Threads \ {t} : {c.b, c.to} \cap {call[u].b, call[u].to} \subseteq {None}
  BY <1>1, <1>4 DEF Busy
<1>8. Balanced(t, "create", c, 0)
  <2>1. Taken(c, 0) = {} /\ Taken(call[t], Len(undo[t])) = {}
    BY <1>2, <1>4, TakenTable, IdleCall
  <2>2. InHand("create", c) = {} /\ InHand(pc[t], call[t]) = {}
    BY <1>1 DEF InHand, Freeing
  <2> QED
    BY <1>5, <2>1, <2>2, BalancedStill
<1>9. BuffersOK(buffer', box') /\ kept' \in [Handles -> Nat] /\ RangesOK(reserved') /\ MappingsOK(mapped') /\ PhysOK(phys')
  BY <1>1, <1>5
<1> QED
  BY <1>4, <1>5, <1>6, <1>7, <1>8, <1>9, SparesAll, StepEmpty DEF Steps

\* modify_allocation begins.
LEMMA ModifyKeeps ==
  ASSUME IInv, NEW t \in Threads, NEW b \in Buffers, NEW b2 \in Buffers, NEW n \in Sizes, Modify(t, b, b2, n) PROVE IInv'
<1> DEFINE c == [Idle EXCEPT !.op = "grow", !.b = b, !.to = b2, !.new = n, !.prev = Prev(b, n)]
<1>1. /\ RangesOK(reserved) /\ MappingsOK(mapped) /\ PhysOK(phys) /\ BuffersOK(buffer, box) /\ kept \in [Handles -> Nat]
      /\ undo[t] \in Seq(Entries) /\ pc[t] = "idle" /\ ~Busy(b) /\ ~Busy(b2) /\ buffer[b].open /\ n > buffer[b].size
  BY Known DEF Modify, Begin, Free
<1>2. call[t] = Idle /\ Len(undo[t]) = 0 /\ undo[t] = <<>>
  <2>1. call[t] = Idle /\ Len(undo[t]) = 0
    BY <1>1, Located DEF Table
  <2> QED
    BY <1>1, <2>1
<1>3. n \in Nat /\ n > 0
  BY SizesArePositive
<1>4. Prev(b, n) \in Nat /\ Prev(b, n) <= Granules(n)
  <2>1. buffer[b].size \in Nat
    BY <1>1 DEF BuffersOK
  <2>2. n - buffer[b].size \in Nat /\ n - buffer[b].size <= n
    BY <1>1, <1>3, <2>1
  <2>3. Granules(n) \in Nat /\ Granules(n - buffer[b].size) \in Nat /\ Granules(n - buffer[b].size) <= Granules(n)
    BY <1>3, <2>2, GranulesNat, GranulesMonotone
  <2> QED
    BY <2>3 DEF Prev
<1>5. c \in Calls /\ c.op = "grow" /\ c.b = b /\ c.to = b2 /\ c.prev = Prev(b, n) /\ c.new = n
  BY <1>3, <1>4, IdleCall DEF Calls, Idle
<1>6. /\ pc' = [pc EXCEPT ![t] = "probe"] /\ call' = [call EXCEPT ![t] = c] /\ undo' = [undo EXCEPT ![t] = <<>>]
      /\ UNCHANGED <<reserved, mapped, phys, buffer, box, kept>> /\ UNCHANGED python
  BY <1>2, Same DEF Modify, Begin, Goto, driver, python
<1> HIDE DEF c
<1>7. Fits("probe", c, <<>>, box'[c.b].ptr, buffer'[c.b].open)
  <2>1. StepOK("probe", c, 0) /\ CallOK("probe", c, 0)
    BY <1>3, <1>4, <1>5 DEF StepOK, CallOK, GrowDepth, Freeing
  <2> QED
    BY <1>1, <1>5, <1>6, <2>1, FitsNothing
<1>8. \A u \in Threads \ {t} : {c.b, c.to} \cap {call[u].b, call[u].to} \subseteq {None}
  BY <1>1, <1>5 DEF Busy
<1>9. Balanced(t, "probe", c, 0)
  <2>1. Taken(c, 0) = {} /\ Taken(call[t], Len(undo[t])) = {}
    BY <1>2, <1>5, TakenTable, IdleCall
  <2>2. InHand("probe", c) = {} /\ InHand(pc[t], call[t]) = {}
    BY <1>1 DEF InHand, Freeing
  <2> QED
    BY <1>6, <2>1, <2>2, BalancedStill
<1>10. BuffersOK(buffer', box') /\ kept' \in [Handles -> Nat] /\ RangesOK(reserved') /\ MappingsOK(mapped') /\ PhysOK(phys')
  BY <1>1, <1>6
<1> QED
  BY <1>5, <1>6, <1>7, <1>8, <1>9, <1>10, SparesAll, StepEmpty DEF Steps

\* A step in which no thread moves and no reference does.
LEMMA NobodyMoves ==
  ASSUME IInv, UNCHANGED <<reserved, phys, kept, pc, call, undo, buffer>>, MappingsOK(mapped'), BuffersOK(buffer', box'),
         \A b \in Buffers : box'[b].ptr = box[b].ptr
  PROVE  IInv'
<1>1. TypeOK' /\ Bounded'
  <2>1. RangesOK(reserved) /\ PhysOK(phys) /\ kept \in [Handles -> Nat] /\ pc \in [Threads -> Steps]
    BY TypeParts DEF IInv
  <2>2. RangesOK(reserved') /\ PhysOK(phys') /\ kept' \in [Handles -> Nat] /\ pc' \in [Threads -> Steps]
    BY <2>1
  <2> QED
    BY <2>2, TypePartsNext
<1>2. Work'
  <2>1. ASSUME NEW u \in Threads PROVE WorkOK(u)'
    <3>1. Fits(pc[u], call[u], undo[u], box[call[u].b].ptr, buffer[call[u].b].open) /\ undo[u] \in Seq(Entries)
      BY DEF IInv, Work, WorkOK
    <3>2. call[u].op = "grow" => call[u].b \in Buffers
      BY <3>1 DEF Fits, CallOK
    <3>3. Fits(pc[u], call[u], undo[u], box'[call[u].b].ptr, buffer'[call[u].b].open)
      <4>1. CASE call[u].op = "grow"
        <5>1. box'[call[u].b].ptr = box[call[u].b].ptr /\ buffer'[call[u].b].open = buffer[call[u].b].open
          BY <3>2, <4>1
        <5> QED
          BY <3>1, <5>1
      <4>2. CASE call[u].op # "grow"
        BY <3>1, <4>2 DEF Fits, Plan
      <4> QED
        BY <4>1, <4>2
    <3> QED
      BY <3>3 DEF WorkOK
  <2> QED
    BY <2>1 DEF IInv, Work, Apart
<1>3. Counted'
  BY DEF IInv, Counted, Takers, Freers
<1> QED
  BY <1>1, <1>2, <1>3 DEF IInv

\* modify_allocation to a size that is not larger.
LEMMA ReaccessKeeps ==
  ASSUME IInv, NEW t \in Threads, NEW b \in Buffers, NEW n \in Sizes, Reaccess(t, b, n) PROVE IInv'
<1>1. MappingsOK(mapped) /\ BuffersOK(buffer, box)
  BY Known
<1>2. MappingsOK(mapped')
  <2>1. mapped' = mapped \/ mapped' = WithAccess(box[b].ptr, Granules(buffer[b].size))
    BY DEF Reaccess
  <2> QED
    BY <1>1, <2>1, AccessOK
<1> QED
  BY <1>1, <1>2, NobodyMoves DEF Reaccess, python

\* A graph node takes hold of a Buffer's box.
LEMMA ShareKeeps == ASSUME IInv, NEW b \in Buffers, Share(b) PROVE IInv'
<1>1. MappingsOK(mapped) /\ BuffersOK(buffer, box)
  BY TypeParts DEF IInv
<1>2. box' = [box EXCEPT ![b].holders = Holders] /\ buffer' = buffer
  BY DEF Share
<1>3. box[b] \in [ptr : 0 .. Top, size : Nat, holders : SUBSET Holders] /\ box \in [Buffers -> [ptr : 0 .. Top, size : Nat, holders : SUBSET Holders]]
  BY <1>1 DEF BuffersOK
<1>4. /\ box'[b].ptr = box[b].ptr /\ box'[b].size = box[b].size /\ box'[b].holders = Holders
      /\ box'[b] \in [ptr : 0 .. Top, size : Nat, holders : SUBSET Holders]
  BY <1>2, <1>3
<1>5. \A x \in Buffers \ {b} : box'[x] = box[x]
  BY <1>2, <1>3
<1>6. box' \in [Buffers -> [ptr : 0 .. Top, size : Nat, holders : SUBSET Holders]]
  BY <1>2, <1>3, <1>4, <1>5
<1>7. BuffersOK(buffer', box')
  BY <1>1, <1>2, <1>4, <1>5, <1>6 DEF BuffersOK, Holders
<1>8. \A x \in Buffers : box'[x].ptr = box[x].ptr
  BY <1>4, <1>5
<1> QED
  BY <1>1, <1>7, <1>8, NobodyMoves DEF Share, driver

\* The reservation behind the buffer, asked for.
LEMMA ProbeKeeps == ASSUME IInv, NEW t \in Threads, Probe(t) PROVE IInv'
<1>1. /\ RangesOK(reserved) /\ MappingsOK(mapped) /\ PhysOK(phys) /\ BuffersOK(buffer, box) /\ kept \in [Handles -> Nat]
      /\ call[t] \in Calls /\ undo[t] \in Seq(Entries) /\ pc[t] = "probe" /\ CallOK(pc[t], call[t], Len(undo[t]))
      /\ (call[t].op = "grow" /\ Works(pc[t]) => buffer[call[t].b].open)
  BY Known DEF Probe
<1>2. call[t].op = "grow" /\ Len(undo[t]) = 0 /\ undo[t] = <<>>
  <2>1. call[t].op = "grow" /\ Len(undo[t]) = 0
    BY <1>1, Located DEF Table
  <2> QED
    BY <1>1, <2>1
<1>3. Taken(call[t], Len(undo[t])) = {} /\ InHand(pc[t], call[t]) = {}
  BY <1>1, <1>2, TakenTable DEF InHand, Freeing
<1>4. /\ undo' = [undo EXCEPT ![t] = <<>>] /\ UNCHANGED <<mapped, phys, buffer, box, kept>> /\ UNCHANGED python
      /\ BuffersOK(buffer', box') /\ kept' \in [Handles -> Nat] /\ MappingsOK(mapped') /\ PhysOK(phys')
  BY <1>1, <1>2, Same DEF Probe, python
<1>5. ASSUME NEW a \in Reservable(Chunk(t)), reserved' = reserved \cup {[base |-> a, len |-> Chunk(t), is |-> "pending"]},
             call' = [call EXCEPT ![t].ptr = a], Goto(t, "probe_free")
      PROVE  IInv'
  <2> DEFINE c == [call[t] EXCEPT !.ptr = a]
  <2>1. Chunk(t) \in Int
    BY <1>2, Sized
  <2>2. a \in 0 .. Top /\ RangesOK(reserved')
    <3>1. a \in 0 .. Top /\ RangesOK(reserved \cup {[base |-> a, len |-> Chunk(t), is |-> "pending"]})
      BY <1>1, <2>1, Reserved
    <3> QED
      BY <1>5, <3>1
  <2>3. /\ c \in Calls /\ c.op = call[t].op /\ c.b = call[t].b /\ c.to = call[t].to /\ c.new = call[t].new /\ c.prev = call[t].prev
    BY <1>1, <2>2, SetPtr
  <2>4. pc' = [pc EXCEPT ![t] = "probe_free"] /\ call' = [call EXCEPT ![t] = c]
    BY <1>5 DEF Goto
  <2> HIDE DEF c
  <2>5. Fits("probe_free", c, <<>>, box'[c.b].ptr, buffer'[c.b].open)
    <3>1. StepOK("probe_free", c, 0) /\ CallOK("probe_free", c, 0)
      BY <1>1, <1>2, <2>3 DEF StepOK, CallOK, GrowDepth, Freeing
    <3>2. buffer'[c.b].open
      BY <1>1, <1>2, <1>4, <2>3 DEF Works, Deallocation
    <3> QED
      BY <3>1, <3>2, FitsNothing
  <2>6. \A u \in Threads \ {t} : {c.b, c.to} \cap {call[u].b, call[u].to} \subseteq {None}
    BY <2>3, Aparts
  <2>7. Balanced(t, "probe_free", c, 0)
    <3>1. Taken(c, 0) = {} /\ InHand("probe_free", c) = {}
      BY <1>2, <2>3, TakenTable DEF InHand, Freeing
    <3> QED
      BY <1>3, <1>4, <3>1, BalancedStill
  <2> QED
    BY <1>4, <2>2, <2>3, <2>4, <2>5, <2>6, <2>7, SparesAll, StepEmpty DEF Steps
<1>6. CASE Return(t) /\ UNCHANGED reserved
  <2>1. pc' = [pc EXCEPT ![t] = "idle"] /\ call' = [call EXCEPT ![t] = Idle] /\ RangesOK(reserved')
    BY <1>1, <1>6 DEF Return, Goto
  <2>2. Balanced(t, "idle", Idle, 0)
    <3>1. Taken(Idle, 0) = {} /\ InHand("idle", Idle) = {}
      BY IdleCall DEF InHand, Freeing
    <3> QED
      BY <1>3, <1>4, <3>1, BalancedStill
  <2> QED
    BY <1>4, <2>1, <2>2, FitsIdle, IdleCall, IdleApart, SparesAll, StepEmpty DEF Steps
<1> QED
  BY <1>5, <1>6 DEF Probe

\* And given back.
LEMMA ProbeFreeKeeps == ASSUME IInv, NEW t \in Threads, ProbeFree(t) PROVE IInv'
<1>1. /\ RangesOK(reserved) /\ MappingsOK(mapped) /\ PhysOK(phys) /\ BuffersOK(buffer, box) /\ kept \in [Handles -> Nat]
      /\ call[t] \in Calls /\ undo[t] \in Seq(Entries) /\ pc[t] = "probe_free" /\ CallOK(pc[t], call[t], Len(undo[t]))
      /\ (call[t].op = "grow" /\ Works(pc[t]) => buffer[call[t].b].open)
  BY Known DEF ProbeFree
<1>2. call[t].op = "grow" /\ Len(undo[t]) = 0 /\ undo[t] = <<>>
  <2>1. call[t].op = "grow" /\ Len(undo[t]) = 0
    BY <1>1, Located DEF Table
  <2> QED
    BY <1>1, <2>1
<1>3. /\ undo' = [undo EXCEPT ![t] = <<>>] /\ UNCHANGED <<mapped, phys, buffer, box, kept>> /\ UNCHANGED python
      /\ BuffersOK(buffer', box') /\ kept' \in [Handles -> Nat] /\ MappingsOK(mapped') /\ PhysOK(phys')
      /\ pc' = [pc EXCEPT ![t] = "reserve"] /\ call' = [call EXCEPT ![t] = call[t]]
  BY <1>1, <1>2, Same DEF ProbeFree, python, Goto
<1>4. RangesOK(reserved')
  BY <1>1, FreedOK DEF ProbeFree
<1>5. Fits("reserve", call[t], <<>>, box'[call[t].b].ptr, buffer'[call[t].b].open)
  <2>1. StepOK("reserve", call[t], 0) /\ CallOK("reserve", call[t], 0)
    BY <1>1, <1>2 DEF StepOK, CallOK, GrowDepth, Freeing
  <2>2. buffer'[call[t].b].open
    BY <1>1, <1>2, <1>3 DEF Works, Deallocation
  <2> QED
    BY <2>1, <2>2, FitsNothing
<1>6. Balanced(t, "reserve", call[t], 0)
  <2>1. Taken(call[t], Len(undo[t])) = Taken(call[t], 0) /\ InHand(pc[t], call[t]) = {} /\ InHand("reserve", call[t]) = {}
    BY <1>1, <1>2 DEF InHand, Freeing
  <2> QED
    BY <1>3, <2>1, BalancedStill
<1>7. \A u \in Threads \ {t} : {call[t].b, call[t].to} \cap {call[u].b, call[u].to} \subseteq {None}
  BY Aparts
<1> QED
  BY <1>1, <1>3, <1>4, <1>5, <1>6, <1>7, SparesAll, StepEmpty DEF Steps

-----------------------------------------------------------------------------
(* After the transaction.                                                  *)

\* A box that loses a holder other than an open Buffer.
Closing(b, who) == \A x \in Buffers : buffer'[x].open => buffer[x] = buffer'[x] /\ ~(x = b /\ who = "buffer")

\* Letting go of a box leaves every open Buffer its own.
LEMMA LetGoOK ==
  ASSUME IInv, NEW t \in Threads, NEW b \in Buffers, NEW who \in Holders, NEW p, NEW c, LetGo(t, b, who, p, c),
         buffer' \in [Buffers -> [open : BOOLEAN, size : Nat]], Closing(b, who)
  PROVE  /\ BuffersOK(buffer', box')
         /\ \A x \in Buffers : x # b => box'[x].ptr = box[x].ptr
         /\ \A x \in Buffers : buffer[x].open /\ who # "buffer" => box'[x].ptr = box[x].ptr
<1> DEFINE Box == [ptr : 0 .. Top, size : Nat, holders : SUBSET Holders]
           rest == box[b].holders \ {who}
           v == IF rest = {} THEN NoBox ELSE [box[b] EXCEPT !.holders = rest]
<1>1. BuffersOK(buffer, box)
  BY Known
<1>2. box \in [Buffers -> Box] /\ box[b] \in Box /\ NoBox \in Box
  BY <1>1, GranIsPositive DEF BuffersOK, NoBox
<1>3. box' = [box EXCEPT ![b] = v]
  BY DEF LetGo
<1>4. /\ v \in Box
      /\ rest # {} => v.ptr = box[b].ptr /\ v.size = box[b].size /\ v.holders = rest
  <2>1. CASE rest = {}
    BY <1>2, <2>1
  <2>2. CASE rest # {}
    BY <1>2, <2>2
  <2> QED
    BY <2>1, <2>2
<1> HIDE DEF v
<1>5. box' \in [Buffers -> Box] /\ box'[b] = v /\ \A x \in Buffers \ {b} : box'[x] = box[x]
  BY <1>2, <1>3, <1>4
<1>6. \A x \in Buffers : buffer[x].open => "buffer" \in box[x].holders /\ box[x].size = buffer[x].size
  BY <1>1 DEF BuffersOK
<1>7. buffer[b].open /\ who # "buffer" => /\ "buffer" \in box[b].holders /\ box[b].size = buffer[b].size
                                         /\ rest # {} /\ "buffer" \in rest
  BY <1>6
<1>8. buffer[b].open /\ who # "buffer" => v.ptr = box[b].ptr /\ v.size = buffer[b].size /\ "buffer" \in v.holders
  BY <1>4, <1>7
<1>9. ASSUME NEW x \in Buffers, buffer'[x].open PROVE "buffer" \in box'[x].holders /\ box'[x].size = buffer'[x].size
  <2>1. buffer[x] = buffer'[x] /\ buffer[x].open /\ ~(x = b /\ who = "buffer")
    BY <1>9 DEF Closing
  <2>2. CASE x = b
    BY <1>5, <1>8, <2>1, <2>2
  <2>3. CASE x # b
    BY <1>5, <1>6, <2>1, <2>3
  <2> QED
    BY <2>2, <2>3
<1>10. BuffersOK(buffer', box')
  BY <1>5, <1>9 DEF BuffersOK
<1>11. \A x \in Buffers : (x # b => box'[x].ptr = box[x].ptr) /\ (buffer[x].open /\ who # "buffer" => box'[x].ptr = box[x].ptr)
  BY <1>5, <1>8
<1> QED
  BY <1>10, <1>11

\* Where the thread goes on after letting go.
LEMMA SetRange ==
  ASSUME NEW c \in Calls, NEW a \in 0 .. Top, NEW n \in Nat
  PROVE  LET d == [c EXCEPT !.dptr = a, !.dsize = n] IN
         /\ d \in Calls
         /\ d.op = c.op /\ d.b = c.b /\ d.to = c.to /\ d.new = c.new /\ d.prev = c.prev /\ d.h = c.h /\ d.old = c.old /\ d.ptr = c.ptr
  BY DEF Calls

\* A growth clears the old Buffer.
LEMMA ClearKeeps == ASSUME IInv, NEW t \in Threads, Clear(t) PROVE IInv'
<1> DEFINE b == call[t].b
<1>1. /\ RangesOK(reserved) /\ MappingsOK(mapped) /\ PhysOK(phys) /\ BuffersOK(buffer, box) /\ kept \in [Handles -> Nat]
      /\ call[t] \in Calls /\ undo[t] \in Seq(Entries) /\ pc[t] = "clear" /\ CallOK(pc[t], call[t], Len(undo[t]))
      /\ (call[t].op = "grow" /\ Works(pc[t]) => buffer[call[t].b].open)
  BY Known DEF Clear
<1>2. call[t].op = "grow" /\ Len(undo[t]) = 0 /\ undo[t] = <<>>
  <2>1. call[t].op = "grow" /\ Len(undo[t]) = 0
    BY <1>1, Located DEF Table
  <2> QED
    BY <1>1, <2>1
<1>3. b \in Buffers
  BY <1>1, <1>2 DEF CallOK
<1>4. /\ undo' = [undo EXCEPT ![t] = <<>>] /\ UNCHANGED <<reserved, mapped, phys, kept>>
      /\ buffer' = [buffer EXCEPT ![b] = NoBuffer] /\ LetGo(t, b, "buffer", "return", call[t])
      /\ kept' \in [Handles -> Nat] /\ RangesOK(reserved') /\ MappingsOK(mapped') /\ PhysOK(phys')
  BY <1>1, <1>2, Same DEF Clear, driver
<1>5. /\ buffer' \in [Buffers -> [open : BOOLEAN, size : Nat]]
      /\ Closing(b, "buffer")
      /\ \A x \in Buffers : x # b => buffer'[x] = buffer[x]
  BY <1>1, <1>3, <1>4 DEF BuffersOK, NoBuffer, Closing
<1>6. BuffersOK(buffer', box') /\ \A x \in Buffers : x # b => box'[x].ptr = box[x].ptr
  <2>1. "buffer" \in Holders
    BY DEF Holders
  <2> QED
    BY <1>3, <1>4, <1>5, <2>1, LetGoOK
<1>7. Spares(t)
  <2> SUFFICES ASSUME NEW u \in Threads \ {t}, call[u].op = "grow"
               PROVE  box'[call[u].b].ptr = box[call[u].b].ptr /\ buffer'[call[u].b].open = buffer[call[u].b].open
    BY DEF Spares
  <2>1. call[u].b \in Buffers
    BY Known DEF CallOK
  <2>2. call[u].b # b
    <3>1. {call[t].b, call[t].to} \cap {call[u].b, call[u].to} \subseteq {None}
      BY DEF IInv, Work, Apart
    <3>2. call[u].b # None
      BY <2>1, NoneIsNothing
    <3> QED
      BY <3>1, <3>2
  <2> QED
    BY <1>5, <1>6, <2>1, <2>2
<1>8. PICK p \in {"d_retain", "return"}, c \in Calls :
         /\ pc' = [pc EXCEPT ![t] = p] /\ call' = [call EXCEPT ![t] = c]
         /\ c.op = call[t].op /\ c.b = call[t].b /\ c.to = call[t].to /\ c.new = call[t].new /\ c.prev = call[t].prev
  <2>1. box[b].ptr \in 0 .. Top /\ box[b].size \in Nat
    BY <1>1, <1>3 DEF BuffersOK
  <2>2. CASE box[b].holders \ {"buffer"} = {}
    <3> DEFINE i == call[t]
               d == [i EXCEPT !.dptr = box[b].ptr, !.dsize = box[b].size]
    <3>0. pc' = [pc EXCEPT ![t] = "d_retain"] /\ call' = [call EXCEPT ![t] = d]
      BY <1>4, <2>2 DEF LetGo, Goto
    <3>00. i = call[t]
      OBVIOUS
    <3> HIDE DEF i, b
    <3>1. /\ d \in Calls
          /\ d.op = call[t].op /\ d.b = call[t].b /\ d.to = call[t].to /\ d.new = call[t].new /\ d.prev = call[t].prev
      <4>1. i \in Calls
        BY <1>1, <3>00
      <4>2. PICK a \in 0 .. Top, n \in Nat : a = box[b].ptr /\ n = box[b].size
        BY <2>1
      <4>3. d = [i EXCEPT !.dptr = a, !.dsize = n]
        BY <4>2
      <4> HIDE DEF d
      <4>4. d \in Calls /\ d.op = i.op /\ d.b = i.b /\ d.to = i.to /\ d.new = i.new /\ d.prev = i.prev
        BY <4>1, <4>3, SetRange
      <4> QED
        BY <3>00, <4>4
    <3> HIDE DEF d
    <3> QED
      BY <3>0, <3>1
  <2>3. CASE box[b].holders \ {"buffer"} # {}
    <3>1. pc' = [pc EXCEPT ![t] = "return"] /\ call' = [call EXCEPT ![t] = call[t]]
      BY <1>4, <2>3 DEF LetGo, Goto
    <3> QED
      BY <1>1, <3>1
  <2> QED
    BY <2>2, <2>3
<1>9. Fits(p, c, <<>>, box'[c.b].ptr, buffer'[c.b].open)
  <2>1. StepOK(p, c, 0) /\ CallOK(p, c, 0)
    BY <1>1, <1>2, <1>8 DEF StepOK, CallOK, GrowDepth, Freeing, Deallocation
  <2>2. ~Works(p)
    BY DEF Works, Deallocation
  <2> QED
    BY <2>1, <2>2, FitsNothing
<1>10. Balanced(t, p, c, 0)
  <2>1. Taken(c, 0) = {} /\ Taken(call[t], Len(undo[t])) = {} /\ InHand(p, c) = {} /\ InHand(pc[t], call[t]) = {}
    BY <1>1, <1>2, <1>8, TakenTable DEF InHand, Freeing
  <2> QED
    BY <1>4, <2>1, BalancedStill
<1>11. \A u \in Threads \ {t} : {c.b, c.to} \cap {call[u].b, call[u].to} \subseteq {None}
  BY <1>8, Aparts
<1>12. p \in Steps
  BY DEF Steps
<1> HIDE DEF b
<1> QED
  BY <1>4, <1>6, <1>7, <1>8, <1>9, <1>10, <1>11, <1>12, StepEmpty

\* An idle thread lets go of b, for which no call works, and perhaps runs its
\* deleter.
LEMMA ReleasedOK ==
  ASSUME IInv, NEW t \in Threads, NEW b \in Buffers, NEW who \in Holders, pc[t] = "idle",
         LetGo(t, b, who, "idle", [Idle EXCEPT !.op = "close"]),
         UNCHANGED <<reserved, mapped, phys, kept, undo>>, BuffersOK(buffer', box'), Spares(t)
  PROVE  IInv'
<1>1. /\ RangesOK(reserved) /\ MappingsOK(mapped) /\ PhysOK(phys) /\ BuffersOK(buffer, box) /\ kept \in [Handles -> Nat]
      /\ undo[t] \in Seq(Entries)
  BY Known
<1>2. call[t] = Idle /\ Len(undo[t]) = 0 /\ undo[t] = <<>>
  <2>1. call[t] = Idle /\ Len(undo[t]) = 0
    BY Located DEF Table
  <2> QED
    BY <1>1, <2>1
<1>3. /\ undo' = [undo EXCEPT ![t] = <<>>]
      /\ kept' \in [Handles -> Nat] /\ RangesOK(reserved') /\ MappingsOK(mapped') /\ PhysOK(phys')
  BY <1>1, <1>2, Same
<1>4. PICK p \in {"d_retain", "idle"}, c \in Calls :
         /\ pc' = [pc EXCEPT ![t] = p] /\ call' = [call EXCEPT ![t] = c] /\ c.b = None /\ c.to = None
         /\ (p = "idle" /\ c = Idle) \/ (p = "d_retain" /\ c.op = "close")
  <2>1. box[b].ptr \in 0 .. Top /\ box[b].size \in Nat
    BY <1>1 DEF BuffersOK
  <2>2. CASE box[b].holders \ {who} = {}
    <3> DEFINE i == [Idle EXCEPT !.op = "close"]
               d == [i EXCEPT !.dptr = box[b].ptr, !.dsize = box[b].size]
    <3>1. i \in Calls /\ i.op = "close" /\ i.b = None /\ i.to = None
      BY IdleCall DEF Calls, Idle
    <3>2. pc' = [pc EXCEPT ![t] = "d_retain"] /\ call' = [call EXCEPT ![t] = d]
      BY <2>2 DEF LetGo, Goto
    <3> HIDE DEF i
    <3>3. d \in Calls /\ d.op = "close" /\ d.b = None /\ d.to = None
      BY <2>1, <3>1, SetRange
    <3> HIDE DEF d
    <3> QED
      BY <3>2, <3>3
  <2>3. CASE box[b].holders \ {who} # {}
    <3>1. pc' = [pc EXCEPT ![t] = "idle"] /\ call' = [call EXCEPT ![t] = Idle]
      BY <2>3 DEF LetGo, Goto
    <3> QED
      BY <3>1, IdleCall
  <2> QED
    BY <2>2, <2>3
<1>5. Fits(p, c, <<>>, box'[c.b].ptr, buffer'[c.b].open)
  <2>1. CASE p = "idle" /\ c = Idle
    BY <2>1, FitsIdle
  <2>2. CASE p = "d_retain" /\ c.op = "close"
    <3>1. StepOK(p, c, 0) /\ CallOK(p, c, 0)
      BY <2>2 DEF StepOK, CallOK, Deallocation
    <3> QED
      BY <2>2, <3>1, FitsNothing
  <2> QED
    BY <1>4, <2>1, <2>2
<1>6. Balanced(t, p, c, 0)
  <2>1. Taken(c, 0) = {} /\ Taken(call[t], Len(undo[t])) = {} /\ InHand(p, c) = {} /\ InHand(pc[t], call[t]) = {}
    BY <1>2, <1>4, TakenTable, IdleCall DEF InHand, Freeing
  <2> QED
    BY <2>1, BalancedStill
<1>7. \A u \in Threads \ {t} : {c.b, c.to} \cap {call[u].b, call[u].to} \subseteq {None}
  BY <1>4
<1>8. p \in Steps
  BY DEF Steps
<1> QED
  BY <1>3, <1>4, <1>5, <1>6, <1>7, <1>8, StepEmpty

\* Buffer.close.
LEMMA CloseKeeps == ASSUME IInv, NEW t \in Threads, NEW b \in Buffers, Close(t, b) PROVE IInv'
<1>1. BuffersOK(buffer, box)
  BY Known
<1>2. /\ buffer' = [buffer EXCEPT ![b] = NoBuffer] /\ LetGo(t, b, "buffer", "idle", [Idle EXCEPT !.op = "close"])
      /\ UNCHANGED <<reserved, mapped, phys, kept, undo>> /\ pc[t] = "idle" /\ ~Busy(b) /\ "buffer" \in Holders
  BY DEF Close, driver, Holders
<1>3. /\ buffer' \in [Buffers -> [open : BOOLEAN, size : Nat]]
      /\ Closing(b, "buffer")
      /\ \A x \in Buffers : x # b => buffer'[x] = buffer[x]
  BY <1>1, <1>2 DEF BuffersOK, NoBuffer, Closing
<1>4. BuffersOK(buffer', box') /\ \A x \in Buffers : x # b => box'[x].ptr = box[x].ptr
  BY <1>2, <1>3, LetGoOK
<1>5. Spares(t)
  <2> SUFFICES ASSUME NEW u \in Threads \ {t}, call[u].op = "grow"
               PROVE  box'[call[u].b].ptr = box[call[u].b].ptr /\ buffer'[call[u].b].open = buffer[call[u].b].open
    BY DEF Spares
  <2>1. call[u].b \in Buffers /\ call[u].b # b
    BY <1>2, Known DEF CallOK, Busy
  <2> QED
    BY <1>3, <1>4, <2>1
<1> QED
  BY <1>2, <1>4, <1>5, ReleasedOK

\* A graph lets go of the box.
LEMMA DropGraphKeeps == ASSUME IInv, NEW t \in Threads, NEW b \in Buffers, DropGraph(t, b) PROVE IInv'
<1>1. BuffersOK(buffer, box)
  BY Known
<1>2. /\ buffer' = buffer /\ LetGo(t, b, "graph", "idle", [Idle EXCEPT !.op = "close"])
      /\ UNCHANGED <<reserved, mapped, phys, kept, undo>> /\ pc[t] = "idle" /\ "graph" \in Holders
  BY DEF DropGraph, driver, Holders
<1>3. /\ buffer' \in [Buffers -> [open : BOOLEAN, size : Nat]]
      /\ Closing(b, "graph")
  BY <1>1, <1>2 DEF BuffersOK, Closing
<1>4. /\ BuffersOK(buffer', box')
      /\ \A x \in Buffers : buffer[x].open /\ "graph" # "buffer" => box'[x].ptr = box[x].ptr
  BY <1>2, <1>3, LetGoOK
<1>5. Spares(t)
  <2> SUFFICES ASSUME NEW u \in Threads \ {t}, call[u].op = "grow", Works(pc[u])
               PROVE  box'[call[u].b].ptr = box[call[u].b].ptr /\ buffer'[call[u].b].open = buffer[call[u].b].open
    BY DEF Spares
  <2>1. call[u].b \in Buffers /\ buffer[call[u].b].open
    BY Known DEF CallOK
  <2> QED
    BY <1>2, <1>4, <2>1
<1> QED
  BY <1>2, <1>4, <1>5, ReleasedOK

\* A thread after the transaction: it has nothing to undo.
LEMMA Settled ==
  ASSUME IInv, NEW t \in Threads, pc[t] \in {"free_old", "clear", "return"} \cup Deallocation
  PROVE  /\ RangesOK(reserved) /\ MappingsOK(mapped) /\ PhysOK(phys) /\ BuffersOK(buffer, box) /\ kept \in [Handles -> Nat]
         /\ call[t] \in Calls /\ undo[t] = <<>> /\ Len(undo[t]) = 0 /\ CallOK(pc[t], call[t], 0)
         /\ call[t].op \in {"grow", "close"} /\ (pc[t] \in {"free_old", "clear", "return"} => call[t].op = "grow")
         /\ (call[t].op = "grow" /\ Works(pc[t]) => buffer[call[t].b].open)
         /\ Taken(call[t], Len(undo[t])) = {} /\ Taken(call[t], 0) = {}
<1>1. /\ RangesOK(reserved) /\ MappingsOK(mapped) /\ PhysOK(phys) /\ BuffersOK(buffer, box) /\ kept \in [Handles -> Nat]
      /\ call[t] \in Calls /\ undo[t] \in Seq(Entries) /\ CallOK(pc[t], call[t], Len(undo[t]))
      /\ (call[t].op = "grow" /\ Works(pc[t]) => buffer[call[t].b].open)
  BY Known
<1>2. /\ Len(undo[t]) = 0 /\ call[t].op \in {"grow", "close"}
      /\ (pc[t] \in {"free_old", "clear", "return"} => call[t].op = "grow")
  BY Located DEF Table
<1>3. Taken(call[t], 0) = {}
  BY <1>2, TakenTable
<1> QED
  BY <1>1, <1>2, <1>3

\* A growth frees the old range, or finds that it cannot.
LEMMA FreeOldKeeps == ASSUME IInv, NEW t \in Threads, FreeOld(t) PROVE IInv'
<1> DEFINE c == call[t]
<1>1. /\ RangesOK(reserved) /\ MappingsOK(mapped) /\ PhysOK(phys) /\ BuffersOK(buffer, box) /\ kept \in [Handles -> Nat]
      /\ c \in Calls /\ undo[t] = <<>> /\ CallOK("free_old", c, 0) /\ c.op = "grow" /\ buffer[c.b].open
      /\ Taken(c, Len(undo[t])) = {} /\ Taken(c, 0) = {} /\ pc[t] = "free_old"
  BY Settled DEF FreeOld, Works, Deallocation
<1>2. /\ undo' = [undo EXCEPT ![t] = <<>>] /\ UNCHANGED <<mapped, phys, kept, buffer, box>> /\ UNCHANGED python
      /\ kept' \in [Handles -> Nat] /\ MappingsOK(mapped') /\ PhysOK(phys') /\ BuffersOK(buffer', box')
  BY <1>1, Same DEF FreeOld, python
<1>3. InHand(pc[t], c) = {} /\ InHand("clear", c) = {} /\ InHand("idle", Idle) = {} /\ Taken(Idle, 0) = {}
  BY <1>1, IdleCall DEF InHand, Freeing
<1>4. CASE reserved' = Freed(OldPtr(t), c.prev) /\ Goto(t, "clear") /\ UNCHANGED call
  <2>1. pc' = [pc EXCEPT ![t] = "clear"] /\ call' = [call EXCEPT ![t] = c] /\ RangesOK(reserved')
    BY <1>1, <1>4, Same, FreedOK DEF Goto
  <2>2. StepOK("clear", c, 0) /\ CallOK("clear", c, 0)
    BY <1>1 DEF StepOK, CallOK, GrowDepth, Freeing
  <2>3. Fits("clear", c, <<>>, box'[c.b].ptr, buffer'[c.b].open)
    BY <1>1, <1>2, <2>2, FitsNothing
  <2>4. Balanced(t, "clear", c, 0)
    BY <1>1, <1>2, <1>3, BalancedStill
  <2>5. \A u \in Threads \ {t} : {c.b, c.to} \cap {call[u].b, call[u].to} \subseteq {None}
    BY Aparts
  <2> HIDE DEF c
  <2> QED
    BY <1>1, <1>2, <2>1, <2>3, <2>4, <2>5, SparesAll, StepEmpty DEF Steps
<1>5. CASE reserved' = Mark(c.ptr, "lost") /\ Return(t)
  <2>1. pc' = [pc EXCEPT ![t] = "idle"] /\ call' = [call EXCEPT ![t] = Idle] /\ RangesOK(reserved')
    BY <1>1, <1>5, MarkOK DEF Return, Goto
  <2>2. Balanced(t, "idle", Idle, 0)
    BY <1>1, <1>2, <1>3, BalancedStill
  <2> QED
    BY <1>2, <2>1, <2>2, FitsIdle, IdleCall, IdleApart, SparesAll, StepEmpty DEF Steps
<1> QED
  BY <1>4, <1>5 DEF FreeOld

\* A growth returns the new Buffer.
LEMMA MovedKeeps == ASSUME IInv, NEW t \in Threads, Moved(t) PROVE IInv'
<1>1. /\ RangesOK(reserved) /\ MappingsOK(mapped) /\ PhysOK(phys) /\ kept \in [Handles -> Nat]
      /\ call[t] \in Calls /\ undo[t] = <<>> /\ call[t].op = "grow"
      /\ Taken(call[t], Len(undo[t])) = {} /\ pc[t] = "return"
  BY Settled DEF Moved
<1>2. /\ undo' = [undo EXCEPT ![t] = <<>>] /\ UNCHANGED <<reserved, mapped, phys, kept>>
      /\ kept' \in [Handles -> Nat] /\ RangesOK(reserved') /\ MappingsOK(mapped') /\ PhysOK(phys')
      /\ pc' = [pc EXCEPT ![t] = "idle"] /\ call' = [call EXCEPT ![t] = Idle] /\ NewBuffer(t, call[t].new)
  BY <1>1, Same DEF Moved, driver, Return, Goto
<1>3. InHand(pc[t], call[t]) = {} /\ InHand("idle", Idle) = {} /\ Taken(Idle, 0) = {}
  BY <1>1, IdleCall DEF InHand, Freeing
<1>4. Balanced(t, "idle", Idle, 0)
  BY <1>1, <1>2, <1>3, BalancedStill
<1>5. BuffersOK(buffer', box') /\ Spares(t)
  <2>1. call[t].new \in Nat
    BY <1>1 DEF Calls
  <2> QED
    BY <1>1, <1>2, <2>1, NewBufferOK
<1> QED
  BY <1>2, <1>4, <1>5, FitsIdle, IdleCall, IdleApart, StepEmpty DEF Steps

-----------------------------------------------------------------------------
(* The deleter.                                                            *)

\* A deallocation that ends: its thread goes back to its growth, or is idle.
LEMMA Ends ==
  ASSUME IInv, NEW t \in Threads, pc[t] \in Deallocation, Deallocated(t), UNCHANGED <<mapped, undo>>, UNCHANGED python,
         RangesOK(reserved'), PhysOK(phys'), kept' \in [Handles -> Nat],
         \A h \in Handles : phys'[h].refs + kept[h] + In(h, InHand(pc[t], call[t])) = phys[h].refs + kept'[h]
  PROVE  IInv'
<1>1. /\ MappingsOK(mapped) /\ BuffersOK(buffer, box) /\ PhysOK(phys) /\ kept \in [Handles -> Nat]
      /\ call[t] \in Calls /\ undo[t] = <<>> /\ CallOK(pc[t], call[t], 0)
      /\ Taken(call[t], Len(undo[t])) = {} /\ Taken(call[t], 0) = {}
  BY Settled
<1>2. /\ undo' = [undo EXCEPT ![t] = <<>>] /\ MappingsOK(mapped') /\ BuffersOK(buffer', box')
  BY <1>1, Same DEF python
<1>3. ASSUME NEW p, NEW c, InHand(p, c) = {}, Taken(c, 0) = {} PROVE Balanced(t, p, c, 0)
  <2> SUFFICES ASSUME NEW h \in Handles
               PROVE  phys'[h].refs + kept[h] + (In(h, {}) + In(h, InHand(pc[t], call[t]))) = phys[h].refs + kept'[h] + (In(h, {}) + In(h, {}))
    BY <1>1, <1>3 DEF Balanced, Owed
  <2>1. phys'[h].refs \in Int /\ kept[h] \in Int /\ phys[h].refs \in Int /\ kept'[h] \in Int
    BY <1>1 DEF PhysOK
  <2>2. PICK i \in Int : i = In(h, InHand(pc[t], call[t]))
    BY DEF In
  <2>3. phys'[h].refs + kept[h] + i = phys[h].refs + kept'[h]
    BY <2>2
  <2>4. phys'[h].refs + kept[h] + (0 + i) = phys[h].refs + kept'[h] + (0 + 0)
    BY <2>1, <2>3
  <2>5. In(h, {}) = 0
    BY DEF In
  <2> QED
    BY <2>2, <2>4, <2>5
<1>4. CASE Growing(t)
  <2> DEFINE c == call[t]
  <2>1. pc' = [pc EXCEPT ![t] = "return"] /\ call' = [call EXCEPT ![t] = c]
    BY <1>4, Same DEF Deallocated, Goto
  <2>2. StepOK("return", c, 0) /\ CallOK("return", c, 0)
    BY <1>1, <1>4 DEF StepOK, CallOK, GrowDepth, Freeing, Growing
  <2>3. ~Works("return")
    BY DEF Works
  <2>4. \A u \in Threads \ {t} : {c.b, c.to} \cap {call[u].b, call[u].to} \subseteq {None}
    BY Aparts
  <2>5. Balanced(t, "return", c, 0)
    <3>1. InHand("return", c) = {}
      BY DEF InHand, Freeing
    <3> QED
      BY <1>1, <1>3, <3>1
  <2>6. Fits("return", c, <<>>, box'[c.b].ptr, buffer'[c.b].open)
    BY <2>2, <2>3, FitsNothing
  <2> HIDE DEF c
  <2>7. c \in Calls
    BY <1>1 DEF c
  <2> QED
    BY <1>2, <2>1, <2>4, <2>5, <2>6, <2>7, SparesAll, StepEmpty DEF Steps
<1>5. CASE ~Growing(t)
  <2>1. pc' = [pc EXCEPT ![t] = "idle"] /\ call' = [call EXCEPT ![t] = Idle]
    BY <1>5 DEF Deallocated, Return, Goto
  <2>2. Balanced(t, "idle", Idle, 0)
    <3>1. InHand("idle", Idle) = {} /\ Taken(Idle, 0) = {}
      BY IdleCall DEF InHand, Freeing
    <3> QED
      BY <1>3, <3>1
  <2> QED
    BY <1>2, <2>1, <2>2, FitsIdle, IdleCall, IdleApart, SparesAll, StepEmpty DEF Steps
<1> QED
  BY <1>4, <1>5

\* A deallocation that goes on.
LEMMA GoesOn ==
  ASSUME IInv, NEW t \in Threads, pc[t] \in Deallocation, NEW p \in Freeing, NEW c \in Calls,
         pc' = [pc EXCEPT ![t] = p], call' = [call EXCEPT ![t] = c], UNCHANGED <<undo, kept>>, UNCHANGED python,
         RangesOK(reserved'), MappingsOK(mapped'), PhysOK(phys'),
         c.op = call[t].op, c.b = call[t].b, c.to = call[t].to, c.new = call[t].new, c.prev = call[t].prev, c.dh \in Handles,
         \A h \in Handles : phys'[h].refs + In(h, InHand(pc[t], call[t])) = phys[h].refs + In(h, {c.dh})
  PROVE  IInv'
<1>1. /\ BuffersOK(buffer, box) /\ PhysOK(phys) /\ kept \in [Handles -> Nat]
      /\ undo[t] = <<>> /\ CallOK(pc[t], call[t], 0) /\ call[t].op \in {"grow", "close"}
      /\ Taken(call[t], Len(undo[t])) = {} /\ Taken(c, 0) = {}
  BY Settled, TakenTable
<1>2. undo' = [undo EXCEPT ![t] = <<>>] /\ BuffersOK(buffer', box') /\ kept' \in [Handles -> Nat]
  BY <1>1, Same DEF python
<1>3. StepOK(p, c, 0) /\ CallOK(p, c, 0)
  BY <1>1 DEF StepOK, CallOK, Freeing, Deallocation
<1>4. ~Works(p) /\ p \in Steps /\ InHand(p, c) = {c.dh}
  BY DEF Works, Deallocation, Freeing, Steps, InHand
<1>5. Balanced(t, p, c, 0)
  <2> SUFFICES ASSUME NEW h \in Handles
               PROVE  phys'[h].refs + kept[h] + (In(h, {}) + In(h, InHand(pc[t], call[t]))) = phys[h].refs + kept'[h] + (In(h, {}) + In(h, {c.dh}))
    BY <1>1, <1>4 DEF Balanced, Owed
  <2>1. phys'[h].refs \in Int /\ kept[h] \in Int /\ phys[h].refs \in Int /\ kept'[h] = kept[h] /\ In(h, {}) = 0
    BY <1>1 DEF PhysOK, In
  <2>2. PICK i, j \in Int : i = In(h, InHand(pc[t], call[t])) /\ j = In(h, {c.dh})
    BY DEF In
  <2>3. phys'[h].refs + i = phys[h].refs + j
    <3>1. phys'[h].refs + In(h, InHand(pc[t], call[t])) = phys[h].refs + In(h, {c.dh})
      OBVIOUS
    <3>2. In(h, InHand(pc[t], call[t])) = i /\ In(h, {c.dh}) = j
      BY <2>2
    <3> QED
      BY <3>1, <3>2
  <2>4. phys'[h].refs + kept[h] + (0 + i) = phys[h].refs + kept'[h] + (0 + j)
    <3>1. PICK a2, b, a, b2 \in Int : phys'[h].refs = a2 /\ kept[h] = b /\ phys[h].refs = a /\ kept'[h] = b2
      BY <2>1
    <3>2. a2 + i = a + j /\ b2 = b
      BY <2>1, <2>3, <3>1
    <3>3. a2 + b + (0 + i) = a + b2 + (0 + j)
      BY <3>2
    <3> QED
      BY <3>1, <3>3
  <2> QED
    BY <2>1, <2>2, <2>4
<1>6. Fits(p, c, <<>>, box'[c.b].ptr, buffer'[c.b].open)
  BY <1>3, <1>4, FitsNothing
<1>7. \A u \in Threads \ {t} : {c.b, c.to} \cap {call[u].b, call[u].to} \subseteq {None}
  BY Aparts
<1> QED
  BY <1>2, <1>4, <1>5, <1>6, <1>7, SparesAll, StepEmpty

\* A deallocation has its reference in hand.
LEMMA Hand ==
  ASSUME IInv, NEW t \in Threads, pc[t] \in Freeing
  PROVE  /\ call[t].dh \in Handles /\ InHand(pc[t], call[t]) = {call[t].dh} /\ phys[call[t].dh].refs > 0
         /\ pc[t] \in Deallocation
<1>1. TypeOK /\ Counted /\ CallOK(pc[t], call[t], Len(undo[t]))
  BY Known DEF IInv
<1>2. call[t].dh \in Handles
  BY <1>1 DEF CallOK, Freeing
<1>3. InHand(pc[t], call[t]) = {call[t].dh}
  BY DEF InHand
<1>4. phys[call[t].dh].refs \in Nat \ {0}
  BY <1>1, <1>2, <1>3, Referred
<1> QED
  BY <1>2, <1>3, <1>4 DEF Freeing, Deallocation

\* A deallocation that is refused keeps what it has in hand.
LEMMA RefusedKeeps ==
  ASSUME IInv, NEW t \in Threads, pc[t] \in Freeing, Refused(t), kept' = [kept EXCEPT ![call[t].dh] = @ + 1],
         UNCHANGED <<mapped, phys, undo>>, UNCHANGED python
  PROVE  IInv'
<1>1. RangesOK(reserved) /\ PhysOK(phys) /\ kept \in [Handles -> Nat]
  BY Known
<1>2. call[t].dh \in Handles /\ InHand(pc[t], call[t]) = {call[t].dh} /\ pc[t] \in Deallocation
  BY Hand
<1>3. RangesOK(reserved') /\ Deallocated(t)
  BY <1>1, MarkOK DEF Refused
<1>4. PhysOK(phys') /\ kept' \in [Handles -> Nat]
  BY <1>1, <1>2
<1>5. ASSUME NEW h \in Handles
      PROVE  phys'[h].refs + kept[h] + In(h, InHand(pc[t], call[t])) = phys[h].refs + kept'[h]
  <2>1. phys'[h].refs = phys[h].refs /\ phys[h].refs \in Int /\ kept[h] \in Int
    BY <1>1 DEF PhysOK
  <2>2. CASE h = call[t].dh
    <3>1. In(h, {call[t].dh}) = 1 /\ kept'[h] = kept[h] + 1
      BY <1>1, <2>2 DEF In
    <3> QED
      BY <1>2, <2>1, <3>1
  <2>3. CASE h # call[t].dh
    <3>1. In(h, {call[t].dh}) = 0 /\ kept'[h] = kept[h]
      BY <1>1, <2>3 DEF In
    <3> QED
      BY <1>2, <2>1, <3>1
  <2> QED
    BY <2>2, <2>3
<1> QED
  BY <1>2, <1>3, <1>4, <1>5, Ends

\* The deleter takes a reference to the memory behind the range.
LEMMA DRetainKeeps == ASSUME IInv, NEW t \in Threads, DRetain(t) PROVE IInv'
<1>1. /\ RangesOK(reserved) /\ MappingsOK(mapped) /\ PhysOK(phys) /\ kept \in [Handles -> Nat] /\ call[t] \in Calls
      /\ pc[t] = "d_retain" /\ pc[t] \in Deallocation /\ InHand(pc[t], call[t]) = {}
      /\ UNCHANGED <<mapped, undo, kept>> /\ UNCHANGED python
  BY Known DEF DRetain, Deallocation, InHand, Freeing
<1>2. ASSUME NEW m \in Backing(call[t].dptr), phys' = Ref(m.h), call' = [call EXCEPT ![t].dh = m.h], Goto(t, "d_unmap"),
             UNCHANGED reserved
      PROVE  IInv'
  <2> DEFINE h == m.h
             c == [call[t] EXCEPT !.dh = h]
  <2>1. h \in Handles
    BY Backed1
  <2>2. /\ c \in Calls /\ c.dh = h
        /\ c.op = call[t].op /\ c.b = call[t].b /\ c.to = call[t].to /\ c.new = call[t].new /\ c.prev = call[t].prev
    BY <1>1, <2>1, SetDh
  <2>3. pc' = [pc EXCEPT ![t] = "d_unmap"] /\ call' = [call EXCEPT ![t] = c]
    BY <1>2 DEF Goto
  <2>4. phys' = Ref(h)
    BY <1>2
  <2> HIDE DEF h, c
  <2>5. PhysOK(phys')
    <3>1. PhysOK(Ref(h))
      BY <1>1, <2>1, RefOK
    <3> QED
      BY <2>4, <3>1
  <2>6. ASSUME NEW x \in Handles
        PROVE  phys'[x].refs + In(x, InHand(pc[t], call[t])) = phys[x].refs + In(x, {c.dh})
    <3>1. Ref(h)[x].refs = phys[x].refs + In(x, {h})
      BY <1>1, <2>1, RefOK
    <3>2. In(x, {}) = 0 /\ In(x, {h}) \in Int /\ phys[x].refs \in Int
      BY <1>1 DEF In, PhysOK
    <3>3. PICK i \in Int : i = In(x, {h})
      BY <3>2
    <3>4. Ref(h)[x].refs = phys[x].refs + i
      BY <3>1, <3>3
    <3>5. phys'[x].refs = phys[x].refs + i
      BY <2>4, <3>4
    <3>6. phys'[x].refs + 0 = phys[x].refs + i
      BY <3>2, <3>5
    <3>7. In(x, InHand(pc[t], call[t])) = 0 /\ In(x, {c.dh}) = i
      BY <1>1, <2>2, <3>2, <3>3
    <3> QED
      BY <3>6, <3>7
  <2>7. "d_unmap" \in Freeing /\ RangesOK(reserved') /\ MappingsOK(mapped') /\ c.dh \in Handles
    BY <1>1, <1>2, <2>1, <2>2 DEF Freeing
  <2> QED
    BY <1>1, <2>2, <2>3, <2>5, <2>6, <2>7, GoesOn
<1>3. CASE Refused(t) /\ UNCHANGED phys
  <2>1. RangesOK(reserved') /\ Deallocated(t) /\ PhysOK(phys') /\ kept' \in [Handles -> Nat]
    BY <1>1, <1>3, MarkOK DEF Refused
  <2>2. \A h \in Handles : phys'[h].refs + kept[h] + In(h, InHand(pc[t], call[t])) = phys[h].refs + kept'[h]
    <3> SUFFICES ASSUME NEW h \in Handles PROVE phys[h].refs + kept[h] + In(h, {}) = phys[h].refs + kept[h]
      BY <1>1, <1>3
    <3>1. In(h, {}) = 0 /\ phys[h].refs \in Int /\ kept[h] \in Int
      BY <1>1 DEF In, PhysOK
    <3> QED
      BY <3>1
  <2> QED
    BY <1>1, <2>1, <2>2, Ends
<1> QED
  BY <1>2, <1>3 DEF DRetain

\* A step of the deleter that keeps its reference in hand.
LEMMA HandStays ==
  ASSUME IInv, NEW t \in Threads, pc[t] \in Freeing, NEW p \in Freeing, Goto(t, p), UNCHANGED <<phys, call, kept, undo>>, UNCHANGED python,
         RangesOK(reserved'), MappingsOK(mapped')
  PROVE  IInv'
<1>1. PhysOK(phys') /\ call[t] \in Calls /\ call' = [call EXCEPT ![t] = call[t]] /\ pc' = [pc EXCEPT ![t] = p]
  BY Known, Same DEF Goto
<1>2. call[t].dh \in Handles /\ InHand(pc[t], call[t]) = {call[t].dh} /\ pc[t] \in Deallocation
  BY Hand
<1>3. \A h \in Handles : phys'[h].refs + In(h, InHand(pc[t], call[t])) = phys[h].refs + In(h, {call[t].dh})
  BY <1>2
<1> QED
  BY <1>1, <1>2, <1>3, GoesOn

\* The deleter unmaps.
LEMMA DUnmapKeeps == ASSUME IInv, NEW t \in Threads, DUnmap(t) PROVE IInv'
<1>1. RangesOK(reserved) /\ MappingsOK(mapped) /\ pc[t] \in Freeing /\ UNCHANGED <<phys, undo>> /\ UNCHANGED python
  BY Known DEF DUnmap, Freeing
<1>2. CASE mapped' = Unmapped(call[t].dptr, Granules(call[t].dsize)) /\ Goto(t, "d_free") /\ UNCHANGED <<reserved, call, kept>>
  <2>1. RangesOK(reserved') /\ MappingsOK(mapped') /\ "d_free" \in Freeing
    BY <1>1, <1>2, UnmappedOK DEF Freeing
  <2> QED
    BY <1>1, <1>2, <2>1, HandStays
<1>3. CASE Refused(t) /\ kept' = [kept EXCEPT ![call[t].dh] = @ + 1] /\ UNCHANGED mapped
  BY <1>1, <1>3, RefusedKeeps
<1> QED
  BY <1>2, <1>3 DEF DUnmap

\* The deleter frees the range.
LEMMA DFreeKeeps == ASSUME IInv, NEW t \in Threads, DFree(t) PROVE IInv'
<1>1. RangesOK(reserved) /\ MappingsOK(mapped) /\ pc[t] \in Freeing /\ UNCHANGED <<mapped, phys, undo>> /\ UNCHANGED python
  BY Known DEF DFree, Freeing
<1>2. CASE reserved' = Freed(call[t].dptr, Granules(call[t].dsize)) /\ Goto(t, "d_release") /\ UNCHANGED <<call, kept>>
  <2>1. RangesOK(reserved') /\ MappingsOK(mapped') /\ "d_release" \in Freeing
    BY <1>1, <1>2, FreedOK DEF Freeing
  <2> QED
    BY <1>1, <1>2, <2>1, HandStays
<1>3. CASE Refused(t) /\ kept' = [kept EXCEPT ![call[t].dh] = @ + 1]
  BY <1>1, <1>3, RefusedKeeps
<1> QED
  BY <1>2, <1>3 DEF DFree

\* The deleter gives its reference back.
LEMMA DReleaseKeeps == ASSUME IInv, NEW t \in Threads, DRelease(t) PROVE IInv'
<1> DEFINE h == call[t].dh
<1>1. /\ RangesOK(reserved) /\ PhysOK(phys) /\ kept \in [Handles -> Nat] /\ pc[t] \in Freeing
      /\ UNCHANGED <<reserved, mapped, kept, undo>> /\ UNCHANGED python /\ phys' = Unref(h) /\ Deallocated(t)
  BY Known DEF DRelease, Freeing
<1>2. h \in Handles /\ InHand(pc[t], call[t]) = {h} /\ phys[h].refs > 0 /\ pc[t] \in Deallocation
  BY <1>1, Hand
<1> HIDE DEF h
<1>3. PhysOK(phys')
  <2>1. PhysOK(Unref(h))
    BY <1>1, <1>2, RefOK
  <2> QED
    BY <1>1, <2>1
<1>4. ASSUME NEW x \in Handles
      PROVE  phys'[x].refs + kept[x] + In(x, InHand(pc[t], call[t])) = phys[x].refs + kept'[x]
  <2>1. Unref(h)[x].refs = phys[x].refs - In(x, {h})
    BY <1>1, <1>2, RefOK
  <2>2. phys[x].refs \in Int /\ kept[x] \in Int /\ kept'[x] = kept[x]
    BY <1>1 DEF PhysOK
  <2>3. PICK i \in Int : i = In(x, {h})
    BY DEF In
  <2>4. phys'[x].refs = phys[x].refs - i
    BY <1>1, <2>1, <2>3
  <2>5. phys'[x].refs + kept[x] + i = phys[x].refs + kept'[x]
    BY <2>2, <2>4
  <2> QED
    BY <1>2, <2>3, <2>5
<1>5. RangesOK(reserved') /\ kept' \in [Handles -> Nat]
  BY <1>1
<1> QED
  BY <1>1, <1>2, <1>3, <1>4, <1>5, Ends

-----------------------------------------------------------------------------
(* The invariant.                                                          *)

\* Nothing is allocated, nobody is at work.
LEMMA InitIInv == Init => IInv
<1> SUFFICES ASSUME Init PROVE IInv
  OBVIOUS
<1>1. /\ reserved = {} /\ mapped = {} /\ phys = [h \in Handles |-> [len |-> 0, refs |-> 0]]
      /\ buffer = [b \in Buffers |-> [open |-> FALSE, size |-> 0]]
      /\ box = [b \in Buffers |-> [ptr |-> 0, size |-> 0, holders |-> {}]]
      /\ kept = [h \in Handles |-> 0] /\ pc = [t \in Threads |-> "idle"] /\ call = [t \in Threads |-> Idle]
      /\ undo = [t \in Threads |-> <<>>]
  BY DEF Init, NoBuffer, NoBox
<1>2. 0 \in 0 .. Top
  BY GranIsPositive
<1>3. TypeOK /\ Bounded
  BY <1>1, <1>2 DEF TypeOK, Bounded, Steps
<1>4. Work
  <2>1. Idle \in Calls
    BY <1>2 DEF Idle, Calls
  <2>2. ASSUME NEW t \in Threads PROVE WorkOK(t)
    <3>1. pc[t] = "idle" /\ call[t] = Idle /\ undo[t] = <<>> /\ Len(undo[t]) = 0 /\ Idle.op = "none"
      BY <1>1 DEF Idle
    <3>2. StepOK("idle", Idle, 0) /\ CallOK("idle", Idle, 0)
      BY <3>1 DEF StepOK, CallOK
    <3>3. ListOK(undo[t], Plan(Idle, box[call[t].b].ptr), 0)
      BY <3>1, NoList
    <3> QED
      BY <3>1, <3>2, <3>3 DEF WorkOK, Fits
  <2>3. Apart
    BY <1>1 DEF Apart, Idle
  <2>4. call \in [Threads -> Calls] /\ undo \in [Threads -> Seq(Entries)]
    BY <1>1, <2>1
  <2> QED
    BY <2>2, <2>3, <2>4 DEF Work
<1>5. Counted
  <2> SUFFICES ASSUME NEW h \in Handles
               PROVE  phys[h].refs = kept[h] + Cardinality(Takers(h)) + Cardinality(Freers(h))
    BY DEF Counted
  <2>1. Takers(h) = {}
    BY <1>1 DEF Takers, Taken, Idle
  <2>2. Freers(h) = {}
    BY <1>1 DEF Freers, InHand, Freeing
  <2>3. Cardinality({}) = 0
    BY FS_EmptySet
  <2>4. phys[h].refs = 0 /\ kept[h] = 0
    BY <1>1
  <2> QED
    BY <2>1, <2>2, <2>3, <2>4
<1> QED
  BY <1>3, <1>4, <1>5 DEF IInv

\* Each step keeps it.
LEMMA NextKeeps == IInv /\ [Next]_vars => IInv'
<1> SUFFICES ASSUME IInv, [Next]_vars PROVE IInv'
  OBVIOUS
<1>1. ASSUME NEW t \in Threads, NEW b \in Buffers, NEW n \in Sizes, Allocate(t, b, n) \/ Reaccess(t, b, n) PROVE IInv'
  BY <1>1, AllocateKeeps, ReaccessKeeps
<1>2. ASSUME NEW t \in Threads, NEW b \in Buffers, NEW b2 \in Buffers, NEW n \in Sizes, Modify(t, b, b2, n) PROVE IInv'
  BY <1>2, ModifyKeeps
<1>3. ASSUME NEW t \in Threads,
             Probe(t) \/ ProbeFree(t) \/ Reserve(t) \/ Retain(t) \/ UnmapOld(t) \/ MapOld(t) \/ Create(t) \/ Map(t) \/ Access(t)
      PROVE  IInv'
  BY <1>3, ProbeKeeps, ProbeFreeKeeps, ReserveKeeps, RetainKeeps, UnmapOldKeeps, MapOldKeeps, CreateKeeps, MapKeeps, AccessKeeps
<1>4. ASSUME NEW t \in Threads, Rollback(t) \/ RolledBack(t) \/ FreeOld(t) \/ Clear(t) \/ Moved(t) PROVE IInv'
  BY <1>4, RollbackKeeps, RolledBackKeeps, FreeOldKeeps, ClearKeeps, MovedKeeps
<1>5. ASSUME NEW t \in Threads, NEW b \in Buffers, Close(t, b) \/ DropGraph(t, b) PROVE IInv'
  BY <1>5, CloseKeeps, DropGraphKeeps
<1>6. ASSUME NEW t \in Threads, DRetain(t) \/ DUnmap(t) \/ DFree(t) \/ DRelease(t) PROVE IInv'
  BY <1>6, DRetainKeeps, DUnmapKeeps, DFreeKeeps, DReleaseKeeps
<1>7. ASSUME NEW b \in Buffers, Share(b) PROVE IInv'
  BY <1>7, ShareKeeps
<1>8. CASE UNCHANGED vars
  <2>1. UNCHANGED <<reserved, phys, kept, pc, call, undo, buffer>> /\ UNCHANGED <<mapped, box>>
    BY <1>8 DEF vars, driver, python
  <2>2. MappingsOK(mapped') /\ BuffersOK(buffer', box')
    BY <2>1, TypeParts DEF IInv
  <2> QED
    BY <2>1, <2>2, NobodyMoves
<1> QED
  BY <1>1, <1>2, <1>3, <1>4, <1>5, <1>6, <1>7, <1>8 DEF Next

\* What a thread at each step has done, and who holds the references.
THEOREM Invariant == Spec => []IInv
  BY InitIInv, NextKeeps, PTL DEF Spec

\* The types; the driver's reservations and mappings never overlap, and an
\* open Buffer holds its box at the size its deleter will use.
THEOREM TypeCorrect == Spec => []TypeOK
<1>1. IInv => TypeOK
  BY DEF IInv
<1> QED
  BY <1>1, Invariant, PTL

-----------------------------------------------------------------------------
(* The entries that release.                                               *)

\* Where a transaction of k entries has one that gives back h.
Where(c, k, i, h) ==
    /\ i <= k
    /\ \/ c.op = "grow" /\ ((k + 1 - i = 2 /\ c.old = h) \/ (k + 1 - i = 5 /\ c.h = h))
       \/ c.op = "allocate" /\ k + 1 - i = 1 /\ c.h = h

\* The entry at i gives back h just when Where says so.
LEMMA Entry ==
  ASSUME IInv, NEW t \in Threads, NEW h \in Handles, NEW i \in 1 .. 8
  PROVE  Releases(t, i, h) <=> Where(call[t], Len(undo[t]), i, h)
<1> DEFINE c == call[t]
           k == Len(undo[t])
           plan == Plan(c, OldPtr(t))
<1>1. /\ k \in Nat /\ ListOK(undo[t], plan, k) /\ StepOK(pc[t], c, k)
  BY Known
<1>2. k <= Len(plan) /\ \A j \in 1 .. k : undo[t][j] = plan[k + 1 - j]
  BY <1>1 DEF ListOK
<1>5. Releases(t, i, h) <=> i <= k /\ undo[t][i].do = "release" /\ undo[t][i].h = h
  BY DEF Releases
<1>6. /\ c.op = "grow" => /\ Len(plan) = 6 /\ plan[1] = Undo("free", c.ptr, Granules(c.new), None)
                          /\ plan[2] = Undo("release", 0, 0, c.old)
                          /\ plan[3] = Undo("remap", OldPtr(t), c.prev, c.old)
                          /\ plan[4] = Undo("unmap", c.ptr, c.prev, None)
                          /\ plan[5] = Undo("release", 0, 0, c.h)
                          /\ plan[6] = Undo("unmap", c.ptr + c.prev, Granules(c.new) - c.prev, None)
      /\ c.op # "grow" => /\ Len(plan) = 3 /\ plan[1] = Undo("release", 0, 0, c.h)
                          /\ plan[2] = Undo("free", c.ptr, Granules(c.new), None)
                          /\ plan[3] = Undo("unmap", c.ptr, Granules(c.new), None)
  BY GrowPlan, AllocatePlan
<1> SUFFICES Releases(t, i, h) <=> Where(c, k, i, h)
  OBVIOUS
<1> HIDE DEF plan, k, c
<1>3. CASE c.op = "grow"
  <2>1. /\ Len(plan) = 6
        /\ plan[1].do = "free" /\ plan[2].do = "release" /\ plan[2].h = c.old /\ plan[3].do = "remap"
        /\ plan[4].do = "unmap" /\ plan[5].do = "release" /\ plan[5].h = c.h /\ plan[6].do = "unmap"
    BY <1>3, <1>6 DEF Undo
  <2>2. ASSUME i <= k PROVE undo[t][i] = plan[k + 1 - i] /\ k + 1 - i \in {1, 2, 3, 4, 5, 6}
    <3>1. i \in 1 .. k /\ k <= 6 /\ k + 1 - i \in 1 .. 6
      BY <1>1, <1>2, <2>1, <2>2
    <3> QED
      BY <1>2, <3>1
  <2>4. CASE i <= k
    <3>1. PICK j \in {1, 2, 3, 4, 5, 6} : j = k + 1 - i
      BY <2>2, <2>4
    <3>2. undo[t][i] = plan[j]
      BY <2>2, <2>4, <3>1
    <3>3. Where(c, k, i, h) <=> ((j = 2 /\ c.old = h) \/ (j = 5 /\ c.h = h))
      BY <1>3, <2>4, <3>1 DEF Where
    <3>4. Releases(t, i, h) <=> plan[j].do = "release" /\ plan[j].h = h
      BY <1>5, <2>4, <3>2
    <3>5. CASE j = 2
      BY <2>1, <3>3, <3>4, <3>5
    <3>6. CASE j = 5
      BY <2>1, <3>3, <3>4, <3>6
    <3>7. CASE j \notin {2, 5}
      <4>1. plan[j].do # "release"
        BY <2>1, <3>1, <3>7
      <4> QED
        BY <3>3, <3>4, <3>7, <4>1
    <3> QED
      BY <3>5, <3>6, <3>7
  <2>5. CASE ~(i <= k)
    BY <1>5, <2>5 DEF Where
  <2> QED
    BY <2>4, <2>5
<1>4. CASE c.op # "grow"
  <2>1. /\ Len(plan) = 3
        /\ plan[1].do = "release" /\ plan[1].h = c.h /\ plan[2].do = "free" /\ plan[3].do = "unmap"
    BY <1>4, <1>6 DEF Undo
  <2>2. ASSUME i <= k PROVE undo[t][i] = plan[k + 1 - i] /\ k + 1 - i \in {1, 2, 3}
    <3>1. i \in 1 .. k /\ k <= 3 /\ k + 1 - i \in 1 .. 3
      BY <1>1, <1>2, <2>1, <2>2
    <3> QED
      BY <1>2, <3>1
  <2>3. i <= k => c.op = "allocate"
    <3>1. k >= 1 => c.op = "allocate"
      BY <1>1, <1>4 DEF StepOK
    <3> QED
      BY <1>1, <3>1
  <2>5. CASE i <= k
    <3>1. PICK j \in {1, 2, 3} : j = k + 1 - i
      BY <2>2, <2>5
    <3>2. undo[t][i] = plan[j]
      BY <2>2, <2>5, <3>1
    <3>3. Where(c, k, i, h) <=> (j = 1 /\ c.h = h)
      BY <1>4, <2>3, <2>5, <3>1 DEF Where
    <3>4. Releases(t, i, h) <=> plan[j].do = "release" /\ plan[j].h = h
      BY <1>5, <2>5, <3>2
    <3>5. plan[j].do = "release" /\ plan[j].h = h <=> j = 1 /\ c.h = h
      BY <2>1
    <3> QED
      BY <3>3, <3>4, <3>5
  <2>6. CASE ~(i <= k)
    BY <1>5, <2>6 DEF Where
  <2> QED
    BY <2>5, <2>6
<1> QED
  BY <1>3, <1>4

\* A transaction has one entry for each handle that it will release, and no
\* more: a growth never has the old memory and the new one under one handle.
LEMMA OneEntry ==
  ASSUME IInv, NEW t \in Threads, NEW h \in Handles
  PROVE  /\ t \in Takers(h) <=> \E i \in 1 .. 8 : Releases(t, i, h)
         /\ \A i, j \in 1 .. 8 : Releases(t, i, h) /\ Releases(t, j, h) => i = j
<1> DEFINE c == call[t]
           k == Len(undo[t])
<1>1. k \in Nat /\ k <= 6 /\ (c.op = "grow" /\ k >= 5 => c.h # c.old)
  <2>1. k \in Nat /\ k <= Len(Plan(c, OldPtr(t))) /\ CallOK(pc[t], c, k)
    BY Known DEF ListOK
  <2> HIDE DEF c, k
  <2>2. PICK n \in {3, 6} : n = Len(Plan(c, OldPtr(t)))
    BY GrowPlan, AllocatePlan
  <2>3. k \in Nat /\ k <= 6
    BY <2>1, <2>2
  <2> QED
    BY <2>1, <2>3 DEF CallOK
<1>2. t \in Takers(h) <=> h \in Taken(c, k)
  BY DEF Takers
<1>3. \A i \in 1 .. 8 : Releases(t, i, h) <=> Where(c, k, i, h)
  BY Entry
<1> HIDE DEF c, k
<1>4. h \in Taken(c, k) <=> \E i \in 1 .. 8 : Where(c, k, i, h)
  <2>1. ASSUME h \in Taken(c, k) PROVE \E i \in 1 .. 8 : Where(c, k, i, h)
    <3>1. CASE c.op = "grow" /\ k >= 2 /\ h = c.old
      <4>0. \A n \in Nat : n >= 2 /\ n <= 6 => n - 1 \in 1 .. 8 /\ n - 1 <= n /\ n + 1 - (n - 1) = 2
        OBVIOUS
      <4>1. k - 1 \in 1 .. 8 /\ k - 1 <= k /\ k + 1 - (k - 1) = 2
        BY <1>1, <3>1, <4>0
      <4>2. Where(c, k, k - 1, h)
        BY <3>1, <4>1 DEF Where
      <4> QED
        BY <4>1, <4>2
    <3>2. CASE c.op = "grow" /\ k >= 5 /\ h = c.h
      <4>1. k - 4 \in 1 .. 8 /\ k - 4 <= k /\ k + 1 - (k - 4) = 5
        BY <1>1, <3>2
      <4>2. Where(c, k, k - 4, h)
        BY <3>2, <4>1 DEF Where
      <4> QED
        BY <4>1, <4>2
    <3>3. CASE c.op = "allocate" /\ k >= 1 /\ h = c.h
      <4>1. k \in 1 .. 8 /\ k <= k /\ k + 1 - k = 1
        BY <1>1, <3>3
      <4>2. Where(c, k, k, h)
        BY <3>3, <4>1 DEF Where
      <4> QED
        BY <4>1, <4>2
    <3> QED
      BY <2>1, <3>1, <3>2, <3>3 DEF Taken
  <2>2. ASSUME NEW i \in 1 .. 8, Where(c, k, i, h) PROVE h \in Taken(c, k)
    BY <1>1, <2>2 DEF Where, Taken
  <2> QED
    BY <2>1, <2>2
<1>5. ASSUME NEW i \in 1 .. 8, NEW j \in 1 .. 8, Where(c, k, i, h), Where(c, k, j, h) PROVE i = j
  BY <1>1, <1>5 DEF Where
<1> QED
  BY <1>2, <1>3, <1>4, <1>5

\* Threads and their entries for a handle correspond.
LEMMA EntriesCount ==
  ASSUME IInv, NEW h \in Handles
  PROVE  Cardinality({e \in Threads \X (1 .. 8) : Releases(e[1], e[2], h)}) = Cardinality(Takers(h))
<1> DEFINE S == Takers(h)
           E == {e \in Threads \X (1 .. 8) : Releases(e[1], e[2], h)}
           f == [t \in S |-> <<t, CHOOSE i \in 1 .. 8 : Releases(t, i, h)>>]
<1>1. IsFiniteSet(S)
  <2>1. S \subseteq Threads
    BY DEF Takers
  <2> QED
    BY <2>1, InstanceIsFinite, FS_Subset
<1>2. ASSUME NEW t \in S PROVE t \in Threads /\ f[t][1] = t /\ f[t][2] \in 1 .. 8 /\ Releases(t, f[t][2], h) /\ f[t] \in E
  <2>1. t \in Threads
    BY DEF Takers
  <2>2. \E i \in 1 .. 8 : Releases(t, i, h)
    BY <2>1, OneEntry
  <2>3. PICK i \in 1 .. 8 : i = CHOOSE j \in 1 .. 8 : Releases(t, j, h)
    BY <2>2
  <2>4. Releases(t, i, h) /\ f[t] = <<t, i>>
    BY <2>2, <2>3
  <2> QED
    BY <2>1, <2>4
<1>3. ASSUME NEW e \in E PROVE \E t \in S : f[t] = e
  <2>1. PICK t \in Threads, i \in 1 .. 8 : e = <<t, i>> /\ Releases(t, i, h)
    OBVIOUS
  <2>2. t \in S
    BY <2>1, OneEntry
  <2>3. f[t][2] = i
    BY <1>2, <2>1, <2>2, OneEntry
  <2>4. f[t] = <<t, f[t][2]>>
    BY <2>2
  <2> QED
    BY <2>1, <2>2, <2>3, <2>4
<1>4. f \in Bijection(S, E)
  <2>1. f \in [S -> E]
    BY <1>2
  <2>2. \A t, u \in S : f[t] = f[u] => t = u
    BY <1>2
  <2> QED
    BY <1>3, <2>1, <2>2 DEF Bijection, Injection, Surjection, IsInjective
<1> QED
  BY <1>1, <1>4, FS_Bijection DEF ExistsBijection

\* No physical memory is leaked or released twice: every reference to an
\* allocation has exactly one owner, which will release it, or it is one of
\* those that commit let go of.
THEOREM References == Spec => []ReferencesAccounted
<1>1. IInv => ReferencesAccounted
  <2> SUFFICES ASSUME IInv, NEW h \in Handles
               PROVE  phys[h].refs = kept[h]
                          + Cardinality({e \in Threads \X (1 .. 8) : Releases(e[1], e[2], h)})
                          + Cardinality({t \in Threads : pc[t] \in {"d_unmap", "d_free", "d_release"} /\ call[t].dh = h})
    BY DEF ReferencesAccounted
  <2>1. phys[h].refs = kept[h] + Cardinality(Takers(h)) + Cardinality(Freers(h))
    BY DEF IInv, Counted
  <2>2. Cardinality({e \in Threads \X (1 .. 8) : Releases(e[1], e[2], h)}) = Cardinality(Takers(h))
    BY EntriesCount
  <2>3. Freers(h) = {t \in Threads : pc[t] \in {"d_unmap", "d_free", "d_release"} /\ call[t].dh = h}
    BY DEF Freers, InHand, Freeing
  <2> QED
    BY <2>1, <2>2, <2>3
<1> QED
  BY <1>1, Invariant, PTL

-----------------------------------------------------------------------------
(* Who claims which range.                                                 *)

Nowhere == [at |-> 0, n |-> 0]
Span(at, n) == IF n = 0 THEN Nowhere ELSE [at |-> at, n |-> n]
Own(c) == Cells(c.at, c.n)

Committed == {"free_old", "clear", "return"} \cup Deallocation

\* The range that a thread at step p with call c and k entries has reserved
\* and not yet handed over.
FreshLen(p, c, k) ==
    IF c.op = "grow"
    THEN IF p = "probe_free" THEN Granules(c.new) - c.prev
         ELSE IF k >= 1 \/ p \in Committed THEN Granules(c.new) ELSE 0
    ELSE IF c.op = "allocate" /\ k >= 2 THEN Granules(c.new) ELSE 0
FreshOf(p, c, k) == Span(c.ptr, FreshLen(p, c, k))
GoneOf(p, c) == Span(c.dptr, IF p \in {"d_retain", "d_unmap", "d_free"} THEN Granules(c.dsize) ELSE 0)
BoxOf(x) == Span(x.ptr, Granules(x.size))

Claimants == (Buffers \X {"box"}) \cup (Threads \X {"fresh", "gone"})
Claim == [i \in Claimants |->
            IF i[2] = "box" THEN BoxOf(box[i[1]])
            ELSE IF i[2] = "fresh" THEN FreshOf(pc[i[1]], call[i[1]], Len(undo[i[1]]))
            ELSE GoneOf(pc[i[1]], call[i[1]])]

Disjoint(cl) == \A i, j \in Claimants : i # j => Own(cl[i]) \cap Own(cl[j]) = {}
Tight(rs, cl) == \A r \in rs, i \in Claimants : Cells(r.base, r.len) \cap Own(cl[i]) # {} => r.base = cl[i].at /\ r.len = cl[i].n
Claimed(rs, cl) == \A r \in rs : r.is = "lost" \/ \E i \in Claimants : cl[i].at = r.base /\ cl[i].n = r.len
Housed(rs, ms) == \A m \in ms : \E r \in rs : Cells(m.base, m.len) \subseteq Cells(r.base, r.len)
Geo(rs, ms, cl) == Disjoint(cl) /\ Tight(rs, cl) /\ Claimed(rs, cl) /\ Housed(rs, ms)

-----------------------------------------------------------------------------
(* What is in a claimed range.                                             *)

Here(ms, c) == {m \in ms : Cells(m.base, m.len) \subseteq Own(c)}
Res(at, n, is) == [base |-> at, len |-> n, is |-> is]
Bare(m) == [base |-> m.base, len |-> m.len, h |-> m.h]
Bares(S) == {Bare(m) : m \in S}
Part(at, n, h) == [base |-> at, len |-> n, h |-> h]
FullIn(S, c) == \A a \in Own(c) : \E m \in S : a \in Cells(m.base, m.len) /\ m.access

GrowParts(p, c, k) ==
    IF k = 6 \/ p \in Committed
    THEN {Part(c.ptr, c.prev, c.old), Part(c.ptr + c.prev, Granules(c.new) - c.prev, c.h)}
    ELSE IF k \in {4, 5} THEN {Part(c.ptr, c.prev, c.old)} ELSE {}
AllocateParts(c, k) == IF k = 3 THEN {Part(c.ptr, Granules(c.new), c.h)} ELSE {}

\* The range that thread t is making, with F mapped in it.
FreshOK(p, c, k, F, rs) ==
    /\ c.op = "grow" => Bares(F) = GrowParts(p, c, k)
    /\ c.op = "allocate" => Bares(F) = AllocateParts(c, k) \/ (p = "rollback" /\ F = {})
    /\ FreshLen(p, c, k) # 0 => Res(c.ptr, FreshLen(p, c, k), IF p \in Committed THEN "owned" ELSE "pending") \in rs
    /\ p \in Committed => \A m \in F : m.access

\* The range that it deallocates, with G mapped in it.
GoneOK(p, c, G, rs) ==
    /\ p \in {"d_retain", "d_unmap", "d_free"} => c.dsize > 0
    /\ p \in {"d_retain", "d_unmap"} /\ Res(c.dptr, Granules(c.dsize), "owned") \in rs => FullIn(G, GoneOf(p, c))
    /\ p = "d_free" => G = {}

\* The memory that it moves, from a Buffer with contents ct and mappings O.
OldOK(p, c, k, at, size, ct, O, ph) ==
    c.op = "grow" =>
        /\ Works(p) => size < c.new /\ c.prev = Granules(c.new) - Granules(c.new - size)
        /\ k >= 2 \/ p \in {"free_old", "clear"} =>
              \A i \in 1 .. Len(ct) : i <= ph[c.old].len => <<c.old, i - 1>> \in ct[i]
        /\ p = "unmap_old" => \E m \in O : m.base = at /\ m.h = c.old
        /\ k >= 3 => ph[c.old].len <= c.prev
\* The memory that it has made.
NewOK(p, c, ph) == p = "map" \/ (p = "reserve" /\ c.op = "allocate") => ph[c.h].len = Granules(c.new) - c.prev

ToOK(c) == c.op \in {"grow", "allocate"} => ~buffer[c.to].open /\ box[c.to].holders = {}

ThreadOK(t) ==
    LET p == pc[t]  c == call[t]  k == Len(undo[t]) IN
    /\ FreshOK(p, c, k, Here(mapped, FreshOf(p, c, k)), reserved)
    /\ GoneOK(p, c, Here(mapped, GoneOf(p, c)), reserved)
    /\ OldOK(p, c, k, box[c.b].ptr, buffer[c.b].size, content[c.b], Here(mapped, BoxOf(box[c.b])), phys)
    /\ NewOK(p, c, phys)
    /\ ToOK(c)

\* What is mapped in an open Buffer is what was there.
Agrees(S, at, ct) == \A m \in S : \A a \in Cells(m.base, m.len) : <<m.h, a - m.base>> \in ct[a - at + 1]

BoxOK(x, bf, ct, S, rs) ==
    /\ x.holders = {} => x = NoBox
    /\ x.holders # {} => x.size > 0
    /\ Res(x.ptr, Granules(x.size), "owned") \in rs => FullIn(S, BoxOf(x))
    /\ bf.open => Len(ct) = Granules(x.size) /\ Agrees(S, x.ptr, ct)

\* The Buffers whose range a growth has just freed.
Cleared == {b \in Buffers : \E t \in Threads : pc[t] = "clear" /\ call[t].b = b}
Standing(x, rs) == \E is \in {"owned", "leaving"} : Res(x.ptr, Granules(x.size), is) \in rs
BufferOK(b) == /\ BoxOK(box[b], buffer[b], content[b], Here(mapped, BoxOf(box[b])), reserved)
               /\ buffer[b].open => b \in Cleared \/ Standing(box[b], reserved)

Whole == \A m \in mapped : m.len = phys[m.h].len

BInv == /\ content \in [Buffers -> Seq(SUBSET (Handles \X Nat))]
        /\ Geo(reserved, mapped, Claim)
        /\ Whole
        /\ \A b \in Buffers : BufferOK(b)
        /\ \A t \in Threads : ThreadOK(t)

-----------------------------------------------------------------------------
(* Ranges.                                                                 *)

Ranges == [at : Nat, n : Nat]

\* The cells of a range.
LEMMA CellsAre ==
  ASSUME NEW at \in Nat, NEW n \in Nat
  PROVE  /\ \A a : a \in Cells(at, n) <=> a \in Nat /\ at <= a /\ a < at + n
         /\ n = 0 => Cells(at, n) = {}
         /\ n # 0 => at \in Cells(at, n)
  BY DEF Cells

\* What a range of n granules from at is.
LEMMA SpanIs ==
  ASSUME NEW at \in Nat, NEW n \in Nat
  PROVE  /\ Span(at, n) \in Ranges /\ Own(Span(at, n)) = Cells(at, n)
         /\ Span(at, n).n = n /\ (n # 0 => Span(at, n).at = at)
         /\ Nowhere \in Ranges /\ Own(Nowhere) = {} /\ Nowhere.n = 0
<1>1. Nowhere.at = 0 /\ Nowhere.n = 0 /\ Nowhere \in Ranges
  BY DEF Nowhere, Ranges
<1>2. Own(Nowhere) = {}
  BY <1>1, CellsAre DEF Own
<1>3. CASE n = 0
  BY <1>1, <1>2, <1>3, CellsAre DEF Span
<1>4. CASE n # 0
  BY <1>1, <1>2, <1>4 DEF Span, Own, Ranges
<1> QED
  BY <1>3, <1>4

\* A range is never empty where a cell of it is.
LEMMA OwnCells ==
  ASSUME NEW c \in Ranges
  PROVE  /\ Own(c) = Cells(c.at, c.n)
         /\ c.n = 0 <=> Own(c) = {}
         /\ c.n # 0 => c.at \in Own(c)
<1>1. c.at \in Nat /\ c.n \in Nat
  BY DEF Ranges
<1> QED
  BY <1>1, CellsAre DEF Own

\* Nothing needs no granules.
LEMMA NoGranules == Granules(0) = 0
<1>1. Gran \in Nat /\ Gran >= 1
  BY GranIsPositive
<1>2. (0 + Gran - 1) \div Gran = 0
  BY <1>1
<1> QED
  BY <1>2 DEF Granules

\* Sizes of two parts.
LEMMA GranulesOfParts ==
  ASSUME NEW m \in Nat, NEW n \in Nat
  PROVE  Granules(m + n) <= Granules(m) + Granules(n)
<1>1. Gran \in Nat /\ Gran >= 1
  BY GranIsPositive
<1>2. PICK a, b \in Nat : a = Granules(m) /\ b = Granules(n)
  BY GranulesNat
<1>3. ASSUME NEW x \in Nat PROVE x <= Gran * Granules(x)
  <2>1. x + Gran - 1 \in Nat
    BY <1>1
  <2>2. PICK q \in Nat : q = (x + Gran - 1) \div Gran
    BY <1>1, <2>1
  <2>3. x + Gran - 1 = Gran * q + ((x + Gran - 1) % Gran) /\ (x + Gran - 1) % Gran \in 0 .. Gran - 1
    BY <1>1, <2>1, <2>2
  <2>4. PICK r \in 0 .. Gran - 1 : r = (x + Gran - 1) % Gran
    BY <2>3
  <2>5. PICK g \in Nat : g = Gran * q
    BY <1>1
  <2>6. x + Gran - 1 = g + r
    BY <2>3, <2>4, <2>5
  <2>7. x <= g
    BY <1>1, <2>6
  <2> QED
    BY <2>2, <2>5, <2>7 DEF Granules
<1>4. m + n <= Gran * (a + b)
  <2>1. m <= Gran * a /\ n <= Gran * b
    BY <1>2, <1>3
  <2>2. Gran * (a + b) = Gran * a + Gran * b
    BY <1>1
  <2>3. PICK x, y \in Nat : x = Gran * a /\ y = Gran * b
    BY <1>1
  <2> QED
    BY <2>1, <2>2, <2>3
<1>5. (Gran * (a + b) + Gran - 1) \div Gran = a + b
  <2>1. PICK c \in Nat : c = a + b
    BY <1>2
  <2>2. (Gran * c + (Gran - 1)) \div Gran = c
    BY <1>1
  <2> QED
    BY <1>1, <2>1, <2>2
<1>6. Gran * (a + b) \in Nat
  BY <1>1
<1>7. Granules(m + n) <= Granules(Gran * (a + b))
  BY <1>4, <1>6, GranulesMonotone
<1> QED
  BY <1>2, <1>5, <1>7 DEF Granules

\* A multiple of the granularity needs no rounding.
LEMMA GranulesOfMultiple ==
  ASSUME NEW k \in Nat
  PROVE  Gran * k \in Nat /\ Granules(Gran * k) = k /\ (k > 0 => Gran * k > 0)
<1>1. Gran \in Nat /\ Gran >= 1
  BY GranIsPositive
<1>2. (Gran * k + (Gran - 1)) \div Gran = k
  BY <1>1
<1>3. k > 0 => Gran * k > 0
  BY <1>1
<1> QED
  BY <1>1, <1>2, <1>3 DEF Granules

\* What rounding up the extension leaves of the new size is the old size, when that is a multiple.
LEMMA GranulesLess ==
  ASSUME NEW n \in Nat, NEW s \in Nat, s <= n, s % Gran = 0
  PROVE  Granules(n) - Granules(n - s) = Granules(s)
<1>1. Gran \in Nat /\ Gran >= 1
  BY GranIsPositive
<1>2. PICK j \in Nat : s = Gran * j
  <2>1. s = Gran * (s \div Gran) + (s % Gran) /\ s \div Gran \in Nat
    BY <1>1
  <2> QED
    BY <1>1, <2>1
<1>3. Granules(s) = j
  BY <1>2, GranulesOfMultiple
<1>4. PICK x \in Nat : x = n - s + Gran - 1
  BY <1>1
<1>5. PICK q \in Nat : q = x \div Gran
  BY <1>1
<1>6. (x + Gran * j) \div Gran = q + j
  <2>1. PICK r \in 0 .. Gran - 1 : x = Gran * q + r
    <3>1. x = Gran * (x \div Gran) + (x % Gran) /\ x % Gran \in 0 .. Gran - 1
      BY <1>1
    <3> QED
      BY <1>5, <3>1
  <2>2. x + Gran * j = Gran * (q + j) + r
    BY <1>1, <2>1
  <2>3. \A c \in Nat : (Gran * c + r) \div Gran = c
    BY <1>1
  <2> QED
    BY <2>2, <2>3
<1>7. n + Gran - 1 = x + Gran * j
  BY <1>1, <1>2, <1>4
<1> QED
  BY <1>3, <1>4, <1>5, <1>6, <1>7 DEF Granules

-----------------------------------------------------------------------------
(* Claims.                                                                 *)

\* The claims of the boxes and of the threads.
LEMMA Claims ==
  /\ \A b \in Buffers : <<b, "box">> \in Claimants /\ Claim[<<b, "box">>] = BoxOf(box[b])
  /\ \A t \in Threads : /\ <<t, "fresh">> \in Claimants /\ <<t, "gone">> \in Claimants
                        /\ Claim[<<t, "fresh">>] = FreshOf(pc[t], call[t], Len(undo[t]))
                        /\ Claim[<<t, "gone">>] = GoneOf(pc[t], call[t])
  /\ \A i \in Claimants : \/ \E b \in Buffers : i = <<b, "box">>
                          \/ \E t \in Threads : i = <<t, "fresh">> \/ i = <<t, "gone">>
  BY DEF Claimants, Claim

\* The lengths of the ranges.
LEMMA LensNat ==
  ASSUME IInv, NEW t \in Threads
  PROVE  /\ FreshLen(pc[t], call[t], Len(undo[t])) \in Nat
         /\ FreshOf(pc[t], call[t], Len(undo[t])) \in Ranges
         /\ GoneOf(pc[t], call[t]) \in Ranges
<1>1. call[t] \in Calls /\ CallOK(pc[t], call[t], Len(undo[t]))
  BY Known
<1>2. /\ call[t].ptr \in Nat /\ call[t].dptr \in Nat /\ call[t].prev \in Nat
      /\ Granules(call[t].new) \in Nat /\ Granules(call[t].dsize) \in Nat
  <2>1. /\ call[t].ptr \in 0 .. Top /\ call[t].dptr \in 0 .. Top /\ call[t].prev \in Nat
        /\ call[t].new \in Nat /\ call[t].dsize \in Nat
    BY <1>1 DEF Calls
  <2>2. call[t].ptr \in Nat /\ call[t].dptr \in Nat
    BY <2>1, GranIsPositive
  <2> QED
    BY <2>1, <2>2, GranulesNat
<1>3. call[t].op = "grow" => Granules(call[t].new) - call[t].prev \in Nat
  BY <1>1, <1>2 DEF CallOK
<1>4. FreshLen(pc[t], call[t], Len(undo[t])) \in Nat
  <2>1. CASE call[t].op = "grow"
    BY <1>2, <1>3, <2>1 DEF FreshLen
  <2>2. CASE call[t].op # "grow"
    BY <1>2, <2>2 DEF FreshLen
  <2> QED
    BY <2>1, <2>2
<1>5. FreshOf(pc[t], call[t], Len(undo[t])) \in Ranges
  BY <1>2, <1>4, SpanIs DEF FreshOf
<1>6. GoneOf(pc[t], call[t]) \in Ranges
  BY <1>2, SpanIs DEF GoneOf
<1> QED
  BY <1>4, <1>5, <1>6

\* What a box claims.
LEMMA BoxRange ==
  ASSUME BuffersOK(buffer, box), NEW b \in Buffers
  PROVE  /\ box[b].ptr \in Nat /\ box[b].size \in Nat /\ Granules(box[b].size) \in Nat
         /\ BoxOf(box[b]) \in Ranges /\ BoxOf(box[b]).n = Granules(box[b].size)
         /\ Own(BoxOf(box[b])) = Cells(box[b].ptr, Granules(box[b].size))
         /\ Granules(box[b].size) # 0 => BoxOf(box[b]).at = box[b].ptr
<1>1. box[b].ptr \in Nat /\ box[b].size \in Nat
  BY GranIsPositive DEF BuffersOK
<1>2. Granules(box[b].size) \in Nat
  BY <1>1, GranulesNat
<1> QED
  BY <1>1, <1>2, SpanIs DEF BoxOf

\* Claims are ranges of addresses.
LEMMA ClaimsAreRanges == ASSUME IInv PROVE Claim \in [Claimants -> Ranges]
<1>1. BuffersOK(buffer, box)
  BY TypeParts DEF IInv
<1>2. ASSUME NEW i \in Claimants PROVE Claim[i] \in Ranges
  <2>1. CASE \E b \in Buffers : i = <<b, "box">>
    BY <1>1, <2>1, Claims, BoxRange
  <2>2. CASE \E t \in Threads : i = <<t, "fresh">> \/ i = <<t, "gone">>
    BY <2>2, Claims, LensNat
  <2> QED
    BY <2>1, <2>2, Claims
<1>3. Claim = [i \in Claimants |-> Claim[i]]
  BY DEF Claim
<1> QED
  BY <1>2, <1>3

\* After a step of one thread that changes one box, or none.
LEMMA ClaimMoves ==
  ASSUME IInv, NEW t \in Threads, NEW p, NEW c, NEW s, Goes(t, p, c, s),
         NEW B \in SUBSET Buffers, \A x \in Buffers \ B : BoxOf(box'[x]) = BoxOf(box[x])
  PROVE  /\ Claim'[<<t, "fresh">>] = FreshOf(p, c, Len(s)) /\ Claim'[<<t, "gone">>] = GoneOf(p, c)
         /\ \A x \in Buffers : Claim'[<<x, "box">>] = BoxOf(box'[x])
         /\ \A i \in Claimants : i \notin {<<t, "fresh">>, <<t, "gone">>} \cup (B \X {"box"}) => Claim'[i] = Claim[i]
<1>1. /\ \A b \in Buffers : Claim'[<<b, "box">>] = BoxOf(box'[b])
      /\ \A u \in Threads : /\ Claim'[<<u, "fresh">>] = FreshOf(pc'[u], call'[u], Len(undo'[u]))
                            /\ Claim'[<<u, "gone">>] = GoneOf(pc'[u], call'[u])
  BY DEF Claimants, Claim
<1>2. \A b \in Buffers : Claim[<<b, "box">>] = BoxOf(box[b])
  BY Claims
<1>3. \A u \in Threads : /\ Claim[<<u, "fresh">>] = FreshOf(pc[u], call[u], Len(undo[u]))
                         /\ Claim[<<u, "gone">>] = GoneOf(pc[u], call[u])
  BY Claims
<1>4. /\ Claim'[<<t, "fresh">>] = FreshOf(p, c, Len(s)) /\ Claim'[<<t, "gone">>] = GoneOf(p, c)
  BY <1>1 DEF Goes
<1>5. ASSUME NEW i \in Claimants, i \notin {<<t, "fresh">>, <<t, "gone">>} \cup (B \X {"box"}) PROVE Claim'[i] = Claim[i]
  <2>1. CASE \E b \in Buffers : i = <<b, "box">>
    <3>1. PICK b \in Buffers : i = <<b, "box">>
      BY <2>1
    <3>2. b \notin B
      BY <1>5, <3>1
    <3> QED
      BY <1>1, <1>2, <3>1, <3>2
  <2>2. CASE \E u \in Threads : i = <<u, "fresh">> \/ i = <<u, "gone">>
    <3>1. PICK u \in Threads : i = <<u, "fresh">> \/ i = <<u, "gone">>
      BY <2>2
    <3>2. u # t
      BY <1>5, <3>1
    <3>3. pc'[u] = pc[u] /\ call'[u] = call[u] /\ undo'[u] = undo[u]
      BY <3>2 DEF Goes
    <3> QED
      BY <1>1, <1>3, <3>1, <3>3
  <2> QED
    BY <2>1, <2>2, Claims
<1> QED
  BY <1>1, <1>4, <1>5

-----------------------------------------------------------------------------
(* Who claims what, as it changes.                                         *)

\* A new reservation in a free place, claimed by someone who had no claim.
LEMMA GeoAdd ==
  ASSUME NEW rs, NEW ms, \A r \in rs : r.len # 0, NEW cl \in [Claimants -> Ranges], NEW cl2 \in [Claimants -> Ranges],
         Geo(rs, ms, cl), NEW i \in Claimants, NEW a \in Nat, NEW n \in Nat,
         cl[i].n = 0, cl2[i] = [at |-> a, n |-> n], \A j \in Claimants \ {i} : cl2[j] = cl[j],
         \A j \in Claimants : Own(cl[j]) \cap Cells(a, n) = {},
         \A r \in rs : Cells(r.base, r.len) \cap Cells(a, n) = {}
  PROVE  Geo(rs \cup {Res(a, n, "pending")}, ms, cl2)
<1>1. Own(cl2[i]) = Cells(a, n) /\ cl2[i].at = a /\ cl2[i].n = n
  BY DEF Own
<1>2. Disjoint(cl2)
  BY <1>1 DEF Geo, Disjoint
<1> DEFINE new == Res(a, n, "pending")
<1>3. new.base = a /\ new.len = n
  BY DEF Res
<1> HIDE DEF new
<1>4. Tight(rs \cup {new}, cl2)
  <2> SUFFICES ASSUME NEW r \in rs \cup {new}, NEW j \in Claimants, Cells(r.base, r.len) \cap Own(cl2[j]) # {}
               PROVE  r.base = cl2[j].at /\ r.len = cl2[j].n
    BY DEF Tight
  <2>1. CASE j = i
    BY <1>1, <1>3, <2>1
  <2>2. CASE j # i
    BY <1>3, <2>2 DEF Geo, Tight
  <2> QED
    BY <2>1, <2>2
<1>5. Claimed(rs \cup {new}, cl2)
  <2> SUFFICES ASSUME NEW r \in rs \cup {new}, r.is # "lost" PROVE \E j \in Claimants : cl2[j].at = r.base /\ cl2[j].n = r.len
    BY DEF Claimed
  <2>1. CASE r = new
    BY <1>1, <1>3, <2>1
  <2>2. CASE r # new
    <3>1. PICK j \in Claimants : cl[j].at = r.base /\ cl[j].n = r.len
      BY <2>2 DEF Geo, Claimed
    <3>2. CASE j # i
      BY <3>1, <3>2
    <3>3. CASE j = i
      <4>1. r.len = 0
        BY <3>1, <3>3
      <4>2. r \in rs
        BY <2>2
      <4> QED
        BY <4>1, <4>2
    <3> QED
      BY <3>2, <3>3
  <2> QED
    BY <2>1, <2>2
<1>6. Housed(rs \cup {new}, ms)
  BY DEF Geo, Housed
<1> QED
  BY <1>2, <1>4, <1>5, <1>6 DEF Geo, new

\* Nothing appears: every reservation was there or is given up, and a claim
\* that goes leaves nothing behind.
Settles(rs, rs2, cl, cl2) ==
    /\ \A r2 \in rs2 : \E r \in rs : /\ r.base = r2.base /\ r.len = r2.len
                                     /\ \/ r.is # "lost" \/ r2.is = "lost"
                                        \/ \E i \in Claimants : cl2[i].at = r2.base /\ cl2[i].n = r2.len
    /\ \A i \in Claimants :
         cl2[i] = cl[i] \/ (cl2[i].n = 0 /\ \A r2 \in rs2 : r2.base = cl[i].at /\ r2.len = cl[i].n => r2.is = "lost")

\* Claims, reservations and mappings of which none has become more, and none of the ranges has moved.
LEMMA GeoSettles ==
  ASSUME NEW rs, NEW ms, NEW cl \in [Claimants -> Ranges], NEW rs2, NEW ms2, NEW cl2 \in [Claimants -> Ranges],
         Geo(rs, ms, cl), Settles(rs, rs2, cl, cl2), Housed(rs2, ms2)
  PROVE  Geo(rs2, ms2, cl2)
<1>1. \A i \in Claimants : cl2[i] = cl[i] \/ Own(cl2[i]) = {}
  BY OwnCells DEF Settles
<1>2. Disjoint(cl2)
  BY <1>1 DEF Geo, Disjoint
<1>3. Tight(rs2, cl2)
  <2> SUFFICES ASSUME NEW r2 \in rs2, NEW i \in Claimants, Cells(r2.base, r2.len) \cap Own(cl2[i]) # {}
               PROVE  r2.base = cl2[i].at /\ r2.len = cl2[i].n
    BY DEF Tight
  <2>1. PICK r \in rs : r.base = r2.base /\ r.len = r2.len
    BY DEF Settles
  <2>2. cl2[i] = cl[i]
    BY <1>1
  <2> QED
    BY <2>1, <2>2 DEF Geo, Tight
<1>4. Claimed(rs2, cl2)
  <2> SUFFICES ASSUME NEW r2 \in rs2, r2.is # "lost", ~\E i \in Claimants : cl2[i].at = r2.base /\ cl2[i].n = r2.len
               PROVE  FALSE
    BY DEF Claimed
  <2>1. PICK r \in rs : r.base = r2.base /\ r.len = r2.len /\ r.is # "lost"
    BY DEF Settles
  <2>2. PICK i \in Claimants : cl[i].at = r.base /\ cl[i].n = r.len
    BY <2>1 DEF Geo, Claimed
  <2> QED
    BY <2>1, <2>2 DEF Settles
<1> QED
  BY <1>2, <1>3, <1>4 DEF Geo

\* A claim goes from one claimant to another, who had none.
LEMMA GeoTransfer ==
  ASSUME NEW rs, NEW ms, \A r \in rs : r.len # 0, NEW cl \in [Claimants -> Ranges], NEW cl2 \in [Claimants -> Ranges],
         Geo(rs, ms, cl), NEW i \in Claimants, NEW j \in Claimants, i # j, cl[j].n = 0,
         cl2[j] = cl[i], cl2[i].n = 0, \A k \in Claimants \ {i, j} : cl2[k] = cl[k]
  PROVE  Geo(rs, ms, cl2)
<1>1. Own(cl2[i]) = {} /\ Own(cl2[j]) = Own(cl[i])
  BY OwnCells
<1>2. Disjoint(cl2)
  <2> SUFFICES ASSUME NEW k \in Claimants, NEW l \in Claimants, k # l PROVE Own(cl2[k]) \cap Own(cl2[l]) = {}
    BY DEF Disjoint
  <2>1. CASE k = i \/ l = i
    BY <1>1, <2>1
  <2>2. CASE k = j /\ l # i
    BY <1>1, <2>2 DEF Geo, Disjoint
  <2>3. CASE l = j /\ k # i
    BY <1>1, <2>3 DEF Geo, Disjoint
  <2>4. CASE k \notin {i, j} /\ l \notin {i, j}
    BY <2>4 DEF Geo, Disjoint
  <2> QED
    BY <2>1, <2>2, <2>3, <2>4
<1>3. Tight(rs, cl2)
  <2> SUFFICES ASSUME NEW r \in rs, NEW k \in Claimants, Cells(r.base, r.len) \cap Own(cl2[k]) # {}
               PROVE  r.base = cl2[k].at /\ r.len = cl2[k].n
    BY DEF Tight
  <2>1. CASE k = i
    BY <1>1, <2>1
  <2>2. CASE k = j
    BY <1>1, <2>2 DEF Geo, Tight
  <2>3. CASE k \notin {i, j}
    BY <2>3 DEF Geo, Tight
  <2> QED
    BY <2>1, <2>2, <2>3
<1>4. Claimed(rs, cl2)
  <2> SUFFICES ASSUME NEW r \in rs, r.is # "lost" PROVE \E k \in Claimants : cl2[k].at = r.base /\ cl2[k].n = r.len
    BY DEF Claimed
  <2>1. PICK k \in Claimants : cl[k].at = r.base /\ cl[k].n = r.len
    BY DEF Geo, Claimed
  <2>2. k # j
    BY <2>1
  <2> QED
    BY <2>1, <2>2
<1> QED
  BY <1>2, <1>3, <1>4 DEF Geo

-----------------------------------------------------------------------------
(* What is where.                                                          *)

\* A mapping has a first granule.
LEMMA MappingHas == ASSUME NEW ms, MappingsOK(ms), NEW m \in ms
                    PROVE  /\ m.base \in Nat /\ m.len \in Nat /\ m.len # 0 /\ m.h \in Handles /\ m.access \in BOOLEAN
                           /\ m.base \in Cells(m.base, m.len)
<1>1. m.base \in 0 .. Top /\ m.len \in 1 .. Top /\ m.h \in Handles /\ m.access \in BOOLEAN
  BY DEF MappingsOK
<1>2. m.base \in Nat /\ m.len \in Nat /\ m.len # 0
  BY <1>1, GranIsPositive
<1> QED
  BY <1>1, <1>2, CellsAre

\* A reservation has a first granule.
LEMMA RangeHas == ASSUME NEW rs, RangesOK(rs), NEW r \in rs
                  PROVE  r.base \in Nat /\ r.len \in Nat /\ r.len # 0 /\ r.base \in Cells(r.base, r.len)
<1>1. r.base \in 0 .. Top /\ r.len \in 1 .. Top
  BY DEF RangesOK
<1>2. r.base \in Nat /\ r.len \in Nat /\ r.len # 0
  BY <1>1, GranIsPositive
<1> QED
  BY <1>1, <1>2, CellsAre

\* Nothing is mapped nowhere.
LEMMA HereNowhere == ASSUME NEW ms, MappingsOK(ms), NEW c \in Ranges, c.n = 0 PROVE Here(ms, c) = {}
  BY MappingHas, OwnCells DEF Here

\* A mapping that touches a claim is inside it.
LEMMA Touching ==
  ASSUME NEW rs, NEW ms, NEW cl \in [Claimants -> Ranges], Geo(rs, ms, cl), NEW i \in Claimants, MappingsOK(ms)
  PROVE  /\ \A m \in ms : Cells(m.base, m.len) \cap Own(cl[i]) # {} => m \in Here(ms, cl[i])
         /\ \A m \in ms : m \in Here(ms, cl[i]) <=> m.base \in Own(cl[i])
<1>1. ASSUME NEW m \in ms, Cells(m.base, m.len) \cap Own(cl[i]) # {} PROVE m \in Here(ms, cl[i])
  <2>1. PICK r \in rs : Cells(m.base, m.len) \subseteq Cells(r.base, r.len)
    BY DEF Geo, Housed
  <2>2. r.base = cl[i].at /\ r.len = cl[i].n
    BY <1>1, <2>1 DEF Geo, Tight
  <2> QED
    BY <2>1, <2>2 DEF Own, Here
<1>2. ASSUME NEW m \in ms PROVE m \in Here(ms, cl[i]) <=> m.base \in Own(cl[i])
  BY <1>1, MappingHas DEF Here
<1> QED
  BY <1>1, <1>2

-----------------------------------------------------------------------------
(* What a step leaves alone.                                               *)

\* A step changes mappings and reservations only where they meet Z.
Confined(ms2, rs2, Z) ==
    /\ \A m \in mapped \cup ms2 : (m \in mapped /\ m \in ms2) \/ Cells(m.base, m.len) \cap Z # {}
    /\ \A r \in reserved \cup rs2 : (r \in reserved /\ r \in rs2) \/ Cells(r.base, r.len) \cap Z # {}
Left(ms2, rs2, c) ==
    /\ Here(ms2, c) = Here(mapped, c)
    /\ c.n # 0 => \A is : Res(c.at, c.n, is) \in rs2 <=> Res(c.at, c.n, is) \in reserved

\* A step that is confined elsewhere leaves a range alone.
LEMMA LeftAlone ==
  ASSUME NEW ms2, NEW rs2, NEW Z, Confined(ms2, rs2, Z), NEW c \in Ranges, Own(c) \cap Z = {}
  PROVE  Left(ms2, rs2, c)
<1>1. Here(ms2, c) = Here(mapped, c)
  BY DEF Confined, Here
<1>2. ASSUME NEW is PROVE Res(c.at, c.n, is) \in rs2 <=> Res(c.at, c.n, is) \in reserved
  <2>1. Res(c.at, c.n, is).base = c.at /\ Res(c.at, c.n, is).len = c.n
    BY DEF Res
  <2> QED
    BY <2>1 DEF Confined, Own
<1> QED
  BY <1>1, <1>2 DEF Left

\* Doing nothing is confined to any place.
LEMMA ConfinedSame == ASSUME NEW Z PROVE Confined(mapped, reserved, Z)
  BY DEF Confined

\* Unmapping inside a place is confined to it.
LEMMA ConfinedUnmapped ==
  ASSUME MappingsOK(mapped), NEW Z, NEW rs2, NEW a, NEW n, Cells(a, n) \subseteq Z, Confined(mapped, rs2, Z)
  PROVE  Confined(Unmapped(a, n), rs2, Z)
<1>1. ASSUME NEW m \in Inside(a, n) PROVE Cells(m.base, m.len) \cap Z # {}
  BY MappingHas DEF Inside
<1> QED
  BY <1>1 DEF Confined, Unmapped

\* So is mapping inside it.
LEMMA ConfinedMapping ==
  ASSUME NEW Z, NEW rs2, NEW a \in Nat, NEW n \in Nat, NEW h, n # 0, Cells(a, n) \subseteq Z, Confined(mapped, rs2, Z)
  PROVE  Confined(mapped \cup {Mapping(a, n, h)}, rs2, Z)
<1>1. Mapping(a, n, h).base = a /\ Mapping(a, n, h).len = n
  BY DEF Mapping
<1>2. Cells(a, n) \cap Z # {}
  BY CellsAre
<1> QED
  BY <1>1, <1>2 DEF Confined

\* What setting access does to the mappings.
LEMMA AccessIs ==
  ASSUME MappingsOK(mapped), NEW a, NEW n
  PROVE  /\ \A m \in WithAccess(a, n) : \/ m \in mapped /\ m \notin Inside(a, n)
                                        \/ m.access /\ \E o \in Inside(a, n) : Bare(m) = Bare(o)
         /\ \A o \in mapped \ Inside(a, n) : o \in WithAccess(a, n)
         /\ \A o \in Inside(a, n) : \E m \in WithAccess(a, n) : Bare(m) = Bare(o) /\ m.access
<1> DEFINE f(m) == IF m \in Inside(a, n) THEN [m EXCEPT !.access = TRUE] ELSE m
<1>1. WithAccess(a, n) = {f(m) : m \in mapped}
  BY DEF WithAccess
<1>2. \A m \in mapped : /\ m \in Inside(a, n) => f(m).base = m.base /\ f(m).len = m.len /\ f(m).h = m.h /\ f(m).access = TRUE
                        /\ m \notin Inside(a, n) => f(m) = m
  BY DEF MappingsOK
<1>3. Inside(a, n) \subseteq mapped
  BY DEF Inside
<1> HIDE DEF f
<1>4. \A m \in mapped : m \in Inside(a, n) => Bare(f(m)) = Bare(m)
  BY <1>2 DEF Bare
<1> QED
  BY <1>1, <1>2, <1>3, <1>4

\* Mappings that differ in access only.
LEMMA BareIs == ASSUME NEW m, NEW o, Bare(m) = Bare(o) PROVE m.base = o.base /\ m.len = o.len /\ m.h = o.h
  BY DEF Bare

\* So is setting access inside it.
LEMMA ConfinedAccess ==
  ASSUME MappingsOK(mapped), NEW Z, NEW rs2, NEW a, NEW n, Cells(a, n) \subseteq Z, Confined(mapped, rs2, Z)
  PROVE  Confined(WithAccess(a, n), rs2, Z)
<1>1. ASSUME NEW m \in Inside(a, n) PROVE Cells(m.base, m.len) \cap Z # {}
  BY MappingHas DEF Inside
<1>2. ASSUME NEW m \in WithAccess(a, n) PROVE (m \in mapped /\ m \notin Inside(a, n)) \/ Cells(m.base, m.len) \cap Z # {}
  BY <1>1, AccessIs, BareIs
<1>3. \A m \in mapped : m \in WithAccess(a, n) \/ m \in Inside(a, n)
  BY AccessIs
<1> QED
  BY <1>1, <1>2, <1>3 DEF Confined

\* So is freeing a reservation that begins in it.
LEMMA ConfinedFreed ==
  ASSUME RangesOK(reserved), NEW Z, NEW a, NEW n, a \in Z
  PROVE  Confined(mapped, Freed(a, n), Z)
<1>1. ASSUME NEW r \in reserved, r.base = a PROVE Cells(r.base, r.len) \cap Z # {}
  BY <1>1, RangeHas
<1> QED
  BY <1>1 DEF Confined, Freed

\* What marking a reservation does.
LEMMA MarkIs ==
  ASSUME RangesOK(reserved), NEW a, NEW w
  PROVE  /\ \A r \in Mark(a, w) : (r \in reserved /\ r.base # a) \/ \E o \in reserved : o.base = a /\ r = Res(a, o.len, w)
         /\ \A o \in reserved : o.base # a => o \in Mark(a, w)
         /\ \A o \in reserved : o.base = a => Res(a, o.len, w) \in Mark(a, w)
<1> DEFINE f(r) == IF a = r.base THEN [r EXCEPT !.is = w] ELSE r
<1>1. Mark(a, w) = {f(r) : r \in reserved}
  BY DEF Mark
<1>2. \A r \in reserved : /\ a = r.base => f(r) = Res(a, r.len, w)
                          /\ a # r.base => f(r) = r
  BY DEF RangesOK, Res
<1> HIDE DEF f
<1> QED
  BY <1>1, <1>2

\* So is marking one that begins in it.
LEMMA ConfinedMark ==
  ASSUME RangesOK(reserved), NEW Z, NEW a, NEW w, a \in Z
  PROVE  Confined(mapped, Mark(a, w), Z)
<1>1. ASSUME NEW r \in reserved, r.base = a PROVE Cells(r.base, r.len) \cap Z # {}
  BY <1>1, RangeHas
<1>2. ASSUME NEW r \in Mark(a, w) PROVE (r \in reserved /\ r.base # a) \/ Cells(r.base, r.len) \cap Z # {}
  <2>1. ASSUME NEW o \in reserved, o.base = a, r = Res(a, o.len, w) PROVE Cells(r.base, r.len) \cap Z # {}
    BY <1>1, <2>1 DEF Res
  <2> QED
    BY <2>1, MarkIs
<1>3. \A r \in reserved : r \in Mark(a, w) \/ r.base = a
  BY MarkIs
<1> QED
  BY <1>1, <1>2, <1>3 DEF Confined

\* So is reserving inside it.
LEMMA ConfinedAdd ==
  ASSUME NEW Z, NEW a \in Nat, NEW n \in Nat, n # 0, Cells(a, n) \subseteq Z
  PROVE  Confined(mapped, reserved \cup {Res(a, n, "pending")}, Z)
<1>1. Res(a, n, "pending").base = a /\ Res(a, n, "pending").len = n
  BY DEF Res
<1>2. Cells(a, n) \cap Z # {}
  BY CellsAre
<1> QED
  BY <1>1, <1>2 DEF Confined

-----------------------------------------------------------------------------
(* What a step of one thread means for the others.                         *)

Alike(x) ==
    /\ box'[x].ptr = box[x].ptr /\ box'[x].size = box[x].size
    /\ (box'[x].holders = {} <=> box[x].holders = {})
    /\ buffer'[x] = buffer[x] /\ content'[x] = content[x]
LensStay == \A h \in Handles : phys'[h].len = phys[h].len \/ Unused(h)

ToNow(c) == c.op \in {"grow", "allocate"} => ~buffer'[c.to].open /\ box'[c.to].holders = {}
OldNow(p, c, k) ==
    OldOK(p, c, k, box'[c.b].ptr, buffer'[c.b].size, content'[c.b], Here(mapped', BoxOf(box'[c.b])), phys')
FreshNow(p, c, k) == FreshOK(p, c, k, Here(mapped', FreshOf(p, c, k)), reserved')
GoneNow(p, c) == GoneOK(p, c, Here(mapped', GoneOf(p, c)), reserved')
ThreadNow(p, c, k) == FreshNow(p, c, k) /\ GoneNow(p, c) /\ OldNow(p, c, k) /\ NewOK(p, c, phys') /\ ToNow(c)

OldWas(p, c, k) ==
    OldOK(p, c, k, box[c.b].ptr, buffer[c.b].size, content[c.b], Here(mapped, BoxOf(box[c.b])), phys)
FreshWas(p, c, k) == FreshOK(p, c, k, Here(mapped, FreshOf(p, c, k)), reserved)
GoneWas(p, c) == GoneOK(p, c, Here(mapped, GoneOf(p, c)), reserved)

\* What the invariant says of a thread.
LEMMA Was ==
  ASSUME BInv, NEW t \in Threads
  PROVE  /\ FreshWas(pc[t], call[t], Len(undo[t])) /\ GoneWas(pc[t], call[t]) /\ OldWas(pc[t], call[t], Len(undo[t]))
         /\ NewOK(pc[t], call[t], phys) /\ ToOK(call[t])
  BY DEF BInv, ThreadOK, FreshWas, GoneWas, OldWas

\* What is to be shown of a thread after a step.
LEMMA ThreadIs ==
  ASSUME NEW t \in Threads, NEW p, NEW c, NEW k, pc'[t] = p, call'[t] = c, Len(undo'[t]) = k, ThreadNow(p, c, k)
  PROVE  ThreadOK(t)'
<1>1. FreshNow(pc'[t], call'[t], Len(undo'[t])) /\ GoneNow(pc'[t], call'[t]) /\ OldNow(pc'[t], call'[t], Len(undo'[t]))
      /\ NewOK(pc'[t], call'[t], phys') /\ ToNow(call'[t])
  BY DEF ThreadNow
<1> QED
  BY <1>1 DEF ThreadOK, FreshNow, GoneNow, OldNow, ToNow, ToOK

\* A claim that is left alone is as it was.
LEMMA FreshLeft ==
  ASSUME NEW p, NEW c, NEW k, FreshWas(p, c, k), Left(mapped', reserved', FreshOf(p, c, k)),
         c.ptr \in Nat, FreshLen(p, c, k) \in Nat
  PROVE  FreshNow(p, c, k)
<1>1. FreshLen(p, c, k) # 0 => FreshOf(p, c, k).at = c.ptr /\ FreshOf(p, c, k).n = FreshLen(p, c, k)
  BY SpanIs DEF FreshOf
<1>2. FreshLen(p, c, k) # 0 => \A is : Res(c.ptr, FreshLen(p, c, k), is) \in reserved => Res(c.ptr, FreshLen(p, c, k), is) \in reserved'
  BY <1>1 DEF Left
<1>3. Here(mapped', FreshOf(p, c, k)) = Here(mapped, FreshOf(p, c, k))
  BY DEF Left
<1> QED
  BY <1>2, <1>3 DEF FreshNow, FreshWas, FreshOK

\* The same for the range that a deleter gives back.
LEMMA GoneLeft ==
  ASSUME NEW p, NEW c, GoneWas(p, c), Left(mapped', reserved', GoneOf(p, c)), c.dptr \in Nat, c.dsize \in Nat
  PROVE  GoneNow(p, c)
<1>1. Granules(c.dsize) \in Nat /\ (c.dsize > 0 => Granules(c.dsize) # 0)
  BY GranulesNat
<1>2. c.dsize > 0 /\ p \in {"d_retain", "d_unmap", "d_free"} => GoneOf(p, c).at = c.dptr /\ GoneOf(p, c).n = Granules(c.dsize) /\ Granules(c.dsize) # 0
  BY <1>1, SpanIs DEF GoneOf
<1>3. Here(mapped', GoneOf(p, c)) = Here(mapped, GoneOf(p, c))
  BY DEF Left
<1>4. c.dsize > 0 /\ p \in {"d_retain", "d_unmap", "d_free"} => \A is : Res(c.dptr, Granules(c.dsize), is) \in reserved' => Res(c.dptr, Granules(c.dsize), is) \in reserved
  BY <1>2 DEF Left
<1> QED
  BY <1>3, <1>4 DEF GoneNow, GoneWas, GoneOK

\* A thread that is not at a deallocation.
LEMMA GoneNone ==
  ASSUME NEW p, NEW c, p \notin {"d_retain", "d_unmap", "d_free"} PROVE GoneNow(p, c) /\ GoneOf(p, c) = Nowhere
  BY DEF GoneNow, GoneOK, GoneOf, Span

\* The handles that a growth or an allocation relies on are in use.
LEMMA InUse ==
  ASSUME IInv, BInv, NEW t \in Threads
  PROVE  /\ call[t].op = "grow" /\ (Len(undo[t]) >= 2 \/ pc[t] \in {"free_old", "clear"}) =>
               call[t].old \in Handles /\ ~Unused(call[t].old)
         /\ call[t].op \in {"grow", "allocate"} /\ (pc[t] = "map" \/ (pc[t] = "reserve" /\ call[t].op = "allocate")) =>
               call[t].h \in Handles /\ ~Unused(call[t].h)
<1>1. TypeOK /\ Counted
  BY DEF IInv
<1>2. /\ CallOK(pc[t], call[t], Len(undo[t])) /\ Table(pc[t], call[t], Len(undo[t])) /\ MappingsOK(mapped)
      /\ Len(undo[t]) \in Nat /\ call[t] \in Calls
  BY Known, Located
<1>3. ASSUME NEW h \in Handles, h \in Taken(call[t], Len(undo[t])) PROVE ~Unused(h)
  BY <1>1, <1>3, Referred DEF Unused
<1>4. ASSUME call[t].op = "grow", Len(undo[t]) >= 2 PROVE call[t].old \in Handles /\ ~Unused(call[t].old)
  <2>1. call[t].old \in Handles /\ call[t].old \in Taken(call[t], Len(undo[t]))
    BY <1>2, <1>4 DEF CallOK, Taken
  <2> QED
    BY <1>3, <2>1
<1>5. ASSUME call[t].op = "grow", pc[t] \in {"free_old", "clear"} PROVE call[t].old \in Handles /\ ~Unused(call[t].old)
  <2>1. FreshWas(pc[t], call[t], Len(undo[t]))
    BY Was
  <2>2. Part(call[t].ptr, call[t].prev, call[t].old) \in Bares(Here(mapped, FreshOf(pc[t], call[t], Len(undo[t]))))
    BY <1>5, <2>1 DEF FreshWas, FreshOK, GrowParts, Committed
  <2>3. PICK m \in mapped : Bare(m) = Part(call[t].ptr, call[t].prev, call[t].old)
    BY <2>2 DEF Bares, Here
  <2>4. m.h = call[t].old
    BY <2>3 DEF Bare, Part
  <2> QED
    BY <1>2, <2>4, MappingHas DEF Unused
<1>6. ASSUME call[t].op = "grow", pc[t] = "map" PROVE call[t].h \in Handles /\ ~Unused(call[t].h)
  <2>1. Len(undo[t]) = 5
    BY <1>2, <1>6 DEF Table
  <2>2. call[t].h \in Handles /\ call[t].h \in Taken(call[t], Len(undo[t]))
    BY <1>2, <1>6, <2>1 DEF CallOK, Taken
  <2> QED
    BY <1>3, <2>2
<1>7. ASSUME call[t].op = "allocate", pc[t] \in {"map", "reserve"} PROVE call[t].h \in Handles /\ ~Unused(call[t].h)
  <2>1. Len(undo[t]) \in {1, 2}
    BY <1>2, <1>7 DEF Table
  <2>2. Len(undo[t]) >= 1
    BY <2>1
  <2>3. call[t].h \in Handles /\ call[t].h \in Taken(call[t], Len(undo[t]))
    BY <1>2, <1>7, <2>2 DEF CallOK, Taken
  <2> QED
    BY <1>3, <2>3
<1> QED
  BY <1>4, <1>5, <1>6, <1>7

\* The old buffer, when nobody touches it.
LEMMA OldLeft ==
  ASSUME NEW p, NEW c, NEW k, OldWas(p, c, k), Alike(c.b), Left(mapped', reserved', BoxOf(box[c.b])),
         k >= 2 \/ p \in {"free_old", "clear"} => phys'[c.old].len = phys[c.old].len,
         k \in Nat
  PROVE  OldNow(p, c, k)
<1>1. /\ box'[c.b].ptr = box[c.b].ptr /\ buffer'[c.b].size = buffer[c.b].size /\ content'[c.b] = content[c.b]
      /\ BoxOf(box'[c.b]) = BoxOf(box[c.b])
  BY DEF Alike, BoxOf
<1>2. Here(mapped', BoxOf(box'[c.b])) = Here(mapped, BoxOf(box[c.b]))
  BY <1>1 DEF Left
<1>3. k >= 3 => phys'[c.old].len = phys[c.old].len
  OBVIOUS
<1> QED
  BY <1>1, <1>2, <1>3 DEF OldNow, OldWas, OldOK

\* A growth that has cleared its buffer does not look at it.
LEMMA OldPast == ASSUME NEW p, NEW c, ~Works(p) PROVE OldNow(p, c, 0)
  BY DEF OldNow, OldOK, Works, Deallocation

\* A thread that did not move, and whose places were left alone, is as it was.
LEMMA ThreadStays ==
  ASSUME IInv, BInv, NEW u \in Threads, pc'[u] = pc[u], call'[u] = call[u], undo'[u] = undo[u], LensStay,
         Left(mapped', reserved', FreshOf(pc[u], call[u], Len(undo[u]))), Left(mapped', reserved', GoneOf(pc[u], call[u])),
         call[u].op = "grow" /\ Works(pc[u]) => Alike(call[u].b) /\ Left(mapped', reserved', BoxOf(box[call[u].b])),
         call[u].op \in {"grow", "allocate"} => Alike(call[u].to)
  PROVE  ThreadOK(u)'
<1> DEFINE p == pc[u]  c == call[u]  k == Len(undo[u])
<1>1. FreshWas(p, c, k) /\ GoneWas(p, c) /\ OldWas(p, c, k) /\ NewOK(p, c, phys) /\ ToOK(c)
  BY Was
<1>2. c \in Calls /\ k \in Nat /\ Table(p, c, k)
  BY Known, Located
<1>3. c.ptr \in Nat /\ c.dptr \in Nat /\ c.dsize \in Nat
  BY <1>2, GranIsPositive DEF Calls
<1>4. FreshLen(p, c, k) \in Nat
  BY LensNat
<1>5. FreshNow(p, c, k) /\ GoneNow(p, c)
  BY <1>1, <1>3, <1>4, FreshLeft, GoneLeft
<1>6. OldNow(p, c, k)
  <2>1. CASE c.op # "grow"
    BY <2>1 DEF OldNow, OldOK
  <2>2. CASE c.op = "grow" /\ Works(p)
    <3>1. k >= 2 \/ p \in {"free_old", "clear"} => phys'[c.old].len = phys[c.old].len
      BY <2>2, InUse DEF LensStay
    <3> QED
      BY <1>1, <1>2, <2>2, <3>1, OldLeft
  <2>3. CASE c.op = "grow" /\ ~Works(p)
    <3>1. k = 0
      BY <1>2, <2>3 DEF Table, Works
    <3> QED
      BY <2>3, <3>1, OldPast
  <2> QED
    BY <2>1, <2>2, <2>3
<1>7. NewOK(p, c, phys')
  <2>1. CASE p = "map" \/ (p = "reserve" /\ c.op = "allocate")
    <3>1. c.op \in {"grow", "allocate"}
      BY <1>2, <2>1 DEF Table
    <3>2. phys'[c.h].len = phys[c.h].len
      BY <2>1, <3>1, InUse DEF LensStay
    <3> QED
      BY <1>1, <3>2 DEF NewOK
  <2> QED
    BY <2>1 DEF NewOK
<1>8. ToNow(c)
  BY <1>1 DEF ToOK, ToNow, Alike
<1>9. ThreadNow(p, c, k)
  BY <1>5, <1>6, <1>7, <1>8 DEF ThreadNow
<1> QED
  BY <1>9, ThreadIs

\* What the invariant says of a buffer, and of one in the next state.
BufferNow(b) == /\ BoxOK(box'[b], buffer'[b], content'[b], Here(mapped', BoxOf(box'[b])), reserved')
                /\ buffer'[b].open => b \in Cleared' \/ Standing(box'[b], reserved')

\* What is to be shown of a Buffer after a step.
LEMMA BufferIs == ASSUME NEW b, BufferNow(b) PROVE BufferOK(b)'
  BY DEF BufferNow, BufferOK

\* A Buffer whose place was left alone is as it was.
LEMMA BufferStays ==
  ASSUME BInv, NEW b \in Buffers, BuffersOK(buffer, box), BuffersOK(buffer', box'), Alike(b), Left(mapped', reserved', BoxOf(box[b])),
         b \in Cleared => b \in Cleared'
  PROVE  BufferOK(b)'
<1>1. BoxOK(box[b], buffer[b], content[b], Here(mapped, BoxOf(box[b])), reserved) /\ (buffer[b].open => b \in Cleared \/ Standing(box[b], reserved))
  BY DEF BInv, BufferOK
<1>2. BoxOf(box'[b]) = BoxOf(box[b]) /\ box'[b].ptr = box[b].ptr /\ box'[b].size = box[b].size
      /\ buffer'[b] = buffer[b] /\ content'[b] = content[b]
  BY DEF Alike, BoxOf
<1>3. Here(mapped', BoxOf(box'[b])) = Here(mapped, BoxOf(box[b]))
  BY <1>2 DEF Left
<1>4. box[b].holders # {} => \A is : Res(box[b].ptr, Granules(box[b].size), is) \in reserved' <=> Res(box[b].ptr, Granules(box[b].size), is) \in reserved
  <2>1. ASSUME box[b].holders # {} PROVE Granules(box[b].size) # 0
    BY <1>1, <2>1, BoxRange, GranulesNat DEF BoxOK
  <2>2. Granules(box[b].size) # 0 => BoxOf(box[b]).n = Granules(box[b].size) /\ BoxOf(box[b]).at = box[b].ptr
    BY BoxRange
  <2> QED
    BY <2>1, <2>2 DEF Left
<1>5. ASSUME box'[b].holders = {} PROVE box'[b] = box[b]
  <2>1. box'[b] \in [ptr : 0 .. Top, size : Nat, holders : SUBSET Holders] /\ box[b] \in [ptr : 0 .. Top, size : Nat, holders : SUBSET Holders]
    BY DEF BuffersOK
  <2>2. box'[b].holders = box[b].holders
    BY <1>5 DEF Alike
  <2> QED
    BY <1>2, <2>1, <2>2
<1>6. ASSUME box'[b].holders = {} PROVE BoxOK(box'[b], buffer'[b], content'[b], Here(mapped', BoxOf(box'[b])), reserved')
  <2>1. box'[b] = NoBox /\ Granules(box'[b].size) = 0
    BY <1>1, <1>5, <1>6, NoGranules DEF BoxOK, NoBox, Alike
  <2>2. Own(BoxOf(box'[b])) = {}
    BY <2>1, SpanIs DEF BoxOf, Span
  <2> QED
    BY <1>1, <1>2, <1>3, <1>6, <2>1, <2>2 DEF BoxOK, FullIn
<1>7. ASSUME box'[b].holders # {} PROVE BoxOK(box'[b], buffer'[b], content'[b], Here(mapped', BoxOf(box'[b])), reserved')
  <2>1. box[b].holders # {}
    BY <1>7 DEF Alike
  <2> QED
    BY <1>1, <1>2, <1>3, <1>4, <1>7, <2>1 DEF BoxOK
<1>8. ASSUME buffer'[b].open PROVE b \in Cleared' \/ Standing(box'[b], reserved')
  <2>1. buffer[b].open /\ box[b].holders # {}
    BY <1>2, <1>8 DEF BuffersOK
  <2> QED
    BY <1>1, <1>2, <1>4, <2>1 DEF Standing
<1>9. BufferNow(b)
  BY <1>6, <1>7, <1>8 DEF BufferNow
<1> QED
  BY <1>9, BufferIs

Contents == [Buffers -> Seq(SUBSET (Handles \X Nat))]

\* Whom the step of thread t that touches the buffers B leaves alone.
Theirs(t, B) == Claimants \ ({<<t, "fresh">>, <<t, "gone">>} \cup (B \X {"box"}))
OthersLeft(t, B) == \A i \in Theirs(t, B) : Left(mapped', reserved', Claim[i])
Keepsake(t, B) == \A u \in Threads \ {t} : /\ call[u].op = "grow" /\ Works(pc[u]) => call[u].b \notin B
                                           /\ call[u].op \in {"grow", "allocate"} => call[u].to \notin B

\* A step of one thread that touches only the Buffers B, and nobody else's place.
LEMMA Keeps ==
  ASSUME IInv, IInv', BInv, NEW t \in Threads, NEW p, NEW c, NEW s, Goes(t, p, c, s), NEW B \in SUBSET Buffers,
         LensStay, content' \in Contents, Geo(reserved', mapped', Claim'), Whole',
         OthersLeft(t, B), \A x \in Buffers \ B : Alike(x), Keepsake(t, B),
         pc[t] = "clear" => call[t].b \in B,
         ThreadNow(p, c, Len(s)), \A b \in B : BufferNow(b)
  PROVE  BInv'
<1>1. BuffersOK(buffer, box) /\ BuffersOK(buffer', box')
  BY TypeParts, TypePartsNext DEF IInv
<1>2. ASSUME NEW u \in Threads PROVE ThreadOK(u)'
  <2>1. CASE u = t
    BY <2>1, ThreadIs DEF Goes
  <2>2. CASE u # t
    <3>1. pc'[u] = pc[u] /\ call'[u] = call[u] /\ undo'[u] = undo[u]
      BY <2>2 DEF Goes
    <3>2. <<u, "fresh">> \in Theirs(t, B) /\ <<u, "gone">> \in Theirs(t, B)
      BY <2>2 DEF Theirs, Claimants
    <3>3. Left(mapped', reserved', Claim[<<u, "fresh">>]) /\ Left(mapped', reserved', Claim[<<u, "gone">>])
      BY <3>2 DEF OthersLeft
    <3>4. Left(mapped', reserved', FreshOf(pc[u], call[u], Len(undo[u]))) /\ Left(mapped', reserved', GoneOf(pc[u], call[u]))
      BY <3>3, Claims
    <3>5. CallOK(pc[u], call[u], Len(undo[u]))
      BY Known
    <3>6. ASSUME call[u].op = "grow", Works(pc[u])
          PROVE  Alike(call[u].b) /\ Left(mapped', reserved', BoxOf(box[call[u].b]))
      <4>1. call[u].b \in Buffers /\ call[u].b \notin B
        BY <2>2, <3>5, <3>6 DEF CallOK, Keepsake
      <4>2. <<call[u].b, "box">> \in Theirs(t, B)
        BY <4>1 DEF Theirs, Claimants
      <4>3. Left(mapped', reserved', Claim[<<call[u].b, "box">>])
        BY <4>2 DEF OthersLeft
      <4> QED
        BY <4>1, <4>3, Claims
    <3>7. ASSUME call[u].op \in {"grow", "allocate"} PROVE Alike(call[u].to)
      BY <2>2, <3>5, <3>7 DEF CallOK, Keepsake
    <3> QED
      BY <3>1, <3>4, <3>6, <3>7, ThreadStays
  <2> QED
    BY <2>1, <2>2
<1>3. ASSUME NEW b \in Buffers PROVE BufferOK(b)'
  <2>1. CASE b \in B
    BY <2>1, BufferIs
  <2>2. CASE b \notin B
    <3>1. <<b, "box">> \in Theirs(t, B)
      BY <2>2 DEF Theirs, Claimants
    <3>2. Left(mapped', reserved', BoxOf(box[b]))
      BY <3>1, Claims DEF OthersLeft
    <3>3. ASSUME b \in Cleared PROVE b \in Cleared'
      <4>1. PICK u \in Threads : pc[u] = "clear" /\ call[u].b = b
        BY <3>3 DEF Cleared
      <4>2. u # t
        BY <2>2, <4>1
      <4>3. pc'[u] = pc[u] /\ call'[u] = call[u]
        BY <4>2 DEF Goes
      <4> QED
        BY <4>1, <4>3 DEF Cleared
    <3> QED
      BY <1>1, <2>2, <3>2, <3>3, BufferStays
  <2> QED
    BY <2>1, <2>2
<1> QED
  BY <1>2, <1>3 DEF BInv, Contents

\* What a step does within a claim of its own disturbs no other.
LEMMA OwnClaim ==
  ASSUME IInv, BInv, NEW t \in Threads, NEW B \in SUBSET Buffers, NEW i \in Claimants \ Theirs(t, B),
         Confined(mapped', reserved', Own(Claim[i]))
  PROVE  OthersLeft(t, B)
<1> SUFFICES ASSUME NEW j \in Theirs(t, B) PROVE Left(mapped', reserved', Claim[j])
  BY DEF OthersLeft
<1>1. j \in Claimants /\ j # i
  BY DEF Theirs
<1>2. Own(Claim[j]) \cap Own(Claim[i]) = {}
  BY <1>1 DEF BInv, Geo, Disjoint
<1>3. Claim[j] \in Ranges
  BY <1>1, ClaimsAreRanges
<1> QED
  BY <1>2, <1>3, LeftAlone

\* Nothing moves.
LEMMA NothingMoves ==
  ASSUME NEW t, NEW B, mapped' = mapped, reserved' = reserved
  PROVE  OthersLeft(t, B) /\ \A c : Left(mapped', reserved', c)
<1>1. \A c : Left(mapped, reserved, c)
  BY DEF Left
<1> QED
  BY <1>1 DEF OthersLeft

\* The numbers in a call.
LEMMA CallNat ==
  ASSUME IInv, NEW t \in Threads
  PROVE  /\ call[t] \in Calls
         /\ call[t].ptr \in Nat /\ call[t].dptr \in Nat /\ call[t].prev \in Nat /\ call[t].new \in Nat /\ call[t].dsize \in Nat
         /\ Granules(call[t].new) \in Nat /\ Granules(call[t].dsize) \in Nat
<1>1. call[t] \in Calls
  BY Known
<1>2. /\ call[t].ptr \in 0 .. Top /\ call[t].dptr \in 0 .. Top /\ call[t].prev \in Nat
      /\ call[t].new \in Nat /\ call[t].dsize \in Nat
  BY <1>1 DEF Calls
<1>3. call[t].ptr \in Nat /\ call[t].dptr \in Nat
  BY <1>2, GranIsPositive
<1> QED
  BY <1>1, <1>2, <1>3, GranulesNat

\* Where the driver makes a reservation nobody claims anything.
LEMMA FreePlace ==
  ASSUME IInv, BInv, NEW n \in Int, NEW a \in Reservable(n), Cells(a, n) \cap Remembered = {}
  PROVE  /\ \A i \in Claimants : Own(Claim[i]) \cap Cells(a, n) = {}
         /\ \A m \in mapped : Cells(m.base, m.len) \cap Cells(a, n) = {}
         /\ \A r \in reserved : Cells(r.base, r.len) \cap Cells(a, n) = {}
<1>1. (\A r \in reserved : Cells(r.base, r.len) \cap Cells(a, n) = {}) /\ Cells(a, n) \cap Remembered = {}
  BY DEF Reservable
<1>2. BuffersOK(buffer, box)
  BY TypeParts DEF IInv
<1>3. ASSUME NEW b \in Buffers PROVE Own(BoxOf(box[b])) \cap Cells(a, n) = {}
  <2>1. BoxOK(box[b], buffer[b], content[b], Here(mapped, BoxOf(box[b])), reserved)
    BY DEF BInv, BufferOK
  <2>2. CASE box[b].holders = {}
    <3>1. box[b] = NoBox
      BY <2>1, <2>2 DEF BoxOK
    <3>2. Own(BoxOf(box[b])) = {}
      <4>1. BoxOf(box[b]) = Nowhere
        BY <3>1, NoGranules DEF BoxOf, NoBox, Span
      <4> QED
        BY <4>1, SpanIs
    <3> QED
      BY <3>2
  <2>3. CASE box[b].holders # {}
    <3>1. Own(BoxOf(box[b])) = Cells(box[b].ptr, Granules(box[b].size))
      BY <1>2, BoxRange
    <3>2. Cells(box[b].ptr, Granules(box[b].size)) \subseteq Remembered
      BY <2>3 DEF Remembered
    <3> QED
      BY <1>1, <3>1, <3>2
  <2> QED
    BY <2>2, <2>3
<1>4. ASSUME NEW t \in Threads PROVE Own(GoneOf(pc[t], call[t])) \cap Cells(a, n) = {}
  <2>1. CASE pc[t] \in {"d_retain", "d_unmap", "d_free"}
    <3>1. call[t].dptr \in Nat /\ Granules(call[t].dsize) \in Nat
      BY CallNat
    <3>2. Own(GoneOf(pc[t], call[t])) = Cells(call[t].dptr, Granules(call[t].dsize))
      BY <2>1, <3>1, SpanIs DEF GoneOf
    <3>3. Cells(call[t].dptr, Granules(call[t].dsize)) \subseteq Remembered
      BY <2>1 DEF Remembered
    <3> QED
      BY <1>1, <3>2, <3>3
  <2>2. CASE pc[t] \notin {"d_retain", "d_unmap", "d_free"}
    BY <2>2, SpanIs DEF GoneOf, Span
  <2> QED
    BY <2>1, <2>2
<1>5. ASSUME NEW t \in Threads PROVE Own(FreshOf(pc[t], call[t], Len(undo[t]))) \cap Cells(a, n) = {}
  <2> DEFINE len == FreshLen(pc[t], call[t], Len(undo[t]))
  <2>1. FreshWas(pc[t], call[t], Len(undo[t]))
    BY Was
  <2>2. len \in Nat /\ call[t].ptr \in Nat
    BY LensNat, CallNat
  <2>3. Own(FreshOf(pc[t], call[t], Len(undo[t]))) = Cells(call[t].ptr, len)
    BY <2>2, SpanIs DEF FreshOf
  <2>4. CASE len # 0
    <3>1. \E is : Res(call[t].ptr, len, is) \in reserved
      BY <2>1, <2>4 DEF FreshWas, FreshOK
    <3> QED
      BY <1>1, <2>3, <3>1 DEF Res
  <2>5. CASE len = 0
    <3>1. FreshOf(pc[t], call[t], Len(undo[t])) = Nowhere
      BY <2>5 DEF FreshOf, Span
    <3> QED
      BY <3>1, SpanIs
  <2> QED
    BY <2>4, <2>5
<1>6. \A i \in Claimants : Own(Claim[i]) \cap Cells(a, n) = {}
  BY <1>3, <1>4, <1>5, Claims
<1>7. \A m \in mapped : Cells(m.base, m.len) \cap Cells(a, n) = {}
  BY <1>1 DEF BInv, Geo, Housed
<1> QED
  BY <1>1, <1>6, <1>7

\* Claims are ranges before a step.
LEMMA ClaimsImp == IInv => Claim \in [Claimants -> Ranges]
  BY ClaimsAreRanges

\* Claims are ranges after a step.
LEMMA ClaimsNext == IInv' => (Claim \in [Claimants -> Ranges])'
  BY ClaimsImp, PTL

\* One thread moves.
LEMMA GoesIs ==
  ASSUME IInv, NEW t \in Threads, NEW p, NEW c, NEW s,
         pc' = [pc EXCEPT ![t] = p], call' = [call EXCEPT ![t] = c], undo' = [undo EXCEPT ![t] = s]
  PROVE  Goes(t, p, c, s)
  BY Known DEF Goes

\* When no mapping changes, each is still the whole of its allocation.
LEMMA WholeStays == ASSUME IInv, BInv, mapped' = mapped, LensStay PROVE Whole'
<1>1. MappingsOK(mapped)
  BY TypeParts DEF IInv
<1> QED
  BY <1>1, MappingHas DEF BInv, Whole, LensStay, Unused

\* The claims stay where they are.
LEMMA ClaimsStay ==
  ASSUME IInv, NEW t \in Threads, NEW p, NEW c, NEW s, Goes(t, p, c, s),
         \A x \in Buffers : BoxOf(box'[x]) = BoxOf(box[x]),
         FreshOf(p, c, Len(s)) = FreshOf(pc[t], call[t], Len(undo[t])), GoneOf(p, c) = GoneOf(pc[t], call[t])
  PROVE  Claim' = Claim
<1>1. /\ Claim'[<<t, "fresh">>] = FreshOf(p, c, Len(s)) /\ Claim'[<<t, "gone">>] = GoneOf(p, c)
      /\ \A i \in Claimants : i \notin {<<t, "fresh">>, <<t, "gone">>} \cup ({} \X {"box"}) => Claim'[i] = Claim[i]
  BY ClaimMoves
<1>2. Claim[<<t, "fresh">>] = FreshOf(pc[t], call[t], Len(undo[t])) /\ Claim[<<t, "gone">>] = GoneOf(pc[t], call[t])
  BY Claims
<1>3. \A i \in Claimants : Claim'[i] = Claim[i]
  BY <1>1, <1>2
<1>4. Claim = [i \in Claimants |-> Claim[i]] /\ Claim' = [i \in Claimants |-> Claim'[i]]
  BY DEF Claim
<1> QED
  BY <1>3, <1>4

\* A step of one thread that moves no memory.
LEMMA StaysPut ==
  ASSUME IInv, IInv', BInv, NEW t \in Threads, NEW p, NEW c, NEW s, Goes(t, p, c, s),
         UNCHANGED <<reserved, mapped>>, UNCHANGED python, LensStay, pc[t] # "clear",
         FreshOf(p, c, Len(s)) = FreshOf(pc[t], call[t], Len(undo[t])), GoneOf(p, c) = GoneOf(pc[t], call[t]),
         ThreadNow(p, c, Len(s))
  PROVE  BInv'
<1>1. box' = box /\ buffer' = buffer /\ content' = content /\ content \in Contents
  BY DEF python, BInv, Contents
<1>2. Claim' = Claim
  BY <1>1, ClaimsStay
<1>3. Geo(reserved', mapped', Claim') /\ Whole'
  BY <1>2, WholeStays DEF BInv
<1>4. OthersLeft(t, {}) /\ Keepsake(t, {}) /\ \A x \in Buffers : Alike(x)
  BY <1>1, NothingMoves DEF Keepsake, Alike
<1> QED
  BY <1>1, <1>3, <1>4, Keeps

\* What a thread has reserved is as it was.
LEMMA FreshMoves ==
  ASSUME NEW p, NEW c, NEW k, NEW p2, NEW c2, NEW k2, FreshWas(p, c, k), Left(mapped', reserved', FreshOf(p, c, k)),
         c.ptr \in Nat, FreshLen(p, c, k) \in Nat, c2.op = c.op, c2.ptr = c.ptr,
         FreshLen(p2, c2, k2) = FreshLen(p, c, k),
         c.op = "grow" => GrowParts(p2, c2, k2) = GrowParts(p, c, k),
         c.op = "allocate" => AllocateParts(c2, k2) = AllocateParts(c, k),
         p2 \in Committed <=> p \in Committed, p = "rollback" => p2 = "rollback"
  PROVE  FreshNow(p2, c2, k2) /\ FreshOf(p2, c2, k2) = FreshOf(p, c, k)
<1>1. FreshOf(p2, c2, k2) = FreshOf(p, c, k)
  BY DEF FreshOf
<1>2. FreshNow(p, c, k)
  BY FreshLeft
<1> QED
  BY <1>1, <1>2 DEF FreshNow, FreshWas, FreshOK

\* What a growth knows of its old buffer goes on to its next step.
LEMMA OldMoves ==
  ASSUME NEW p, NEW c, NEW k \in Nat, NEW p2, NEW c2, NEW k2 \in Nat, OldWas(p, c, k),
         Alike(c.b), Left(mapped', reserved', BoxOf(box[c.b])),
         c2.op = c.op, c2.b = c.b, c2.old = c.old, c2.prev = c.prev, c2.new = c.new,
         Works(p2) => Works(p), p2 = "unmap_old" => p = "unmap_old", k2 >= 3 => k >= 3,
         k2 >= 2 \/ p2 \in {"free_old", "clear"} => (k >= 2 \/ p \in {"free_old", "clear"}) /\ phys'[c.old].len = phys[c.old].len
  PROVE  OldNow(p2, c2, k2)
<1>1. /\ box'[c.b].ptr = box[c.b].ptr /\ buffer'[c.b].size = buffer[c.b].size /\ content'[c.b] = content[c.b]
      /\ BoxOf(box'[c.b]) = BoxOf(box[c.b])
  BY DEF Alike, BoxOf
<1>2. Here(mapped', BoxOf(box'[c.b])) = Here(mapped, BoxOf(box[c.b]))
  BY <1>1 DEF Left
<1>3. k2 >= 3 => phys'[c.old].len = phys[c.old].len
  OBVIOUS
<1> QED
  BY <1>1, <1>2, <1>3 DEF OldNow, OldWas, OldOK

\* A thread that does nothing.
LEMMA AtRest == /\ ThreadNow("idle", Idle, 0) /\ FreshOf("idle", Idle, 0) = Nowhere /\ GoneOf("idle", Idle) = Nowhere
<1>1. Idle.op = "none"
  BY DEF Idle
<1>2. FreshLen("idle", Idle, 0) = 0
  BY <1>1 DEF FreshLen
<1>3. FreshNow("idle", Idle, 0)
  BY <1>1, <1>2 DEF FreshNow, FreshOK, Committed, Deallocation
<1>4. GoneNow("idle", Idle) /\ GoneOf("idle", Idle) = Nowhere
  BY GoneNone
<1>5. OldNow("idle", Idle, 0) /\ NewOK("idle", Idle, phys') /\ ToNow(Idle)
  BY <1>1 DEF OldNow, OldOK, NewOK, ToNow
<1> QED
  BY <1>2, <1>3, <1>4, <1>5 DEF ThreadNow, FreshOf, Span

\* A thread that has reserved nothing.
LEMMA FreshNothing ==
  ASSUME NEW p, NEW c, NEW k, MappingsOK(mapped'), FreshLen(p, c, k) = 0, p \notin Committed,
         c.op = "grow" => GrowParts(p, c, k) = {}, c.op = "allocate" => AllocateParts(c, k) = {}
  PROVE  FreshNow(p, c, k) /\ FreshOf(p, c, k) = Nowhere
<1>1. FreshOf(p, c, k) = Nowhere
  BY DEF FreshOf, Span
<1>2. Here(mapped', Nowhere) = {}
  BY SpanIs, HereNowhere
<1>3. Bares({}) = {}
  BY DEF Bares
<1> QED
  BY <1>1, <1>2, <1>3 DEF FreshNow, FreshOK

\* A call in the transaction fails.
LEMMA RaisePuts ==
  ASSUME IInv, IInv', BInv, NEW t \in Threads, pc[t] \in Transaction, Raise(t), UNCHANGED undo
  PROVE  BInv'
<1> DEFINE p == pc[t]  c == call[t]  k == Len(undo[t])
<1>1. /\ UNCHANGED <<reserved, mapped>> /\ UNCHANGED python /\ phys' = phys /\ box' = box /\ buffer' = buffer /\ content' = content
      /\ call' = call
  BY DEF Raise, driver, python
<1>2. Goes(t, "rollback", c, undo[t])
  BY <1>1, Same, GoesIs DEF Raise, Goto
<1>3. FreshWas(p, c, k) /\ OldWas(p, c, k) /\ ToOK(c)
  BY Was
<1>4. c.ptr \in Nat /\ FreshLen(p, c, k) \in Nat /\ k \in Nat
  BY CallNat, LensNat, Known
<1>5. FreshLen("rollback", c, k) = FreshLen(p, c, k) /\ GrowParts("rollback", c, k) = GrowParts(p, c, k)
  BY DEF FreshLen, GrowParts, Transaction, Committed, Deallocation
<1>6. p \notin Committed /\ "rollback" \notin Committed /\ p # "rollback" /\ Works(p) /\ p # "clear"
      /\ p \notin {"free_old", "clear", "d_retain", "d_unmap", "d_free"}
  BY DEF Transaction, Committed, Deallocation, Works
<1>7. \A x : Left(mapped', reserved', x)
  BY <1>1, NothingMoves
<1>8. FreshNow("rollback", c, k) /\ FreshOf("rollback", c, k) = FreshOf(p, c, k)
  BY <1>3, <1>4, <1>5, <1>6, <1>7, FreshMoves
<1>9. Alike(c.b)
  BY <1>1 DEF Alike
<1>10. OldNow("rollback", c, k)
  BY <1>1, <1>3, <1>4, <1>6, <1>7, <1>9, OldMoves
<1>11. GoneNow("rollback", c) /\ GoneOf("rollback", c) = GoneOf(p, c)
  BY <1>6, GoneNone
<1>12. NewOK("rollback", c, phys') /\ ToNow(c)
  BY <1>1, <1>3 DEF NewOK, ToNow, ToOK
<1>13. ThreadNow("rollback", c, k) /\ LensStay
  BY <1>1, <1>8, <1>10, <1>11, <1>12 DEF ThreadNow, LensStay
<1> QED
  BY <1>1, <1>2, <1>6, <1>8, <1>11, <1>13, StaysPut

\* The transaction is undone.
LEMMA RolledBackPuts == ASSUME IInv, IInv', BInv, NEW t \in Threads, RolledBack(t) PROVE BInv'
<1> DEFINE p == pc[t]  c == call[t]  k == Len(undo[t])
<1>1. /\ UNCHANGED <<reserved, mapped>> /\ UNCHANGED python /\ phys' = phys
      /\ undo' = undo /\ undo[t] = <<>> /\ k = 0 /\ p = "rollback"
  BY DEF RolledBack, driver
<1>2. Goes(t, "idle", Idle, undo[t])
  BY <1>1, Same, GoesIs DEF RolledBack, Return, Goto
<1>3. FreshOf(p, c, 0) = Nowhere
  BY <1>1 DEF FreshOf, FreshLen, Span, Committed, Deallocation
<1>4. GoneOf(p, c) = Nowhere
  BY <1>1, GoneNone
<1>5. LensStay
  BY <1>1 DEF LensStay
<1> QED
  BY <1>1, <1>2, <1>3, <1>4, <1>5, AtRest, StaysPut

\* A thread at rest has no claim.
LEMMA RestClaims ==
  ASSUME IInv, NEW t \in Threads, pc[t] = "idle"
  PROVE  /\ call[t] = Idle /\ Len(undo[t]) = 0
         /\ FreshOf(pc[t], call[t], Len(undo[t])) = Nowhere /\ GoneOf(pc[t], call[t]) = Nowhere
  BY Located, AtRest DEF Table

-----------------------------------------------------------------------------
(* Where the steps of a growth and of an allocation put things.            *)

\* allocate begins.
LEMMA AllocatePuts ==
  ASSUME IInv, IInv', BInv, NEW t \in Threads, NEW b \in Buffers, NEW n \in Sizes, Allocate(t, b, n) PROVE BInv'
<1> DEFINE c == [Idle EXCEPT !.op = "allocate", !.to = b, !.new = n]
<1>1. /\ UNCHANGED <<reserved, mapped>> /\ UNCHANGED python /\ phys' = phys /\ undo' = undo /\ pc[t] = "idle"
      /\ buffer' = buffer /\ box' = box
      /\ pc' = [pc EXCEPT ![t] = "create"] /\ call' = [call EXCEPT ![t] = c] /\ Free(b)
  BY DEF Allocate, Begin, Goto, driver, python
<1>2. c.op = "allocate" /\ c.to = b
  BY DEF Idle
<1> HIDE DEF c
<1>3. Goes(t, "create", c, undo[t])
  BY <1>1, Same, GoesIs
<1>4. Len(undo[t]) = 0 /\ FreshOf(pc[t], call[t], Len(undo[t])) = Nowhere /\ GoneOf(pc[t], call[t]) = Nowhere
  BY <1>1, RestClaims
<1>5. MappingsOK(mapped')
  BY TypePartsNext DEF IInv
<1>6. FreshNow("create", c, 0) /\ FreshOf("create", c, 0) = Nowhere
  BY <1>2, <1>5, FreshNothing DEF FreshLen, AllocateParts, Committed, Deallocation
<1>7. GoneNow("create", c) /\ GoneOf("create", c) = Nowhere
  BY GoneNone
<1>8. OldNow("create", c, 0) /\ NewOK("create", c, phys') /\ ToNow(c)
  BY <1>1, <1>2 DEF OldNow, OldOK, NewOK, ToNow, Free
<1>9. ThreadNow("create", c, 0) /\ LensStay
  BY <1>1, <1>6, <1>7, <1>8 DEF ThreadNow, LensStay
<1> QED
  BY <1>1, <1>3, <1>4, <1>6, <1>7, <1>9, StaysPut

\* modify_allocation begins.
LEMMA ModifyPuts ==
  ASSUME IInv, IInv', BInv, NEW t \in Threads, NEW b \in Buffers, NEW b2 \in Buffers, NEW n \in Sizes, Modify(t, b, b2, n)
  PROVE  BInv'
<1> DEFINE c == [Idle EXCEPT !.op = "grow", !.b = b, !.to = b2, !.new = n, !.prev = Prev(b, n)]
<1>1. /\ UNCHANGED <<reserved, mapped>> /\ UNCHANGED python /\ phys' = phys /\ undo' = undo /\ pc[t] = "idle"
      /\ buffer' = buffer /\ box' = box /\ n > buffer[b].size
      /\ pc' = [pc EXCEPT ![t] = "probe"] /\ call' = [call EXCEPT ![t] = c] /\ Free(b2)
  BY DEF Modify, Begin, Goto, driver, python
<1>2. c.op = "grow" /\ c.b = b /\ c.to = b2 /\ c.new = n /\ c.prev = Prev(b, n)
  BY DEF Idle
<1> HIDE DEF c
<1>3. Goes(t, "probe", c, undo[t])
  BY <1>1, Same, GoesIs
<1>4. Len(undo[t]) = 0 /\ FreshOf(pc[t], call[t], Len(undo[t])) = Nowhere /\ GoneOf(pc[t], call[t]) = Nowhere
  BY <1>1, RestClaims
<1>5. MappingsOK(mapped')
  BY TypePartsNext DEF IInv
<1>6. FreshNow("probe", c, 0) /\ FreshOf("probe", c, 0) = Nowhere
  BY <1>2, <1>5, FreshNothing DEF FreshLen, GrowParts, Committed, Deallocation
<1>7. GoneNow("probe", c) /\ GoneOf("probe", c) = Nowhere
  BY GoneNone
<1>8. NewOK("probe", c, phys') /\ ToNow(c)
  BY <1>1, <1>2 DEF NewOK, ToNow, Free
<1>9. OldNow("probe", c, 0)
  <2>1. buffer'[c.b].size < c.new /\ c.prev = Granules(c.new) - Granules(c.new - buffer'[c.b].size)
    <3>1. n \in Nat /\ buffer[b].size \in Nat
      BY SizesArePositive, TypeParts DEF IInv, BuffersOK
    <3> QED
      BY <1>1, <1>2, <3>1 DEF Prev
  <2> QED
    BY <2>1 DEF OldNow, OldOK
<1>10. ThreadNow("probe", c, 0) /\ LensStay
  BY <1>1, <1>6, <1>7, <1>8, <1>9 DEF ThreadNow, LensStay
<1> QED
  BY <1>1, <1>3, <1>4, <1>6, <1>7, <1>10, StaysPut

\* cuMemCreate.
LEMMA CreatePuts == ASSUME IInv, IInv', BInv, NEW t \in Threads, Create(t) PROVE BInv'
<1> DEFINE p == pc[t]  c == call[t]
<1>0. PICK k \in Nat : k = Len(undo[t])
  BY Known
<1>1. p = "create" /\ p \in Transaction
  BY DEF Create, Transaction
<1>2. /\ c \in Calls /\ k \in Nat /\ undo[t] \in Seq(Entries) /\ phys \in [Handles -> [len : Nat, refs : Nat]]
      /\ ((c.op = "grow" /\ k = 4) \/ (c.op = "allocate" /\ k = 0))
  BY <1>0, <1>1, Known, Located DEF Table, PhysOK
<1>3. CASE Raise(t) /\ UNCHANGED undo
  BY <1>1, <1>3, RaisePuts
<1>4. ASSUME NEW h \in Handles, Unused(h), phys' = [phys EXCEPT ![h] = [len |-> Chunk(t), refs |-> 1]],
             call' = [call EXCEPT ![t].h = h], Register(t, "release", 0, 0, h),
             Goto(t, IF Growing(t) THEN "map" ELSE "reserve"),
             UNCHANGED <<reserved, mapped, python, kept, ops, faults>>
      PROVE  BInv'
  <2> DEFINE d == [c EXCEPT !.h = h]
             e == Undo("release", 0, 0, h)
             q == IF Growing(t) THEN "map" ELSE "reserve"
  <2>1. /\ d.op = c.op /\ d.b = c.b /\ d.to = c.to /\ d.new = c.new /\ d.prev = c.prev /\ d.old = c.old /\ d.ptr = c.ptr /\ d.dptr = c.dptr
        /\ d.dsize = c.dsize /\ d.h = h
    BY <1>2 DEF Calls
  <2>2. pc' = [pc EXCEPT ![t] = q] /\ call' = [call EXCEPT ![t] = d] /\ undo' = [undo EXCEPT ![t] = <<e>> \o undo[t]]
    BY <1>4 DEF Goto, Register, Undo
  <2>3. q = IF c.op = "grow" THEN "map" ELSE "reserve"
    BY DEF Growing
  <2>4. e \in Entries
    BY <1>4 DEF Entries, Undo
  <2> HIDE DEF d, e, q
  <2>5. Goes(t, q, d, <<e>> \o undo[t])
    BY <2>2, GoesIs
  <2>6. Len(<<e>> \o undo[t]) = k + 1
    BY <1>0, <1>2, <2>4
  <2>7. /\ UNCHANGED <<reserved, mapped>> /\ UNCHANGED python /\ buffer' = buffer /\ box' = box /\ content' = content
        /\ \A x : Left(mapped', reserved', x)
    BY <1>4, NothingMoves DEF python
  <2>8. LensStay
    BY <1>2, <1>4 DEF LensStay
  <2>9. FreshWas(p, c, k) /\ OldWas(p, c, k) /\ ToOK(c)
    BY <1>0, Was
  <2>10. FreshLen(q, d, k + 1) = FreshLen(p, c, k)
    BY <1>1, <1>2, <2>1, <2>3 DEF FreshLen, Committed, Deallocation
  <2>11. /\ c.op = "grow" => GrowParts(q, d, k + 1) = GrowParts(p, c, k)
         /\ c.op = "allocate" => AllocateParts(d, k + 1) = AllocateParts(c, k)
    BY <1>1, <1>2, <2>1, <2>3 DEF GrowParts, AllocateParts, Committed, Deallocation
  <2>12. c.ptr \in Nat /\ FreshLen(p, c, k) \in Nat
    BY <1>0, CallNat, LensNat
  <2>13. p \notin Committed /\ q \notin Committed /\ p # "rollback" /\ Works(p) /\ q # "unmap_old" /\ p # "clear"
         /\ q \notin {"free_old", "clear", "d_retain", "d_unmap", "d_free"} /\ p \notin {"d_retain", "d_unmap", "d_free"}
    BY <1>1, <2>3 DEF Committed, Deallocation, Works
  <2>14. FreshNow(q, d, k + 1) /\ FreshOf(q, d, k + 1) = FreshOf(p, c, k)
    BY <2>1, <2>7, <2>9, <2>10, <2>11, <2>12, <2>13, FreshMoves
  <2>15. OldNow(q, d, k + 1)
    <3>1. CASE c.op = "grow"
      <4>1. phys'[c.old].len = phys[c.old].len
        <5>1. k >= 2
          BY <1>2, <3>1
        <5>2. c.old \in Handles /\ ~Unused(c.old)
          BY <1>0, <3>1, <5>1, InUse
        <5> QED
          BY <2>8, <5>2 DEF LensStay
      <4>2. Alike(c.b)
        BY <2>7 DEF Alike
      <4>3. k >= 3 /\ k >= 2 /\ k + 1 \in Nat
        BY <1>2, <3>1
      <4> QED
        BY <1>2, <2>1, <2>7, <2>9, <2>13, <4>1, <4>2, <4>3, OldMoves
    <3>2. CASE c.op # "grow"
      BY <2>1, <3>2 DEF OldNow, OldOK
    <3> QED
      BY <3>1, <3>2
  <2>16. GoneNow(q, d) /\ GoneOf(q, d) = GoneOf(p, c)
    BY <2>13, GoneNone
  <2>17. ToNow(d)
    BY <2>1, <2>7, <2>9 DEF ToNow, ToOK
  <2>18. NewOK(q, d, phys')
    <3>1. phys'[h].len = Chunk(t)
      BY <1>2, <1>4
    <3>2. Chunk(t) = Granules(c.new) - c.prev
      BY DEF Chunk, Total
    <3> QED
      BY <2>1, <3>1, <3>2 DEF NewOK
  <2>19. ThreadNow(q, d, k + 1)
    BY <2>14, <2>15, <2>16, <2>17, <2>18 DEF ThreadNow
  <2> QED
    BY <1>0, <2>5, <2>6, <2>7, <2>8, <2>13, <2>14, <2>16, <2>19, StaysPut
<1> QED
  BY <1>3, <1>4 DEF Create

\* A box that is held.
LEMMA HeldBox ==
  ASSUME IInv, BInv, NEW b \in Buffers, box[b].holders # {}
  PROVE  /\ box[b].size > 0 /\ Granules(box[b].size) # 0 /\ Granules(box[b].size) \in Nat /\ box[b].ptr \in Nat /\ box[b].size \in Nat
         /\ BoxOf(box[b]) = [at |-> box[b].ptr, n |-> Granules(box[b].size)] /\ BoxOf(box[b]) \in Ranges
         /\ Own(BoxOf(box[b])) = Cells(box[b].ptr, Granules(box[b].size)) /\ box[b].ptr \in Own(BoxOf(box[b]))
<1>1. BuffersOK(buffer, box)
  BY TypeParts DEF IInv
<1>2. BoxOK(box[b], buffer[b], content[b], Here(mapped, BoxOf(box[b])), reserved)
  BY DEF BInv, BufferOK
<1>3. box[b].ptr \in Nat /\ box[b].size \in Nat /\ Granules(box[b].size) \in Nat /\ BoxOf(box[b]) \in Ranges
      /\ Own(BoxOf(box[b])) = Cells(box[b].ptr, Granules(box[b].size))
  BY <1>1, BoxRange
<1>4. box[b].size > 0 /\ Granules(box[b].size) # 0
  <2>1. PICK n \in Nat : n = box[b].size
    BY <1>3
  <2>2. n > 0
    BY <1>2, <2>1 DEF BoxOK
  <2> QED
    BY <2>1, <2>2, GranulesNat
<1>5. BoxOf(box[b]) = [at |-> box[b].ptr, n |-> Granules(box[b].size)]
  <2>1. \A at, n : n # 0 => Span(at, n) = [at |-> at, n |-> n]
    BY DEF Span
  <2> QED
    BY <1>4, <2>1 DEF BoxOf
<1>6. box[b].ptr \in Own(BoxOf(box[b]))
  BY <1>3, <1>4, CellsAre
<1> QED
  BY <1>3, <1>4, <1>5, <1>6

\* The buffer that a growth works on.
LEMMA Grown ==
  ASSUME IInv, BInv, NEW t \in Threads, call[t].op = "grow", Works(pc[t])
  PROVE  /\ call[t].b \in Buffers /\ buffer[call[t].b].open /\ box[call[t].b].holders # {}
         /\ box[call[t].b].size = buffer[call[t].b].size
         /\ pc[t] # "clear" => call[t].b \notin Cleared /\ Standing(box[call[t].b], reserved)
<1>1. call[t].b \in Buffers /\ buffer[call[t].b].open /\ BuffersOK(buffer, box)
  BY Known DEF CallOK
<1>2. box[call[t].b].holders # {} /\ box[call[t].b].size = buffer[call[t].b].size
  BY <1>1 DEF BuffersOK
<1>3. ASSUME pc[t] # "clear" PROVE call[t].b \notin Cleared
  <2> SUFFICES ASSUME NEW u \in Threads, pc[u] = "clear", call[u].b = call[t].b PROVE FALSE
    BY DEF Cleared
  <2>1. u # t
    BY <1>3
  <2>2. call[t].b = None
    BY <2>1 DEF IInv, Work, Apart
  <2> QED
    BY <1>1, <2>2, NoneIsNothing
<1>4. ASSUME pc[t] # "clear" PROVE Standing(box[call[t].b], reserved)
  BY <1>1, <1>3, <1>4 DEF BInv, BufferOK
<1> QED
  BY <1>1, <1>2, <1>3, <1>4

\* What the handles of an open Buffer's mappings mean for its contents.
LEMMA FirstOfBuffer ==
  ASSUME IInv, BInv, NEW b \in Buffers, buffer[b].open, NEW m \in Backing(box[b].ptr)
  PROVE  /\ m \in Here(mapped, BoxOf(box[b])) /\ m.base = box[b].ptr /\ m.len = phys[m.h].len
         /\ \A i \in 1 .. Len(content[b]) : i <= phys[m.h].len => <<m.h, i - 1>> \in content[b][i]
<1>1. BuffersOK(buffer, box) /\ MappingsOK(mapped)
  BY TypeParts DEF IInv
<1>2. box[b].holders # {}
  BY <1>1 DEF BuffersOK
<1> DEFINE S == Here(mapped, BoxOf(box[b]))
<1>3. m \in mapped /\ box[b].ptr \in Cells(m.base, m.len)
  BY DEF Backing
<1>4. m \in S
  <2>1. Claim \in [Claimants -> Ranges] /\ <<b, "box">> \in Claimants /\ Claim[<<b, "box">>] = BoxOf(box[b])
    BY ClaimsAreRanges, Claims
  <2>2. Cells(m.base, m.len) \cap Own(Claim[<<b, "box">>]) # {}
    BY <1>2, <1>3, <2>1, HeldBox
  <2> QED
    BY <1>1, <1>3, <2>1, <2>2, Touching DEF BInv
<1>5. m.base \in Nat /\ m.len \in Nat /\ m.len # 0 /\ m.base \in Cells(m.base, m.len) /\ box[b].ptr \in Nat
      /\ Granules(box[b].size) \in Nat
  BY <1>1, <1>2, <1>3, MappingHas, HeldBox
<1>6. m.base \in Cells(box[b].ptr, Granules(box[b].size))
  BY <1>2, <1>4, <1>5, HeldBox DEF Here
<1>7. m.base = box[b].ptr
  BY <1>3, <1>5, <1>6, CellsAre
<1>8. m.len = phys[m.h].len
  BY <1>3 DEF BInv, Whole
<1>9. Agrees(S, box[b].ptr, content[b])
  BY DEF BInv, BufferOK, BoxOK
<1>10. content[b] \in Seq(SUBSET (Handles \X Nat))
  BY DEF BInv
<1>11. ASSUME NEW i \in 1 .. Len(content[b]), i <= phys[m.h].len PROVE <<m.h, i - 1>> \in content[b][i]
  <2>1. i \in Nat /\ i >= 1 /\ i <= m.len
    BY <1>8, <1>10, <1>11
  <2>2. PICK q \in Nat : q = box[b].ptr
    BY <1>5
  <2>3. q + i - 1 \in Cells(m.base, m.len)
    <3>1. q + i - 1 \in Nat /\ q <= q + i - 1 /\ q + i - 1 < q + m.len
      BY <1>5, <2>1
    <3> QED
      BY <1>5, <1>7, <2>2, <3>1, CellsAre
  <2>4. <<m.h, (q + i - 1) - m.base>> \in content[b][(q + i - 1) - box[b].ptr + 1]
    BY <1>4, <1>9, <2>3 DEF Agrees
  <2>5. (q + i - 1) - q = i - 1 /\ (q + i - 1) - q + 1 = i
    BY <2>1
  <2> QED
    BY <1>7, <2>2, <2>4, <2>5
<1> QED
  BY <1>4, <1>7, <1>8, <1>11

\* cuMemRetainAllocationHandle: the memory of the old buffer.
LEMMA RetainPuts == ASSUME IInv, IInv', BInv, NEW t \in Threads, Retain(t) PROVE BInv'
<1> DEFINE p == pc[t]  c == call[t]
<1>0. PICK k \in Nat : k = Len(undo[t])
  BY Known
<1>1. p = "retain" /\ p \in Transaction
  BY DEF Retain, Transaction
<1>2. c \in Calls /\ k = 1 /\ c.op = "grow" /\ undo[t] \in Seq(Entries) /\ PhysOK(phys) /\ MappingsOK(mapped)
  BY <1>0, <1>1, Known, Located DEF Table
<1>3. CASE Raise(t) /\ UNCHANGED undo
  BY <1>1, <1>3, RaisePuts
<1>4. ASSUME NEW m \in OldBacking(t), phys' = Ref(m.h), call' = [call EXCEPT ![t].old = m.h],
             Register(t, "release", 0, 0, m.h), Goto(t, "unmap_old"),
             UNCHANGED <<reserved, mapped, python, kept, ops, faults>>
      PROVE  BInv'
  <2> DEFINE d == [c EXCEPT !.old = m.h]
             e == Undo("release", 0, 0, m.h)
             b == c.b
  <2>1. /\ d.op = c.op /\ d.b = c.b /\ d.to = c.to /\ d.new = c.new /\ d.prev = c.prev /\ d.ptr = c.ptr /\ d.dptr = c.dptr
        /\ d.dsize = c.dsize /\ d.old = m.h
    BY <1>2 DEF Calls
  <2>2. pc' = [pc EXCEPT ![t] = "unmap_old"] /\ call' = [call EXCEPT ![t] = d] /\ undo' = [undo EXCEPT ![t] = <<e>> \o undo[t]]
    BY <1>4 DEF Goto, Register, Undo
  <2>3. m \in mapped /\ m.h \in Handles /\ m \in Backing(box[b].ptr)
    BY <1>4, Backed1 DEF OldBacking, OldPtr
  <2>4. e \in Entries
    BY <2>3 DEF Entries, Undo
  <2> HIDE DEF d, e
  <2>5. Goes(t, "unmap_old", d, <<e>> \o undo[t])
    BY <2>2, GoesIs
  <2>6. Len(<<e>> \o undo[t]) = 2
    <3>1. undo[t] \in Seq(Entries)
      BY <1>2
    <3>2. Len(<<e>> \o undo[t]) = Len(undo[t]) + 1
      BY <2>4, <3>1
    <3>3. Len(<<e>> \o undo[t]) = k + 1
      BY <1>0, <3>2
    <3> QED
      BY <1>2, <3>3
  <2>7. /\ UNCHANGED <<reserved, mapped>> /\ UNCHANGED python /\ buffer' = buffer /\ box' = box /\ content' = content
        /\ \A x : Left(mapped', reserved', x)
    BY <1>4, NothingMoves DEF python
  <2>8. /\ \A x \in Handles : phys'[x].len = phys[x].len
        /\ LensStay
    BY <1>2, <1>4, <2>3, RefOK DEF LensStay
  <2>9. FreshWas(p, c, k) /\ OldWas(p, c, k) /\ ToOK(c)
    BY <1>0, Was
  <2>10. FreshLen("unmap_old", d, 2) = FreshLen(p, c, k)
    BY <1>1, <1>2, <2>1 DEF FreshLen, Committed, Deallocation
  <2>11. GrowParts("unmap_old", d, 2) = GrowParts(p, c, k)
    BY <1>1, <1>2, <2>1 DEF GrowParts, Committed, Deallocation
  <2>12. c.ptr \in Nat /\ FreshLen(p, c, k) \in Nat
    BY <1>0, CallNat, LensNat
  <2>13. p \notin Committed /\ "unmap_old" \notin Committed /\ p # "rollback" /\ Works(p) /\ p # "clear"
         /\ p \notin {"d_retain", "d_unmap", "d_free"}
    BY <1>1 DEF Committed, Deallocation, Works
  <2>14. FreshNow("unmap_old", d, 2) /\ FreshOf("unmap_old", d, 2) = FreshOf(p, c, k)
    BY <1>2, <2>1, <2>7, <2>9, <2>10, <2>11, <2>12, <2>13, FreshMoves
  <2>15. OldNow("unmap_old", d, 2)
    <3>1. b \in Buffers /\ buffer[b].open
      BY <1>2, <2>13, Grown
    <3>2. /\ m \in Here(mapped, BoxOf(box[b])) /\ m.base = box[b].ptr
          /\ \A i \in 1 .. Len(content[b]) : i <= phys[m.h].len => <<m.h, i - 1>> \in content[b][i]
      BY <2>3, <3>1, FirstOfBuffer
    <3>3. phys'[m.h].len = phys[m.h].len
      BY <2>3, <2>8
    <3>4. buffer[b].size < c.new /\ c.prev = Granules(c.new) - Granules(c.new - buffer[b].size)
      BY <1>2, <2>9, <2>13 DEF OldWas, OldOK
    <3> QED
      BY <2>1, <2>7, <3>2, <3>3, <3>4 DEF OldNow, OldOK
  <2>16. GoneNow("unmap_old", d) /\ GoneOf("unmap_old", d) = GoneOf(p, c)
    BY <2>13, GoneNone
  <2>17. ToNow(d) /\ NewOK("unmap_old", d, phys')
    BY <2>1, <2>7, <2>9 DEF ToNow, ToOK, NewOK
  <2>18. ThreadNow("unmap_old", d, 2)
    BY <2>14, <2>15, <2>16, <2>17 DEF ThreadNow
  <2> QED
    BY <1>0, <2>5, <2>6, <2>7, <2>8, <2>13, <2>14, <2>16, <2>18, StaysPut
<1> QED
  BY <1>3, <1>4 DEF Retain

\* A step of one thread within one of its own claims.
LEMMA KeepsOwn ==
  ASSUME IInv, IInv', BInv, NEW t \in Threads, NEW p, NEW c, NEW s, Goes(t, p, c, s), UNCHANGED python, LensStay,
         Geo(reserved', mapped', Claim'), Whole', pc[t] # "clear", NEW i \in {<<t, "fresh">>, <<t, "gone">>},
         Confined(mapped', reserved', Own(Claim[i])), ThreadNow(p, c, Len(s))
  PROVE  BInv'
<1>1. box' = box /\ buffer' = buffer /\ content' = content /\ content \in Contents
  BY DEF python, BInv, Contents
<1>2. i \in Claimants \ Theirs(t, {})
  BY DEF Theirs, Claimants
<1>3. OthersLeft(t, {})
  BY <1>2, OwnClaim
<1>4. Keepsake(t, {}) /\ \A x \in Buffers : Alike(x)
  BY <1>1 DEF Keepsake, Alike
<1> QED
  BY <1>1, <1>3, <1>4, Keeps

\* A reservation without mappings is freed, and whoever claimed it claims nothing.
LEMMA GeoFreed ==
  ASSUME NEW cl \in [Claimants -> Ranges], NEW cl2 \in [Claimants -> Ranges], Geo(reserved, mapped, cl), MappingsOK(mapped),
         NEW i \in Claimants, Here(mapped, cl[i]) = {}, cl2[i].n = 0, \A j \in Claimants \ {i} : cl2[j] = cl[j]
  PROVE  Geo(Freed(cl[i].at, cl[i].n), mapped, cl2)
<1> DEFINE rs2 == Freed(cl[i].at, cl[i].n)
<1>1. Settles(reserved, rs2, cl, cl2)
  BY DEF Settles, Freed
<1>2. Housed(rs2, mapped)
  <2> SUFFICES ASSUME NEW m \in mapped PROVE \E r \in rs2 : Cells(m.base, m.len) \subseteq Cells(r.base, r.len)
    BY DEF Housed
  <2>1. PICK r \in reserved : Cells(m.base, m.len) \subseteq Cells(r.base, r.len)
    BY DEF Geo, Housed
  <2>2. ~(r.base = cl[i].at /\ r.len = cl[i].n)
    BY <2>1 DEF Here, Own
  <2> QED
    BY <2>1, <2>2 DEF Freed
<1> QED
  BY <1>1, <1>2, GeoSettles

\* The old buffer, before anything has been taken from it.
LEMMA OldEarly ==
  ASSUME NEW p, NEW c, NEW k, NEW p2, NEW c2, OldWas(p, c, k), UNCHANGED python, Works(p),
         c2.op = c.op, c2.b = c.b, c2.prev = c.prev, c2.new = c.new, p2 \notin {"free_old", "clear", "unmap_old"}, NEW k2 \in {0, 1}
  PROVE  OldNow(p2, c2, k2)
<1>1. ~(k2 >= 2) /\ ~(k2 >= 3)
  OBVIOUS
<1> QED
  BY <1>1 DEF OldNow, OldWas, OldOK, python

\* A thread's own claims, when no box changes.
LEMMA ClaimGoes ==
  ASSUME IInv, NEW t \in Threads, NEW p, NEW c, NEW s, Goes(t, p, c, s), UNCHANGED box
  PROVE  /\ Claim'[<<t, "fresh">>] = FreshOf(p, c, Len(s)) /\ Claim'[<<t, "gone">>] = GoneOf(p, c)
         /\ \A i \in Claimants : i \notin {<<t, "fresh">>, <<t, "gone">>} => Claim'[i] = Claim[i]
<1>1. \A x \in Buffers \ {} : BoxOf(box'[x]) = BoxOf(box[x])
  OBVIOUS
<1>2. {} \in SUBSET Buffers
  OBVIOUS
<1>3. /\ Claim'[<<t, "fresh">>] = FreshOf(p, c, Len(s)) /\ Claim'[<<t, "gone">>] = GoneOf(p, c)
      /\ \A i \in Claimants : i \notin {<<t, "fresh">>, <<t, "gone">>} \cup ({} \X {"box"}) => Claim'[i] = Claim[i]
  BY <1>1, <1>2, ClaimMoves
<1> QED
  BY <1>3

\* A thread at step p with call c and k entries has just reserved n granules at a.
Made(p, c, k, a, n) ==
    /\ FreshLen(p, c, k) = n /\ c.ptr = a /\ p \notin Committed
    /\ c.op = "grow" => GrowParts(p, c, k) = {}
    /\ c.op = "allocate" => AllocateParts(c, k) = {}

\* cuMemAddressReserve.
LEMMA NewRange ==
  ASSUME IInv, IInv', BInv, NEW t \in Threads, NEW n \in Int, NEW a \in Reservable(n), Cells(a, n) \cap Remembered = {},
         reserved' = reserved \cup {Res(a, n, "pending")}, UNCHANGED <<mapped, phys>>, UNCHANGED python,
         NEW p, NEW c, NEW s, Goes(t, p, c, s), pc[t] \notin {"clear", "d_retain", "d_unmap", "d_free"},
         FreshLen(pc[t], call[t], Len(undo[t])) = 0,
         Made(p, c, Len(s), a, n),
         OldNow(p, c, Len(s)), NewOK(p, c, phys), c.op = call[t].op, c.to = call[t].to
  PROVE  BInv'
<1>0. RangesOK(reserved) /\ MappingsOK(mapped) /\ ToOK(call[t])
  BY TypeParts, Was DEF IInv
<1>1. a \in Nat /\ n \in Nat /\ n # 0
  <2>1. n \in 1 .. Top /\ a \in 0 .. Top
    BY <1>0, Reserved
  <2> QED
    BY <2>1, GranIsPositive
<1>2. /\ \A i \in Claimants : Own(Claim[i]) \cap Cells(a, n) = {}
      /\ \A m \in mapped : Cells(m.base, m.len) \cap Cells(a, n) = {}
      /\ \A r \in reserved : Cells(r.base, r.len) \cap Cells(a, n) = {}
  BY FreePlace
<1>3. FreshOf(pc[t], call[t], Len(undo[t])) = Nowhere /\ FreshOf(p, c, Len(s)) = [at |-> a, n |-> n]
  BY <1>1 DEF FreshOf, Span, Made
<1>x. PICK w : w = [at |-> a, n |-> n] /\ w = FreshOf(p, c, Len(s)) /\ Own(w) = Cells(a, n)
  BY <1>3 DEF Own
<1>4. GoneOf(pc[t], call[t]) = Nowhere /\ GoneNow(p, c) /\ GoneOf(p, c) = Nowhere
  <2>1. p \notin {"d_retain", "d_unmap", "d_free"}
    BY DEF Committed, Deallocation, Made
  <2>2. pc[t] \notin {"d_retain", "d_unmap", "d_free"}
    OBVIOUS
  <2> QED
    BY <2>1, <2>2, GoneNone
<1>5. box' = box /\ buffer' = buffer /\ content' = content /\ content \in Contents /\ mapped' = mapped /\ phys' = phys
  BY DEF python, BInv, Contents
<1>6. /\ Claim'[<<t, "fresh">>] = w /\ Claim'[<<t, "gone">>] = Nowhere
      /\ \A i \in Claimants : i \notin {<<t, "fresh">>, <<t, "gone">>} => Claim'[i] = Claim[i]
  <2>1. /\ Claim'[<<t, "fresh">>] = FreshOf(p, c, Len(s)) /\ Claim'[<<t, "gone">>] = GoneOf(p, c)
        /\ \A i \in Claimants : i \notin {<<t, "fresh">>, <<t, "gone">>} => Claim'[i] = Claim[i]
    BY <1>5, ClaimGoes
  <2> QED
    BY <1>x, <1>4, <2>1
<1>7. /\ Claim[<<t, "fresh">>] = Nowhere /\ Claim[<<t, "gone">>] = Nowhere /\ <<t, "fresh">> \in Claimants
  BY <1>3, <1>4, Claims
<1>8. Claim \in [Claimants -> Ranges] /\ Claim' \in [Claimants -> Ranges]
  BY ClaimsImp, ClaimsNext
<1>9. Geo(reserved', mapped', Claim')
  <2>1. Geo(reserved, mapped, Claim)
    BY DEF BInv
  <2>2. \A r \in reserved : r.len # 0
    BY <1>0, RangeHas
  <2>3. Claim[<<t, "fresh">>].n = 0
    BY <1>7, SpanIs
  <2>4. \A j \in Claimants \ {<<t, "fresh">>} : Claim'[j] = Claim[j]
    BY <1>6, <1>7
  <2>5. PICK cl \in [Claimants -> Ranges], cl2 \in [Claimants -> Ranges], i \in Claimants :
           cl = Claim /\ cl2 = Claim' /\ i = <<t, "fresh">>
    BY <1>7, <1>8
  <2>6. /\ cl[i].n = 0 /\ cl2[i] = w /\ \A j \in Claimants \ {i} : cl2[j] = cl[j]
        /\ \A j \in Claimants : Own(cl[j]) \cap Cells(a, n) = {}
        /\ Geo(reserved, mapped, cl)
    BY <1>2, <1>6, <2>1, <2>3, <2>4, <2>5
  <2>7. Geo(reserved \cup {Res(a, n, "pending")}, mapped, cl2)
    BY <1>1, <1>2, <1>x, <2>2, <2>6, GeoAdd
  <2> QED
    BY <1>5, <2>5, <2>7
<1>10. Whole' /\ LensStay
  BY <1>5, WholeStays DEF LensStay
<1>11. OthersLeft(t, {})
  <2>1. Confined(mapped', reserved', Cells(a, n))
    BY <1>1, <1>5, ConfinedAdd
  <2> QED
    BY <1>2, <1>8, <2>1, LeftAlone DEF OthersLeft, Theirs
<1>12. Keepsake(t, {}) /\ \A x \in Buffers : Alike(x)
  BY <1>5 DEF Keepsake, Alike
<1>13. FreshNow(p, c, Len(s))
  <2>1. Own(FreshOf(p, c, Len(s))) = Cells(a, n)
    BY <1>x
  <2>2. Here(mapped', FreshOf(p, c, Len(s))) = {}
    <3>1. \A m \in mapped : Cells(m.base, m.len) # {}
      BY <1>0, MappingHas
    <3> QED
      BY <1>2, <1>5, <2>1, <3>1 DEF Here
  <2>3. Bares({}) = {}
    BY DEF Bares
  <2>4. Res(a, n, "pending") \in reserved'
    OBVIOUS
  <2> QED
    BY <2>2, <2>3, <2>4 DEF FreshNow, FreshOK, Made
<1>14. ThreadNow(p, c, Len(s))
  BY <1>0, <1>4, <1>5, <1>13 DEF ThreadNow, ToNow, ToOK
<1>15. pc[t] # "clear" /\ content' \in Contents
  BY <1>5
<1>16. /\ {} \in SUBSET Buffers /\ (\A x \in Buffers \ {} : Alike(x)) /\ (\A b \in {} : BufferNow(b))
       /\ (pc[t] = "clear" => call[t].b \in {})
  BY <1>12, <1>15
<1> QED
  BY <1>9, <1>10, <1>11, <1>12, <1>14, <1>15, <1>16, Keeps

\* The probe of a growth reserves a range.
LEMMA ProbePuts == ASSUME IInv, IInv', BInv, ~recycled', NEW t \in Threads, Probe(t) PROVE BInv'
<1> DEFINE p == pc[t]  c == call[t]
<1>1. p = "probe"
  BY DEF Probe
<1>2. c \in Calls /\ Len(undo[t]) = 0 /\ c.op = "grow"
  BY <1>1, Known, Located DEF Table
<1>3. p \notin Committed /\ Works(p) /\ p \notin {"clear", "d_retain", "d_unmap", "d_free", "probe_free"}
  BY <1>1 DEF Committed, Deallocation, Works
<1>4. FreshLen(p, c, Len(undo[t])) = 0
  BY <1>2, <1>3 DEF FreshLen
<1>5. ASSUME NEW a \in Reservable(Chunk(t)),
             reserved' = reserved \cup {[base |-> a, len |-> Chunk(t), is |-> "pending"]},
             call' = [call EXCEPT ![t].ptr = a], Goto(t, "probe_free"), UNCHANGED <<mapped, phys, python, undo>>,
             Recycling(a, Chunk(t))
      PROVE  BInv'
  <2> DEFINE d == [c EXCEPT !.ptr = a]
  <2>1. d.op = c.op /\ d.b = c.b /\ d.to = c.to /\ d.new = c.new /\ d.prev = c.prev /\ d.ptr = a
    BY <1>2 DEF Calls
  <2>2. pc' = [pc EXCEPT ![t] = "probe_free"] /\ call' = [call EXCEPT ![t] = d] /\ undo' = [undo EXCEPT ![t] = undo[t]]
    BY <1>5, Same DEF Goto
  <2> HIDE DEF d
  <2>3. Goes(t, "probe_free", d, undo[t])
    BY <2>2, GoesIs
  <2>4. PICK n \in Int : n = Chunk(t)
    BY <1>2, Sized
  <2>5. FreshLen("probe_free", d, Len(undo[t])) = n
    BY <1>2, <2>1, <2>4 DEF FreshLen, Chunk, Total
  <2>6. "probe_free" \notin Committed /\ GrowParts("probe_free", d, Len(undo[t])) = {}
    BY <1>2 DEF GrowParts, Committed, Deallocation
  <2>7. Made("probe_free", d, Len(undo[t]), a, n)
    BY <1>2, <2>1, <2>5, <2>6 DEF Made
  <2>8. OldNow("probe_free", d, Len(undo[t]))
    <3>1. OldWas(p, c, Len(undo[t]))
      BY Was
    <3>2. Len(undo[t]) \in {0, 1}
      BY <1>2
    <3> QED
      BY <1>3, <1>5, <2>1, <3>1, <3>2, OldEarly
  <2>9. NewOK("probe_free", d, phys)
    BY DEF NewOK
  <2>10. reserved' = reserved \cup {Res(a, n, "pending")} /\ a \in Reservable(n) /\ Cells(a, n) \cap Remembered = {}
    BY <1>5, <2>4 DEF Res, Recycling
  <2> QED
    BY <1>3, <1>4, <1>5, <2>1, <2>3, <2>7, <2>8, <2>9, <2>10, NewRange
<1>6. CASE Return(t) /\ UNCHANGED <<reserved, mapped, phys, python, undo>>
  <2>1. Goes(t, "idle", Idle, undo[t])
    BY <1>6, Same, GoesIs DEF Return, Goto
  <2>2. FreshOf(p, c, Len(undo[t])) = Nowhere
    BY <1>4 DEF FreshOf, Span
  <2>3. GoneOf(p, c) = Nowhere
    BY <1>3, GoneNone
  <2>4. LensStay
    BY <1>6 DEF LensStay
  <2> QED
    BY <1>2, <1>3, <1>6, <2>1, <2>2, <2>3, <2>4, AtRest, StaysPut
<1> QED
  BY <1>5, <1>6 DEF Probe

\* A range goes back that nothing is mapped in.
LEMMA FreshFreed ==
  ASSUME IInv, IInv', BInv, NEW t \in Threads, NEW p, NEW c, NEW s, Goes(t, p, c, s), UNCHANGED <<mapped, phys>>, UNCHANGED python,
         pc[t] # "clear", FreshOf(p, c, Len(s)) = Nowhere, GoneOf(p, c) = GoneOf(pc[t], call[t]),
         NEW x, x = FreshOf(pc[t], call[t], Len(undo[t])), Here(mapped, x) = {}, x.n # 0,
         reserved' = Freed(x.at, x.n), ThreadNow(p, c, Len(s))
  PROVE  BInv'
<1>1. RangesOK(reserved) /\ MappingsOK(mapped) /\ mapped' = mapped /\ phys' = phys /\ box' = box
  BY TypeParts DEF IInv, python
<1>2. Claim \in [Claimants -> Ranges] /\ Claim' \in [Claimants -> Ranges] /\ Geo(reserved, mapped, Claim)
  BY ClaimsImp, ClaimsNext DEF BInv
<1>3. <<t, "fresh">> \in Claimants /\ Claim[<<t, "fresh">>] = x /\ Claim[<<t, "gone">>] = GoneOf(pc[t], call[t])
  BY Claims
<1>4. /\ Claim'[<<t, "fresh">>] = Nowhere /\ Claim'[<<t, "gone">>] = GoneOf(p, c)
      /\ \A i \in Claimants : i \notin {<<t, "fresh">>, <<t, "gone">>} => Claim'[i] = Claim[i]
  BY <1>1, ClaimGoes
<1>5. PICK i \in Claimants : i = <<t, "fresh">>
  BY <1>3
<1>6. Claim[i] = x /\ Claim'[i].n = 0 /\ \A j \in Claimants \ {i} : Claim'[j] = Claim[j]
  BY <1>3, <1>4, <1>5, SpanIs
<1>7. Geo(reserved', mapped', Claim')
  <2>1. PICK cl \in [Claimants -> Ranges], cl2 \in [Claimants -> Ranges] : cl = Claim /\ cl2 = Claim'
    BY <1>2
  <2>2. Geo(reserved, mapped, cl) /\ cl[i] = x /\ cl2[i].n = 0 /\ (\A j \in Claimants \ {i} : cl2[j] = cl[j]) /\ Here(mapped, cl[i]) = {}
    BY <1>2, <1>6, <2>1
  <2>3. Geo(Freed(cl[i].at, cl[i].n), mapped, cl2)
    BY <1>1, <2>2, GeoFreed
  <2> QED
    BY <1>1, <2>1, <2>2, <2>3
<1>8. Whole' /\ LensStay
  BY <1>1, WholeStays DEF LensStay
<1>9. Confined(mapped', reserved', Own(Claim[i]))
  <2>1. x.at \in Own(Claim[i])
    BY <1>2, <1>6, OwnCells
  <2> QED
    BY <1>1, <2>1, ConfinedFreed
<1> QED
  BY <1>5, <1>7, <1>8, <1>9, KeepsOwn

\* It is given back.
LEMMA ProbeFreePuts == ASSUME IInv, IInv', BInv, NEW t \in Threads, ProbeFree(t) PROVE BInv'
<1> DEFINE p == pc[t]  c == call[t]
<1>1. /\ p = "probe_free" /\ reserved' = Freed(c.ptr, Chunk(t)) /\ UNCHANGED <<mapped, phys>> /\ UNCHANGED python
      /\ mapped' = mapped /\ phys' = phys /\ buffer' = buffer /\ box' = box
  BY DEF ProbeFree, python
<1>2. c \in Calls /\ Len(undo[t]) = 0 /\ c.op = "grow"
  BY <1>1, Known, Located DEF Table
<1>3. Works(p) /\ p \notin {"clear", "d_retain", "d_unmap", "d_free"} /\ p \notin Committed
  BY <1>1 DEF Committed, Deallocation, Works
<1>4. Goes(t, "reserve", c, undo[t])
  BY Same, GoesIs DEF ProbeFree, Goto
<1>5. FreshWas(p, c, 0) /\ OldWas(p, c, 0) /\ ToOK(c)
  BY <1>2, Was
<1>6. MappingsOK(mapped')
  BY TypePartsNext DEF IInv
<1>7. FreshNow("reserve", c, 0) /\ FreshOf("reserve", c, 0) = Nowhere
  BY <1>2, <1>6, FreshNothing DEF FreshLen, GrowParts, Committed, Deallocation
<1>8. OldNow("reserve", c, 0)
  BY <1>1, <1>3, <1>5, OldEarly
<1>9. GoneNow("reserve", c) /\ GoneOf("reserve", c) = GoneOf(p, c)
  BY <1>3, GoneNone
<1>10. NewOK("reserve", c, phys') /\ ToNow(c)
  BY <1>1, <1>2, <1>5 DEF NewOK, ToNow, ToOK
<1>11. ThreadNow("reserve", c, 0)
  BY <1>7, <1>8, <1>9, <1>10 DEF ThreadNow
<1>12. PICK x : x = FreshOf(p, c, Len(undo[t]))
  OBVIOUS
<1>13. Here(mapped, x) = {}
  <2>1. Bares(Here(mapped, x)) = {}
    BY <1>1, <1>2, <1>3, <1>5, <1>12 DEF FreshWas, FreshOK, GrowParts
  <2> QED
    BY <2>1 DEF Bares
<1>14. PICK n \in Nat : n = Chunk(t)
  BY <1>2, Sized
<1>15. FreshLen(p, c, Len(undo[t])) = n
  BY <1>1, <1>2, <1>14 DEF FreshLen, Chunk, Total
<1>16. CASE n = 0
  <2>1. Freed(c.ptr, Chunk(t)) = reserved
    <3>1. \A r \in reserved : r.len # 0
      BY TypeParts, RangeHas DEF IInv
    <3> QED
      BY <1>14, <1>16, <3>1 DEF Freed
  <2>2. FreshOf(p, c, Len(undo[t])) = Nowhere
    BY <1>15, <1>16 DEF FreshOf, Span
  <2>3. UNCHANGED <<reserved, mapped>> /\ LensStay
    BY <1>1, <2>1 DEF LensStay
  <2> QED
    BY <1>1, <1>2, <1>3, <1>4, <1>7, <1>9, <1>11, <2>2, <2>3, StaysPut
<1>17. CASE n # 0
  <2>1. x.at = c.ptr /\ x.n = n
    BY <1>12, <1>15, <1>17 DEF FreshOf, Span
  <2>2. reserved' = Freed(x.at, x.n)
    BY <1>1, <1>14, <2>1
  <2>3. ThreadNow("reserve", c, Len(undo[t])) /\ FreshOf("reserve", c, Len(undo[t])) = Nowhere
    BY <1>2, <1>7, <1>11
  <2>4. x.n # 0
    BY <1>17, <2>1
  <2> QED
    BY <1>1, <1>3, <1>4, <1>9, <1>12, <1>13, <2>2, <2>3, <2>4, FreshFreed
<1> QED
  BY <1>16, <1>17

\* cuMemAddressReserve, for the whole range.
LEMMA ReservePuts == ASSUME IInv, IInv', BInv, ~recycled', NEW t \in Threads, Reserve(t) PROVE BInv'
<1> DEFINE p == pc[t]  c == call[t]
<1>0. PICK k \in Nat : k = Len(undo[t])
  BY Known
<1>1. p = "reserve" /\ p \in Transaction
  BY DEF Reserve, Transaction
<1>2. /\ c \in Calls /\ undo[t] \in Seq(Entries)
      /\ ((c.op = "grow" /\ k = 0) \/ (c.op = "allocate" /\ k = 1))
  BY <1>0, <1>1, Known, Located DEF Table
<1>3. p \notin Committed /\ Works(p) /\ p \notin {"clear", "d_retain", "d_unmap", "d_free", "probe_free"}
  BY <1>1 DEF Committed, Deallocation, Works
<1>4. FreshLen(p, c, k) = 0
  BY <1>2, <1>3 DEF FreshLen
<1>5. ASSUME NEW a \in Reservable(Total(t)),
             reserved' = reserved \cup {[base |-> a, len |-> Total(t), is |-> "pending"]},
             call' = [call EXCEPT ![t].ptr = a], Register(t, "free", a, Total(t), None),
             Goto(t, IF Growing(t) THEN "retain" ELSE "map"),
             UNCHANGED <<mapped, phys, python, kept, ops, faults>>, Recycling(a, Total(t))
      PROVE  BInv'
  <2> DEFINE d == [c EXCEPT !.ptr = a]
             e == Undo("free", a, Total(t), None)
             q == IF Growing(t) THEN "retain" ELSE "map"
  <2>1. d.op = c.op /\ d.b = c.b /\ d.to = c.to /\ d.new = c.new /\ d.prev = c.prev /\ d.ptr = a /\ d.h = c.h
    BY <1>2 DEF Calls
  <2>2. pc' = [pc EXCEPT ![t] = q] /\ call' = [call EXCEPT ![t] = d] /\ undo' = [undo EXCEPT ![t] = <<e>> \o undo[t]]
    BY <1>5 DEF Goto, Register, Undo
  <2>3. q = IF c.op = "grow" THEN "retain" ELSE "map"
    BY DEF Growing
  <2>4. PICK n \in Int : n = Total(t) /\ n = Granules(c.new) /\ n \in Nat
    BY <1>2, Sized
  <2>5. e \in Entries
    <3>1. a \in Nat
      BY <1>5 DEF Reservable
    <3> QED
      BY <2>4, <3>1 DEF Entries, Undo
  <2> HIDE DEF d, e, q
  <2>6. Goes(t, q, d, <<e>> \o undo[t])
    BY <2>2, GoesIs
  <2>7. Len(<<e>> \o undo[t]) = k + 1
    <3>1. Len(<<e>> \o undo[t]) = Len(undo[t]) + 1
      BY <1>2, <2>5
    <3> QED
      BY <1>0, <3>1
  <2>8. FreshLen(q, d, k + 1) = n
    BY <1>2, <2>1, <2>3, <2>4 DEF FreshLen
  <2>9. /\ q \notin Committed
        /\ c.op = "grow" => GrowParts(q, d, k + 1) = {}
        /\ c.op = "allocate" => AllocateParts(d, k + 1) = {}
    BY <1>2, <2>3 DEF GrowParts, AllocateParts, Committed, Deallocation
  <2>10. Made(q, d, k + 1, a, n)
    BY <2>1, <2>8, <2>9 DEF Made
  <2>11. OldNow(q, d, k + 1)
    <3>1. CASE c.op = "grow"
      <4>1. OldWas(p, c, k)
        BY <1>0, Was
      <4>2. k + 1 \in {0, 1}
        BY <1>2, <3>1
      <4>3. q \notin {"free_old", "clear", "unmap_old"}
        BY <2>3
      <4> QED
        BY <1>3, <1>5, <2>1, <4>1, <4>2, <4>3, OldEarly
    <3>2. CASE c.op # "grow"
      BY <2>1, <3>2 DEF OldNow, OldOK
    <3> QED
      BY <3>1, <3>2
  <2>12. NewOK(q, d, phys)
    <3>1. NewOK(p, c, phys)
      BY Was
    <3>2. c.op = "allocate" => phys[c.h].len = Granules(c.new) - c.prev
      BY <1>1, <3>1 DEF NewOK
    <3> QED
      BY <1>2, <2>1, <2>3, <3>2 DEF NewOK
  <2>13. reserved' = reserved \cup {Res(a, n, "pending")} /\ a \in Reservable(n) /\ Cells(a, n) \cap Remembered = {}
    BY <1>5, <2>4 DEF Res, Recycling
  <2>14. /\ Made(q, d, Len(<<e>> \o undo[t]), a, n) /\ OldNow(q, d, Len(<<e>> \o undo[t]))
         /\ FreshLen(pc[t], call[t], Len(undo[t])) = 0
    BY <1>0, <1>4, <2>7, <2>10, <2>11
  <2> QED
    BY <1>3, <1>5, <2>1, <2>6, <2>12, <2>13, <2>14, NewRange
<1>6. CASE Raise(t) /\ UNCHANGED undo
  BY <1>1, <1>6, RaisePuts
<1> QED
  BY <1>5, <1>6 DEF Reserve

-----------------------------------------------------------------------------
(* Steps of no thread's call.                                              *)

\* A step that changes no call and no memory, only the Buffers B and their places.
LEMMA NobodyActs ==
  ASSUME IInv, IInv', BInv, UNCHANGED <<pc, call, undo, phys, reserved>>, NEW B \in SUBSET Buffers,
         \A x \in Buffers \ B : Alike(x), content' \in Contents, \A x \in Buffers : BoxOf(box'[x]) = BoxOf(box[x]),
         Housed(reserved, mapped'), Whole',
         \A i \in Claimants \ (B \X {"box"}) : Left(mapped', reserved', Claim[i]),
         \A u \in Threads : call[u].b \notin B /\ call[u].to \notin B, \A b \in B : BufferNow(b)
  PROVE  BInv'
<1>1. BuffersOK(buffer, box) /\ BuffersOK(buffer', box')
  BY TypeParts, TypePartsNext DEF IInv
<1>2. pc' = pc /\ call' = call /\ undo' = undo /\ phys' = phys /\ reserved' = reserved
  OBVIOUS
<1>3. LensStay
  BY <1>2 DEF LensStay
<1>4. ASSUME NEW u \in Threads PROVE ThreadOK(u)'
  <2>1. <<u, "fresh">> \in Claimants \ (B \X {"box"}) /\ <<u, "gone">> \in Claimants \ (B \X {"box"})
    BY DEF Claimants
  <2>2. Left(mapped', reserved', Claim[<<u, "fresh">>]) /\ Left(mapped', reserved', Claim[<<u, "gone">>])
    BY <2>1
  <2>3. Left(mapped', reserved', FreshOf(pc[u], call[u], Len(undo[u]))) /\ Left(mapped', reserved', GoneOf(pc[u], call[u]))
    BY <2>2, Claims
  <2>4. CallOK(pc[u], call[u], Len(undo[u]))
    BY Known
  <2>5. ASSUME call[u].op = "grow" PROVE Alike(call[u].b) /\ Left(mapped', reserved', BoxOf(box[call[u].b]))
    <3>1. call[u].b \in Buffers /\ call[u].b \notin B
      BY <2>4, <2>5 DEF CallOK
    <3>2. <<call[u].b, "box">> \in Claimants \ (B \X {"box"})
      BY <3>1 DEF Claimants
    <3>3. Left(mapped', reserved', Claim[<<call[u].b, "box">>])
      BY <3>2
    <3> QED
      BY <3>1, <3>3, Claims
  <2>6. ASSUME call[u].op \in {"grow", "allocate"} PROVE Alike(call[u].to)
    BY <2>4, <2>6 DEF CallOK
  <2> QED
    BY <1>2, <1>3, <2>3, <2>5, <2>6, ThreadStays
<1>5. ASSUME NEW b \in Buffers PROVE BufferOK(b)'
  <2>1. CASE b \in B
    BY <2>1, BufferIs
  <2>2. CASE b \notin B
    <3>1. <<b, "box">> \in Claimants \ (B \X {"box"})
      BY <2>2 DEF Claimants
    <3>2. Left(mapped', reserved', Claim[<<b, "box">>])
      BY <3>1
    <3>3. Left(mapped', reserved', BoxOf(box[b]))
      BY <3>2, Claims
    <3>4. b \in Cleared => b \in Cleared'
      BY <1>2 DEF Cleared
    <3> QED
      BY <1>1, <2>2, <3>3, <3>4, BufferStays
  <2> QED
    BY <2>1, <2>2
<1>6. Claim' = Claim
  <2>1. ASSUME NEW i \in Claimants
        PROVE  (IF i[2] = "box" THEN BoxOf(box'[i[1]])
                ELSE IF i[2] = "fresh" THEN FreshOf(pc[i[1]], call[i[1]], Len(undo[i[1]])) ELSE GoneOf(pc[i[1]], call[i[1]]))
               = (IF i[2] = "box" THEN BoxOf(box[i[1]])
                  ELSE IF i[2] = "fresh" THEN FreshOf(pc[i[1]], call[i[1]], Len(undo[i[1]])) ELSE GoneOf(pc[i[1]], call[i[1]]))
    <3>1. i[2] = "box" => i[1] \in Buffers
      BY DEF Claimants
    <3> QED
      BY <3>1
  <2> QED
    BY <1>2, <2>1 DEF Claim
<1>7. Geo(reserved', mapped', Claim')
  <2>1. Geo(reserved, mapped', Claim)
    BY DEF BInv, Geo
  <2> QED
    BY <1>2, <1>6, <2>1
<1> QED
  BY <1>4, <1>5, <1>7 DEF BInv, Contents

\* A graph node gets a hold of the box.
LEMMA SharePuts == ASSUME IInv, IInv', BInv, NEW b \in Buffers, Share(b) PROVE BInv'
<1>1. /\ UNCHANGED <<pc, call, undo, phys, reserved>> /\ buffer' = buffer /\ content' = content /\ mapped' = mapped /\ reserved' = reserved
      /\ box' = [box EXCEPT ![b].holders = Holders] /\ buffer[b].open
  BY DEF Share, driver
<1>2. BuffersOK(buffer, box)
  BY TypeParts DEF IInv
<1>3. \A x \in Buffers : Alike(x) /\ BoxOf(box'[x]) = BoxOf(box[x])
  <2> SUFFICES ASSUME NEW x \in Buffers PROVE Alike(x) /\ BoxOf(box'[x]) = BoxOf(box[x])
    OBVIOUS
  <2>1. box'[x].ptr = box[x].ptr /\ box'[x].size = box[x].size /\ (x # b => box'[x] = box[x]) /\ box'[b].holders = Holders
    BY <1>1, <1>2 DEF BuffersOK
  <2>2. box[b].holders # {}
    BY <1>1, <1>2 DEF BuffersOK
  <2> QED
    BY <1>1, <2>1, <2>2 DEF Alike, BoxOf, Holders
<1>4. Housed(reserved, mapped') /\ Whole'
  BY <1>1 DEF BInv, Geo, Whole
<1>5. \A x : Left(mapped', reserved', x)
  BY <1>1, NothingMoves
<1>6. content' \in Contents
  BY <1>1 DEF BInv, Contents
<1>7. {} \in SUBSET Buffers /\ (\A x \in Buffers \ {} : Alike(x)) /\ (\A i \in Claimants \ ({} \X {"box"}) : Left(mapped', reserved', Claim[i]))
      /\ (\A u \in Threads : call[u].b \notin {} /\ call[u].to \notin {}) /\ (\A x \in {} : BufferNow(x))
  BY <1>3, <1>5
<1> QED
  BY <1>1, <1>3, <1>4, <1>6, <1>7, NobodyActs

\* Setting access moves nothing.
LEMMA AccessMoves ==
  ASSUME IInv, BInv, NEW a, NEW n
  PROVE  /\ Housed(reserved, WithAccess(a, n))
         /\ \A m \in WithAccess(a, n) : m.len = phys[m.h].len
<1>1. MappingsOK(mapped)
  BY TypeParts DEF IInv
<1>2. \A m \in WithAccess(a, n) : \E o \in mapped : m.base = o.base /\ m.len = o.len /\ m.h = o.h
  BY <1>1, AccessIs, BareIs DEF Inside
<1> QED
  BY <1>2 DEF BInv, Geo, Housed, Whole

\* Setting access does not change what is in a range.
LEMMA AccessHere ==
  ASSUME MappingsOK(mapped), NEW a, NEW n, NEW c
  PROVE  /\ \A m \in Here(WithAccess(a, n), c) : \E o \in Here(mapped, c) : Bare(m) = Bare(o)
         /\ \A o \in Here(mapped, c) : \E m \in Here(WithAccess(a, n), c) : Bare(m) = Bare(o) /\ (o.access => m.access)
         /\ \A o \in Here(mapped, c) : o \in Inside(a, n) => \E m \in Here(WithAccess(a, n), c) : Bare(m) = Bare(o) /\ m.access
  BY AccessIs, BareIs DEF Here, Inside

\* Access is set again on a Buffer.
LEMMA ReaccessPuts ==
  ASSUME IInv, IInv', BInv, NEW t \in Threads, NEW b \in Buffers, NEW n \in Sizes, Reaccess(t, b, n)
  PROVE  BInv'
<1>1. /\ UNCHANGED <<pc, call, undo, phys, reserved>> /\ buffer' = buffer /\ content' = content /\ box' = box /\ reserved' = reserved
      /\ phys' = phys /\ buffer[b].open /\ ~Busy(b) /\ pc' = pc /\ call' = call
  BY DEF Reaccess, python
<1>2. MappingsOK(mapped) /\ BuffersOK(buffer, box)
  BY TypeParts DEF IInv
<1>3. content' \in Contents /\ (\A x \in Buffers : Alike(x)) /\ (\A x \in Buffers : BoxOf(box'[x]) = BoxOf(box[x]))
  BY <1>1 DEF BInv, Contents, Alike
<1>4. CASE mapped' = mapped
  <2>1. \A x : Left(mapped', reserved', x)
    BY <1>1, <1>4, NothingMoves
  <2>2. Housed(reserved, mapped') /\ Whole'
    BY <1>1, <1>4 DEF BInv, Geo, Whole
  <2>3. {} \in SUBSET Buffers /\ (\A x \in Buffers \ {} : Alike(x)) /\ (\A i \in Claimants \ ({} \X {"box"}) : Left(mapped', reserved', Claim[i]))
        /\ (\A u \in Threads : call[u].b \notin {} /\ call[u].to \notin {}) /\ (\A x \in {} : BufferNow(x))
    BY <1>3, <2>1
  <2> QED
    BY <1>1, <1>3, <2>2, <2>3, NobodyActs
<1>5. CASE mapped' = WithAccess(box[b].ptr, Granules(buffer[b].size))
  <2> DEFINE a == box[b].ptr  g == Granules(buffer[b].size)  x == BoxOf(box[b])
  <2>0. mapped' = WithAccess(a, g)
    BY <1>5
  <2>1. box[b].holders # {} /\ box[b].size = buffer[b].size
    BY <1>1, <1>2 DEF BuffersOK
  <2>2. Own(x) = Cells(a, g)
    BY <2>1, HeldBox
  <2> HIDE DEF a, g
  <2>3. Housed(reserved, mapped') /\ Whole'
    <3>1. /\ Housed(reserved, WithAccess(a, g))
          /\ \A m \in WithAccess(a, g) : m.len = phys[m.h].len
      BY AccessMoves
    <3> QED
      BY <1>1, <2>0, <3>1 DEF Whole
  <2>4. Confined(mapped', reserved', Own(x))
    <3>1. Confined(mapped, reserved, Own(x))
      BY ConfinedSame
    <3> QED
      BY <1>1, <1>2, <2>0, <2>2, <3>1, ConfinedAccess
  <2>5. \A i \in Claimants \ ({b} \X {"box"}) : Left(mapped', reserved', Claim[i])
    <3>1. <<b, "box">> \in Claimants /\ Claim[<<b, "box">>] = x
      BY Claims
    <3> SUFFICES ASSUME NEW i \in Claimants \ ({b} \X {"box"}) PROVE Left(mapped', reserved', Claim[i])
      OBVIOUS
    <3>2. i # <<b, "box">>
      OBVIOUS
    <3>3. Own(Claim[i]) \cap Own(x) = {}
      BY <3>1, <3>2 DEF BInv, Geo, Disjoint
    <3>4. Claim[i] \in Ranges
      BY ClaimsImp
    <3> QED
      BY <2>4, <3>3, <3>4, LeftAlone
  <2>6. \A u \in Threads : call[u].b \notin {b} /\ call[u].to \notin {b}
    BY <1>1 DEF Busy
  <2>7. BufferNow(b)
    <3> DEFINE S == Here(mapped, x)  T == Here(WithAccess(a, g), x)
    <3>1. /\ \A m \in T : \E o \in S : Bare(m) = Bare(o)
          /\ \A o \in S : \E m \in T : Bare(m) = Bare(o) /\ (o.access => m.access)
      BY <1>2, AccessHere
    <3>2. BoxOK(box[b], buffer[b], content[b], S, reserved) /\ (buffer[b].open => b \in Cleared \/ Standing(box[b], reserved))
      BY DEF BInv, BufferOK
    <3> HIDE DEF S, T, x
    <3>3. FullIn(S, x) => FullIn(T, x)
      BY <3>1, BareIs DEF FullIn
    <3>4. Agrees(S, box[b].ptr, content[b]) => Agrees(T, box[b].ptr, content[b])
      <4> SUFFICES ASSUME Agrees(S, box[b].ptr, content[b]), NEW m \in T, NEW y \in Cells(m.base, m.len)
                   PROVE  <<m.h, y - m.base>> \in content[b][y - box[b].ptr + 1]
        BY DEF Agrees
      <4>1. PICK o \in S : m.base = o.base /\ m.len = o.len /\ m.h = o.h
        BY <3>1, BareIs
      <4> QED
        BY <4>1 DEF Agrees
    <3>5. BoxOK(box[b], buffer[b], content[b], T, reserved)
      BY <3>2, <3>3, <3>4 DEF BoxOK, x
    <3>6. b \in Cleared => b \in Cleared'
      BY <1>1 DEF Cleared
    <3> QED
      BY <1>1, <2>0, <3>2, <3>5, <3>6 DEF BufferNow, T, x
  <2>8. {b} \in SUBSET Buffers /\ (\A y \in Buffers \ {b} : Alike(y)) /\ (\A y \in {b} : BufferNow(y))
    BY <1>3, <2>7
  <2> QED
    BY <1>1, <1>3, <2>3, <2>5, <2>6, <2>8, NobodyActs
<1> QED
  BY <1>4, <1>5 DEF Reaccess

\* What a claim says of the others.
LEMMA Elsewhere ==
  ASSUME IInv, BInv, NEW i \in Claimants, Confined(mapped', reserved', Own(Claim[i])), NEW j \in Claimants, j # i
  PROVE  Left(mapped', reserved', Claim[j])
<1>1. Own(Claim[j]) \cap Own(Claim[i]) = {}
  BY DEF BInv, Geo, Disjoint
<1>2. Claim[j] \in Ranges
  BY ClaimsImp
<1> QED
  BY <1>1, <1>2, LeftAlone

\* The buffers of a call are its own.
LEMMA Mine ==
  ASSUME IInv, NEW t \in Threads, NEW b \in Buffers, b \in {call[t].b, call[t].to}
  PROVE  Keepsake(t, {b})
<1>1. \A u \in Threads \ {t} : {call[t].b, call[t].to} \cap {call[u].b, call[u].to} \subseteq {None}
  BY DEF IInv, Work, Apart
<1>2. b # None
  BY NoneIsNothing
<1>3. ASSUME NEW u \in Threads \ {t} PROVE call[u].b # b /\ call[u].to # b
  BY <1>1, <1>2
<1> QED
  BY <1>3 DEF Keepsake

\* Marking a reservation moves no mapping out of one.
LEMMA HousedMark == ASSUME RangesOK(reserved), NEW ms, Housed(reserved, ms), NEW a, NEW w PROVE Housed(Mark(a, w), ms)
<1>1. \A r \in reserved : \E q \in Mark(a, w) : q.base = r.base /\ q.len = r.len
  BY MarkIs DEF Res
<1> QED
  BY <1>1 DEF Housed

\* Unmapping leaves the other mappings where they are.
LEMMA HousedLess == ASSUME NEW rs, NEW ms, Housed(rs, ms), NEW ms2 \in SUBSET ms PROVE Housed(rs, ms2)
  BY DEF Housed

\* Marking the reservation of a claim.
LEMMA MarkSettles ==
  ASSUME RangesOK(reserved), NEW cl \in [Claimants -> Ranges], Geo(reserved, mapped, cl), NEW i \in Claimants, cl[i].n # 0, NEW w
  PROVE  Settles(reserved, Mark(cl[i].at, w), cl, cl)
<1> SUFFICES ASSUME NEW r2 \in Mark(cl[i].at, w)
             PROVE  \E r \in reserved : /\ r.base = r2.base /\ r.len = r2.len
                                        /\ \/ r.is # "lost" \/ r2.is = "lost"
                                           \/ \E j \in Claimants : cl[j].at = r2.base /\ cl[j].n = r2.len
  BY DEF Settles
<1>1. CASE r2 \in reserved
  BY <1>1
<1>2. ASSUME NEW o \in reserved, o.base = cl[i].at, r2 = Res(cl[i].at, o.len, w)
      PROVE  r2.base = o.base /\ r2.len = o.len /\ cl[i].at = r2.base /\ cl[i].n = r2.len
  <2>1. r2.base = o.base /\ r2.len = o.len
    BY <1>2 DEF Res
  <2>2. o.base \in Cells(o.base, o.len) /\ o.base \in Own(cl[i])
    BY <1>2, RangeHas, OwnCells
  <2> QED
    BY <2>1, <2>2 DEF Geo, Tight
<1> QED
  BY <1>1, <1>2, MarkIs

\* What a growth takes from the old buffer was the old buffer's.
LEMMA PrevFits ==
  ASSUME IInv, BInv, NEW t \in Threads, call[t].op = "grow", Works(pc[t])
  PROVE  /\ Cells(OldPtr(t), call[t].prev) \subseteq Own(BoxOf(box[call[t].b]))
         /\ call[t].prev <= Granules(box[call[t].b].size)
<1> DEFINE b == call[t].b
<1>1. b \in Buffers /\ buffer[b].open /\ box[b].holders # {} /\ box[b].size = buffer[b].size
  BY Grown
<1>2. PICK s \in Nat, n \in Nat, v \in Nat, a \in Nat : s = box[b].size /\ n = call[t].new /\ v = call[t].prev /\ a = box[b].ptr
  BY <1>1, HeldBox, CallNat
<1>3. s < n /\ v = Granules(n) - Granules(n - s)
  <2>1. OldWas(pc[t], call[t], Len(undo[t]))
    BY Was
  <2> QED
    BY <1>1, <1>2, <2>1 DEF OldWas, OldOK
<1>4. PICK d \in Nat : d = n - s /\ n = s + d
  BY <1>3
<1>5. Granules(n) \in Nat /\ Granules(s) \in Nat /\ Granules(d) \in Nat /\ Granules(s + d) <= Granules(s) + Granules(d)
  BY GranulesNat, GranulesOfParts
<1>6. v <= Granules(s)
  BY <1>3, <1>4, <1>5
<1>7. Own(BoxOf(box[b])) = Cells(a, Granules(s))
  BY <1>1, <1>2, HeldBox
<1>8. Cells(a, v) \subseteq Cells(a, Granules(s))
  BY <1>5, <1>6, CellsAre
<1> QED
  BY <1>2, <1>6, <1>7, <1>8 DEF OldPtr

\* A mapping in a claim.
LEMMA MappingAdded ==
  ASSUME NEW x \in Ranges, NEW at, NEW n, NEW h, Cells(at, n) \subseteq Own(x)
  PROVE  /\ Here(mapped \cup {Mapping(at, n, h)}, x) = Here(mapped, x) \cup {Mapping(at, n, h)}
         /\ Bares(Here(mapped \cup {Mapping(at, n, h)}, x)) = Bares(Here(mapped, x)) \cup {Part(at, n, h)}
<1> DEFINE M == Mapping(at, n, h)
<1>1. M.base = at /\ M.len = n /\ Bare(M) = Part(at, n, h)
  BY DEF Mapping, Bare, Part
<1> HIDE DEF M
<1>2. Here(mapped \cup {M}, x) = Here(mapped, x) \cup {M}
  BY <1>1 DEF Here
<1>3. Bares(Here(mapped, x) \cup {M}) = Bares(Here(mapped, x)) \cup {Part(at, n, h)}
  BY <1>1 DEF Bares
<1> QED
  BY <1>2, <1>3 DEF M

-----------------------------------------------------------------------------
(* Unmapping the old range, and mapping the new one.                       *)

\* cuMemUnmap of the old range.
LEMMA UnmapOldPuts == ASSUME IInv, IInv', BInv, NEW t \in Threads, UnmapOld(t) PROVE BInv'
<1> DEFINE p == pc[t]  c == call[t]  b == call[t].b
<1>0. PICK k \in Nat : k = Len(undo[t])
  BY Known
<1>1. p = "unmap_old" /\ p \in Transaction
  BY DEF UnmapOld, Transaction
<1>2. c \in Calls /\ k = 2 /\ c.op = "grow" /\ undo[t] \in Seq(Entries) /\ RangesOK(reserved) /\ MappingsOK(mapped) /\ BuffersOK(buffer, box)
  BY <1>0, <1>1, Known, Located DEF Table
<1>3. CASE Raise(t) /\ UNCHANGED undo
  BY <1>1, <1>3, RaisePuts
<1>4. CASE /\ FullyMapped(OldPtr(t), c.prev)
           /\ mapped' = Unmapped(OldPtr(t), c.prev)
           /\ reserved' = Mark(OldPtr(t), "leaving")
           /\ Register(t, "remap", OldPtr(t), c.prev, c.old)
           /\ Goto(t, "map_old")
           /\ UNCHANGED <<phys, python, kept, call, ops, faults>>
  <2> DEFINE e == Undo("remap", OldPtr(t), c.prev, c.old)
             x == BoxOf(box[b])
             i == <<b, "box">>
  <2>1. pc' = [pc EXCEPT ![t] = "map_old"] /\ call' = [call EXCEPT ![t] = c] /\ undo' = [undo EXCEPT ![t] = <<e>> \o undo[t]]
    BY <1>4, Same DEF Goto, Register, Undo
  <2>2. Works(p) /\ p # "clear" /\ p \notin Committed /\ "map_old" \notin Committed /\ p # "rollback" /\ Works("map_old")
        /\ p \notin {"d_retain", "d_unmap", "d_free"}
    BY <1>1 DEF Works, Deallocation, Committed
  <2>3. /\ b \in Buffers /\ buffer[b].open /\ box[b].holders # {} /\ box[b].size = buffer[b].size
        /\ b \notin Cleared /\ Standing(box[b], reserved)
    BY <1>2, <2>2, Grown
  <2>4. /\ x \in Ranges /\ x.at = OldPtr(t) /\ x.n = Granules(box[b].size) /\ x.n # 0 /\ OldPtr(t) \in Own(x)
    <3>1. OldPtr(t) = box[b].ptr
      BY DEF OldPtr
    <3>2. /\ x = [at |-> box[b].ptr, n |-> Granules(box[b].size)] /\ x \in Ranges /\ Granules(box[b].size) # 0
          /\ box[b].ptr \in Own(x)
      BY <2>3, HeldBox
    <3> QED
      BY <3>1, <3>2
  <2>5. Cells(OldPtr(t), c.prev) \subseteq Own(x)
    BY <1>2, <2>2, PrevFits
  <2>6. c.old \in Handles /\ OldPtr(t) \in Nat /\ c.prev \in Nat
    <3>1. c.old \in Handles
      <4>1. Len(undo[t]) >= 2
        BY <1>0, <1>2
      <4> QED
        BY <1>2, <4>1, InUse
    <3> QED
      BY <2>3, <3>1, HeldBox, CallNat DEF OldPtr
  <2>7. e \in Entries
    BY <2>6 DEF Entries, Undo
  <2> HIDE DEF e, x
  <2>8. Goes(t, "map_old", c, <<e>> \o undo[t])
    BY <2>1, GoesIs
  <2>9. Len(<<e>> \o undo[t]) = 3
    <3>1. Len(<<e>> \o undo[t]) = Len(undo[t]) + 1
      BY <1>2, <2>7
    <3> QED
      BY <1>0, <1>2, <3>1
  <2>10. i \in Claimants /\ Claim[i] = x /\ i \in Claimants \ Theirs(t, {b})
    BY <2>3, Claims DEF x, Theirs
  <2>11. Confined(mapped', reserved', Own(x))
    <3>1. Confined(mapped, reserved', Own(x))
      BY <1>2, <1>4, <2>4, ConfinedMark
    <3> QED
      BY <1>2, <1>4, <2>5, <3>1, ConfinedUnmapped
  <2>12. OthersLeft(t, {b})
    BY <2>3, <2>10, <2>11, OwnClaim
  <2>13. FreshWas(p, c, k) /\ OldWas(p, c, k) /\ ToOK(c)
    BY <1>0, Was
  <2>14. c.ptr \in Nat /\ FreshLen(p, c, k) \in Nat
    BY <1>0, CallNat, LensNat
  <2>15. FreshLen("map_old", c, 3) = FreshLen(p, c, k) /\ GrowParts("map_old", c, 3) = GrowParts(p, c, k)
    BY <1>1, <1>2 DEF FreshLen, GrowParts, Committed, Deallocation
  <2>16. Left(mapped', reserved', FreshOf(p, c, k))
    <3>1. <<t, "fresh">> \in Claimants /\ Claim[<<t, "fresh">>] = FreshOf(p, c, k) /\ <<t, "fresh">> # i
      BY <1>0, Claims
    <3> QED
      BY <2>10, <2>11, <3>1, Elsewhere
  <2>17. FreshNow("map_old", c, 3) /\ FreshOf("map_old", c, 3) = FreshOf(p, c, k)
    BY <1>2, <2>2, <2>13, <2>14, <2>15, <2>16, FreshMoves
  <2>18. UNCHANGED python /\ buffer' = buffer /\ box' = box /\ content' = content /\ phys' = phys
    BY <1>4 DEF python
  <2>19. phys[c.old].len <= c.prev
    <3>1. PICK m \in Here(mapped, x) : m.base = box[b].ptr /\ m.h = c.old
      BY <1>1, <1>2, <2>13 DEF OldWas, OldOK, x
    <3>2. m \in mapped
      BY <3>1 DEF Here
    <3>3. m.base \in Nat /\ m.len \in Nat /\ m.len # 0
      BY <1>2, <3>2, MappingHas
    <3>4. PICK a \in Nat, n \in Nat, v \in Nat : a = OldPtr(t) /\ n = m.len /\ v = c.prev
      BY <2>6, <3>3
    <3>5. m.base = a
      BY <3>1, <3>4 DEF OldPtr
    <3>6. v > 0
      BY <1>4, <3>4 DEF FullyMapped
    <3>7. a \in Cells(a, v) /\ a \in Cells(a, n)
      BY <3>3, <3>4, <3>6, CellsAre
    <3>8. m \in Backing(a)
      BY <3>2, <3>4, <3>5, <3>7 DEF Backing
    <3>9. m \in Inside(a, v)
      BY <1>4, <3>4, <3>7, <3>8 DEF FullyMapped
    <3>10. Cells(a, n) \subseteq Cells(a, v)
      BY <3>4, <3>5, <3>9 DEF Inside
    <3>11. n <= v
      <4>1. PICK z \in Nat : z = a + n - 1
        BY <3>3, <3>4
      <4>2. z \in Cells(a, n)
        BY <3>3, <3>4, <4>1, CellsAre
      <4>3. z < a + v
        BY <3>10, <4>2, CellsAre
      <4> QED
        BY <4>1, <4>3
    <3>12. phys[c.old].len = n
      BY <3>1, <3>2, <3>4 DEF BInv, Whole
    <3> QED
      BY <3>4, <3>11, <3>12
  <2>20. OldNow("map_old", c, 3)
    <3>1. /\ buffer[b].size < c.new /\ c.prev = Granules(c.new) - Granules(c.new - buffer[b].size)
          /\ \A j \in 1 .. Len(content[b]) : j <= phys[c.old].len => <<c.old, j - 1>> \in content[b][j]
      BY <1>2, <2>2, <2>13 DEF OldWas, OldOK
    <3> QED
      BY <2>18, <2>19, <3>1 DEF OldNow, OldOK
  <2>21. GoneNow("map_old", c) /\ GoneOf("map_old", c) = GoneOf(p, c)
    BY <2>2, GoneNone
  <2>22. ToNow(c) /\ NewOK("map_old", c, phys')
    BY <2>13, <2>18 DEF ToNow, ToOK, NewOK
  <2>23. ThreadNow("map_old", c, 3)
    BY <2>17, <2>20, <2>21, <2>22 DEF ThreadNow
  <2>24. Geo(reserved', mapped', Claim')
    <3>1. Claim' = Claim
      BY <1>0, <2>8, <2>9, <2>17, <2>18, <2>21, ClaimsStay
    <3>2. PICK cl \in [Claimants -> Ranges] : cl = Claim
      BY ClaimsImp
    <3>3. Geo(reserved, mapped, cl) /\ Housed(reserved, mapped) /\ cl[i] = x
      BY <2>10, <3>2 DEF BInv, Geo
    <3>4. Settles(reserved, reserved', cl, cl)
      <4>1. Settles(reserved, Mark(cl[i].at, "leaving"), cl, cl)
        BY <1>2, <2>4, <2>10, <3>3, MarkSettles
      <4> QED
        BY <1>4, <2>4, <3>3, <4>1
    <3>5. mapped' \in SUBSET mapped
      BY <1>4 DEF Unmapped
    <3>6. Housed(reserved', mapped')
      BY <1>2, <1>4, <3>3, <3>5, HousedMark, HousedLess
    <3>7. Geo(reserved', mapped', cl)
      BY <3>3, <3>4, <3>6, GeoSettles
    <3> QED
      BY <3>1, <3>2, <3>7
  <2>25. Whole' /\ LensStay
    BY <1>4, <2>18 DEF BInv, Whole, Unmapped, LensStay
  <2>26. BufferNow(b)
    <3> DEFINE S == Here(mapped, x)  T == Here(mapped', x)
    <3>1. BoxOK(box[b], buffer[b], content[b], S, reserved)
      BY <2>3 DEF BInv, BufferOK, x
    <3>2. T \subseteq S
      BY <1>4 DEF Here, Unmapped
    <3> HIDE DEF S, T
    <3>3. Res(x.at, x.n, "owned") \notin reserved'
      <4>1. Res(x.at, x.n, "owned").base = x.at /\ Res(x.at, x.n, "owned").is = "owned"
        BY DEF Res
      <4>2. ASSUME NEW n PROVE Res(x.at, n, "leaving").is = "leaving"
        BY DEF Res
      <4> QED
        BY <1>2, <1>4, <2>4, <4>1, <4>2, MarkIs
    <3>4. Res(x.at, x.n, "leaving") \in reserved'
      <4>1. PICK is : Res(x.at, x.n, is) \in reserved
        BY <2>3, <2>4 DEF Standing, OldPtr
      <4>2. Res(x.at, x.n, is).base = x.at /\ Res(x.at, x.n, is).len = x.n
        BY DEF Res
      <4> QED
        BY <1>2, <1>4, <2>4, <4>1, <4>2, MarkIs
    <3>5. Res(box[b].ptr, Granules(box[b].size), "owned") \notin reserved' /\ Res(box[b].ptr, Granules(box[b].size), "leaving") \in reserved'
      BY <2>4, <3>3, <3>4 DEF OldPtr
    <3>6. Agrees(T, box[b].ptr, content[b])
      BY <2>3, <3>1, <3>2 DEF BoxOK, Agrees
    <3>7. BoxOK(box[b], buffer[b], content[b], T, reserved')
      BY <3>1, <3>5, <3>6 DEF BoxOK
    <3> QED
      BY <2>18, <3>5, <3>7 DEF BufferNow, Standing, T, x
  <2>27. {b} \in SUBSET Buffers /\ (\A y \in Buffers \ {b} : Alike(y)) /\ (\A y \in {b} : BufferNow(y)) /\ content' \in Contents
    BY <2>3, <2>18, <2>26 DEF Alike, BInv, Contents
  <2>28. Keepsake(t, {b})
    BY <2>3, Mine
  <2> QED
    BY <2>2, <2>8, <2>9, <2>12, <2>23, <2>24, <2>25, <2>27, <2>28, Keeps
<1> QED
  BY <1>3, <1>4 DEF UnmapOld

\* A step of one thread within the claim of its old buffer.
LEMMA KeepsBox ==
  ASSUME IInv, IInv', BInv, NEW t \in Threads, NEW p, NEW c, NEW s, Goes(t, p, c, s), UNCHANGED python, LensStay,
         Geo(reserved', mapped', Claim'), Whole', NEW b \in Buffers, b = call[t].b,
         Confined(mapped', reserved', Own(BoxOf(box[b]))), ThreadNow(p, c, Len(s)), BufferNow(b)
  PROVE  BInv'
<1>1. buffer' = buffer /\ box' = box /\ content' = content /\ content \in Contents
  BY DEF python, BInv, Contents
<1>2. PICK i \in Claimants : i = <<b, "box">> /\ Claim[i] = BoxOf(box[b])
  BY Claims
<1>3. {b} \in SUBSET Buffers /\ i \in Claimants \ Theirs(t, {b})
  BY <1>2 DEF Theirs
<1>4. OthersLeft(t, {b})
  BY <1>2, <1>3, OwnClaim
<1>5. (\A y \in Buffers \ {b} : Alike(y)) /\ (\A y \in {b} : BufferNow(y)) /\ content' \in Contents /\ (pc[t] = "clear" => call[t].b \in {b})
  BY <1>1 DEF Alike
<1>6. Keepsake(t, {b})
  BY Mine
<1> QED
  BY <1>3, <1>4, <1>5, <1>6, Keeps

\* The old buffer, while a thread works on its new range.
LEMMA OldKept ==
  ASSUME IInv, BInv, NEW t \in Threads, Confined(mapped', reserved', Own(Claim[<<t, "fresh">>])), UNCHANGED python,
         \A h \in Handles : phys'[h].len = phys[h].len, Works(pc[t]),
         NEW p2, NEW k2 \in Nat, p2 # "unmap_old", k2 >= 3 => Len(undo[t]) >= 3,
         k2 >= 2 \/ p2 \in {"free_old", "clear"} => Len(undo[t]) >= 2
  PROVE  OldNow(p2, call[t], k2)
<1>1. CASE call[t].op # "grow"
  BY <1>1 DEF OldNow, OldOK
<1>2. CASE call[t].op = "grow"
  <2>1. PICK k \in Nat : k = Len(undo[t])
    BY Known
  <2>2. CallOK(pc[t], call[t], k) /\ OldWas(pc[t], call[t], k)
    BY <2>1, Known, Was
  <2>3. call[t].b \in Buffers
    BY <1>2, <2>2 DEF CallOK
  <2>4. Alike(call[t].b)
    BY DEF Alike, python
  <2>5. PICK i \in Claimants, j \in Claimants : i = <<t, "fresh">> /\ j = <<call[t].b, "box">> /\ i # j /\ Claim[j] = BoxOf(box[call[t].b])
    BY <2>3, Claims
  <2>6. Left(mapped', reserved', BoxOf(box[call[t].b]))
    BY <2>5, Elsewhere
  <2>7. k2 >= 2 \/ p2 \in {"free_old", "clear"} => k >= 2 /\ phys'[call[t].old].len = phys[call[t].old].len
    BY <1>2, <2>1, <2>2 DEF CallOK
  <2>8. k2 >= 3 => k >= 3
    BY <2>1
  <2> QED
    BY <2>2, <2>4, <2>6, <2>7, <2>8, OldMoves
<1> QED
  BY <1>1, <1>2

\* A mapping in the range that a thread is making.
LEMMA FreshMapped ==
  ASSUME IInv, IInv', BInv, NEW t \in Threads, NEW p, NEW c, NEW s, Goes(t, p, c, s), UNCHANGED python, UNCHANGED <<phys, reserved>>,
         pc[t] # "clear", NEW at \in Nat, NEW n \in Nat, NEW h, Mappable(at, n, h), n = phys[h].len,
         mapped' = mapped \cup {Mapping(at, n, h)},
         NEW x, x = FreshOf(pc[t], call[t], Len(undo[t])), Cells(at, n) \subseteq Own(x),
         FreshOf(p, c, Len(s)) = x, GoneOf(p, c) = GoneOf(pc[t], call[t]), ThreadNow(p, c, Len(s))
  PROVE  BInv'
<1>1. /\ phys' = phys /\ reserved' = reserved /\ buffer' = buffer /\ box' = box
  BY DEF python
<1>2. n # 0 /\ \E r \in reserved : Cells(at, n) \subseteq Cells(r.base, r.len)
  BY DEF Mappable
<1>3. PICK i \in Claimants : i = <<t, "fresh">> /\ Claim[i] = x
  BY Claims
<1>4. Claim' = Claim
  <2>1. \A y \in Buffers : BoxOf(box'[y]) = BoxOf(box[y])
    BY <1>1
  <2> QED
    BY <2>1, ClaimsStay
<1>5. Mapping(at, n, h).base = at /\ Mapping(at, n, h).len = n /\ Mapping(at, n, h).h = h
  BY DEF Mapping
<1>6. Geo(reserved', mapped', Claim')
  <2>1. Housed(reserved, mapped')
    BY <1>2, <1>5 DEF BInv, Geo, Housed
  <2> QED
    BY <1>1, <1>4, <2>1 DEF BInv, Geo
<1>7. Whole' /\ LensStay
  BY <1>1, <1>5 DEF BInv, Whole, LensStay
<1>8. Confined(mapped', reserved', Own(Claim[i]))
  <2>1. Confined(mapped, reserved, Own(x))
    BY ConfinedSame
  <2> QED
    BY <1>1, <1>2, <1>3, <2>1, ConfinedMapping
<1> QED
  BY <1>3, <1>6, <1>7, <1>8, KeepsOwn

\* The same, before the step is known to keep anything.
LEMMA FreshConfined ==
  ASSUME IInv, NEW t \in Threads, NEW at \in Nat, NEW n \in Nat, NEW h, n # 0, UNCHANGED reserved,
         mapped' = mapped \cup {Mapping(at, n, h)}, Cells(at, n) \subseteq Own(FreshOf(pc[t], call[t], Len(undo[t])))
  PROVE  Confined(mapped', reserved', Own(Claim[<<t, "fresh">>]))
<1>1. Claim[<<t, "fresh">>] = FreshOf(pc[t], call[t], Len(undo[t]))
  BY Claims
<1>2. Confined(mapped, reserved, Own(Claim[<<t, "fresh">>]))
  BY ConfinedSame
<1> QED
  BY <1>1, <1>2, ConfinedMapping

\* x is the range of n granules that thread t is making.
Ranged(t, x, n) ==
    /\ n = Granules(call[t].new) /\ n \in Nat /\ n # 0
    /\ call[t].ptr \in Nat /\ call[t].prev \in Nat /\ call[t].prev <= n
    /\ FreshLen(pc[t], call[t], Len(undo[t])) = n /\ FreshOf(pc[t], call[t], Len(undo[t])) = x
    /\ x = [at |-> call[t].ptr, n |-> n] /\ x.at = call[t].ptr /\ x.n = n /\ x \in Ranges /\ Own(x) = Cells(call[t].ptr, n)
    /\ Claim[<<t, "fresh">>] = x /\ <<t, "fresh">> \in Claimants

\* The range that a thread is making.
LEMMA MakingRange ==
  ASSUME IInv, NEW t \in Threads,
         \/ call[t].op = "grow" /\ Len(undo[t]) >= 1 /\ pc[t] # "probe_free"
         \/ call[t].op = "grow" /\ pc[t] \in Committed
         \/ call[t].op = "allocate" /\ Len(undo[t]) >= 2
  PROVE  \E x, n : Ranged(t, x, n)
<1> DEFINE n == Granules(call[t].new)  f == FreshOf(pc[t], call[t], Len(undo[t]))
<1>1. CallOK(pc[t], call[t], Len(undo[t])) /\ call[t].ptr \in Nat /\ call[t].prev \in Nat /\ call[t].new \in Nat /\ n \in Nat
  BY Known, CallNat
<1>2. n # 0
  BY <1>1, GranulesNat DEF CallOK
<1>3. call[t].prev <= n
  <2>1. CASE call[t].op = "grow"
    BY <1>1, <2>1 DEF CallOK
  <2>2. CASE call[t].op = "allocate"
    BY <1>1, <2>2 DEF CallOK
  <2> QED
    BY <2>1, <2>2
<1>4. FreshLen(pc[t], call[t], Len(undo[t])) = n
  BY DEF FreshLen, Committed, Deallocation
<1>5. f = [at |-> call[t].ptr, n |-> n] /\ Own(f) = Cells(call[t].ptr, n) /\ f \in Ranges /\ f.at = call[t].ptr /\ f.n = n
  BY <1>1, <1>2, <1>4 DEF FreshOf, Span, Own, Ranges
<1>6. Claim[<<t, "fresh">>] = f /\ <<t, "fresh">> \in Claimants
  BY Claims
<1>7. Ranged(t, f, n)
  BY <1>1, <1>2, <1>3, <1>4, <1>5, <1>6 DEF Ranged
<1> QED
  BY <1>7

\* cuMemMap of the old memory.
LEMMA MapOldPuts == ASSUME IInv, IInv', BInv, NEW t \in Threads, MapOld(t) PROVE BInv'
<1> DEFINE p == pc[t]  c == call[t]
<1>0. PICK k \in Nat : k = Len(undo[t])
  BY Known
<1>1. p = "map_old" /\ p \in Transaction
  BY DEF MapOld, Transaction
<1>2. c \in Calls /\ k = 3 /\ c.op = "grow" /\ undo[t] \in Seq(Entries)
  BY <1>0, <1>1, Known, Located DEF Table
<1>3. CASE Raise(t) /\ UNCHANGED undo
  BY <1>1, <1>3, RaisePuts
<1>4. CASE /\ Mappable(c.ptr, c.prev, c.old)
           /\ mapped' = mapped \cup {Mapping(c.ptr, c.prev, c.old)}
           /\ Register(t, "unmap", c.ptr, c.prev, None)
           /\ Goto(t, "create")
           /\ UNCHANGED <<reserved, phys, python, kept, call, ops, faults>>
  <2> DEFINE e == Undo("unmap", c.ptr, c.prev, None)
  <2>1. PICK x, n : Ranged(t, x, n)
    <3>1. Len(undo[t]) >= 1 /\ p # "probe_free"
      BY <1>0, <1>1, <1>2
    <3> QED
      BY <1>2, <3>1, MakingRange
  <2>2. /\ n = Granules(c.new) /\ n \in Nat /\ n # 0 /\ c.ptr \in Nat /\ c.prev \in Nat /\ c.prev <= n
        /\ FreshLen(p, c, k) = n /\ FreshOf(p, c, k) = x /\ x = [at |-> c.ptr, n |-> n] /\ x \in Ranges /\ Own(x) = Cells(c.ptr, n)
        /\ x = FreshOf(p, c, Len(undo[t]))
    BY <1>0, <2>1 DEF Ranged
  <2>3. Cells(c.ptr, c.prev) \subseteq Own(x)
    <3>1. PICK a \in Nat, v \in Nat, l \in Nat : a = c.ptr /\ v = c.prev /\ l = n /\ v <= l
      BY <2>2
    <3>2. \A z : z \in Cells(a, v) => z \in Nat /\ a <= z /\ z < a + v
      BY <3>1, CellsAre
    <3>3. \A z : z \in Cells(a, v) => z \in Cells(a, l)
      BY <3>1, <3>2, CellsAre
    <3> QED
      BY <2>2, <3>1, <3>3
  <2>4. pc' = [pc EXCEPT ![t] = "create"] /\ call' = [call EXCEPT ![t] = c] /\ undo' = [undo EXCEPT ![t] = <<e>> \o undo[t]]
    BY <1>4, Same DEF Goto, Register, Undo
  <2>5. e \in Entries
    BY <2>2 DEF Entries, Undo
  <2> HIDE DEF e
  <2>6. Goes(t, "create", c, <<e>> \o undo[t])
    BY <2>4, GoesIs
  <2>7. Len(<<e>> \o undo[t]) = 4
    <3>1. Len(<<e>> \o undo[t]) = Len(undo[t]) + 1
      BY <1>2, <2>5
    <3> QED
      BY <1>0, <1>2, <3>1
  <2>8. FreshWas(p, c, k) /\ OldWas(p, c, k) /\ ToOK(c)
    BY <1>0, Was
  <2>9. c.prev = phys[c.old].len /\ c.prev # 0
    <3>1. phys[c.old].len <= c.prev
      BY <1>2, <2>8 DEF OldWas, OldOK
    <3>2. c.old \in Handles
      <4>1. CallOK(p, c, k)
        BY <1>0, Known
      <4> QED
        BY <1>2, <4>1 DEF CallOK
    <3>3. phys[c.old].len \in Nat
      BY <3>2, Known DEF PhysOK
    <3> QED
      BY <1>4, <2>2, <3>1, <3>3 DEF Mappable
  <2>10. UNCHANGED python /\ UNCHANGED <<phys, reserved>> /\ buffer' = buffer /\ box' = box /\ phys' = phys /\ reserved' = reserved
    BY <1>4 DEF python
  <2>11. Works(p) /\ p # "clear" /\ "create" \notin {"d_retain", "d_unmap", "d_free"} \cup Committed /\ p \notin {"d_retain", "d_unmap", "d_free"} \cup Committed
    BY <1>1 DEF Works, Deallocation, Committed
  <2>12. FreshLen("create", c, 4) = n /\ FreshOf("create", c, 4) = x
    BY <1>2, <2>2 DEF FreshLen, FreshOf, Span
  <2>13. FreshNow("create", c, 4)
    <3>1. Bares(Here(mapped, x)) = {}
      BY <1>1, <1>2, <2>2, <2>8, <2>11 DEF FreshWas, FreshOK, GrowParts
    <3>2. Bares(Here(mapped', x)) = Bares(Here(mapped, x)) \cup {Part(c.ptr, c.prev, c.old)}
      <4>1. PICK a, v, h : a = c.ptr /\ v = c.prev /\ h = c.old
        OBVIOUS
      <4>2. Cells(a, v) \subseteq Own(x)
        BY <2>3, <4>1
      <4>3. Bares(Here(mapped \cup {Mapping(a, v, h)}, x)) = Bares(Here(mapped, x)) \cup {Part(a, v, h)}
        <5>1. x \in Ranges
          BY <2>2
        <5> QED
          BY <4>2, <5>1, MappingAdded
      <4> QED
        BY <1>4, <4>1, <4>3
    <3>3. GrowParts("create", c, 4) = {Part(c.ptr, c.prev, c.old)}
      BY <2>11 DEF GrowParts
    <3>4. Res(c.ptr, n, "pending") \in reserved'
      <4>1. FreshLen(p, c, k) # 0 /\ p \notin Committed
        BY <2>2, <2>11
      <4>2. Res(c.ptr, FreshLen(p, c, k), "pending") \in reserved
        BY <2>8, <4>1 DEF FreshWas, FreshOK
      <4> QED
        BY <2>2, <2>10, <4>2
    <3> QED
      BY <1>2, <2>11, <2>12, <3>1, <3>2, <3>3, <3>4 DEF FreshNow, FreshOK
  <2>14. OldNow("create", c, 4)
    <3>1. Confined(mapped', reserved', Own(Claim[<<t, "fresh">>]))
      BY <1>4, <2>1, <2>2, <2>3, <2>9, <2>10, FreshConfined
    <3>2. Len(undo[t]) >= 3 /\ Len(undo[t]) >= 2 /\ \A h \in Handles : phys'[h].len = phys[h].len
      BY <1>0, <1>2, <2>10
    <3> QED
      BY <2>10, <2>11, <3>1, <3>2, OldKept
  <2>15. GoneNow("create", c) /\ GoneOf("create", c) = GoneOf(p, c)
    BY <2>11, GoneNone
  <2>16. ToNow(c) /\ NewOK("create", c, phys')
    BY <2>8, <2>10 DEF ToNow, ToOK, NewOK
  <2>17. ThreadNow("create", c, Len(<<e>> \o undo[t])) /\ FreshOf("create", c, Len(<<e>> \o undo[t])) = x
    BY <2>7, <2>12, <2>13, <2>14, <2>15, <2>16 DEF ThreadNow
  <2> QED
    BY <1>4, <2>1, <2>2, <2>3, <2>6, <2>9, <2>10, <2>11, <2>15, <2>17, FreshMapped
<1> QED
  BY <1>3, <1>4 DEF MapOld

\* The range of n granules, reserved as what.
LEMMA RangedRes ==
  ASSUME IInv, BInv, NEW t \in Threads, NEW x, NEW n, Ranged(t, x, n)
  PROVE  Res(call[t].ptr, n, IF pc[t] \in Committed THEN "owned" ELSE "pending") \in reserved
<1>1. FreshWas(pc[t], call[t], Len(undo[t])) /\ FreshLen(pc[t], call[t], Len(undo[t])) = n /\ n # 0
  BY Was DEF Ranged
<1> QED
  BY <1>1 DEF FreshWas, FreshOK

\* One more entry.
LEMMA OneMore ==
  ASSUME IInv, NEW t \in Threads, NEW e \in Entries, NEW k \in Nat, k = Len(undo[t])
  PROVE  Len(<<e>> \o undo[t]) = k + 1
<1>1. undo[t] \in Seq(Entries)
  BY Known
<1>2. Len(<<e>> \o undo[t]) = Len(undo[t]) + 1
  BY <1>1
<1> QED
  BY <1>2

\* A failed mapping of an allocation, which is registered all the same.
LEMMA MapFails ==
  ASSUME IInv, IInv', BInv, NEW t \in Threads, pc[t] = "map", call[t].op = "allocate", Raise(t),
         NEW at \in Nat, NEW m \in Nat, Register(t, "unmap", at, m, None)
  PROVE  BInv'
<1> DEFINE p == pc[t]  c == call[t]  e == Undo("unmap", at, m, None)
<1>0. PICK k \in Nat : k = Len(undo[t])
  BY Known
<1>1. k = 2 /\ c.op = "allocate" /\ p = "map"
  BY <1>0, Located DEF Table
<1>2. e \in Entries
  BY DEF Entries, Undo
<1>3. /\ UNCHANGED <<reserved, mapped>> /\ UNCHANGED python /\ phys' = phys /\ mapped' = mapped /\ reserved' = reserved
      /\ buffer' = buffer /\ box' = box /\ call' = call
  BY DEF Raise, driver, python
<1>4. pc' = [pc EXCEPT ![t] = "rollback"] /\ call' = [call EXCEPT ![t] = c] /\ undo' = [undo EXCEPT ![t] = <<e>> \o undo[t]]
  BY <1>3, Same DEF Raise, Goto, Register, Undo
<1> HIDE DEF e
<1>5. Goes(t, "rollback", c, <<e>> \o undo[t])
  BY <1>4, GoesIs
<1>6. Len(<<e>> \o undo[t]) = 3
  <2>1. Len(<<e>> \o undo[t]) = k + 1
    BY <1>0, <1>2, OneMore
  <2> QED
    BY <1>1, <2>1
<1>7. PICK x, n : Ranged(t, x, n)
  <2>1. Len(undo[t]) >= 2
    BY <1>0, <1>1
  <2> QED
    BY <2>1, MakingRange
<1>8. n # 0 /\ FreshOf(p, c, Len(undo[t])) = x /\ x = [at |-> c.ptr, n |-> n] /\ n = Granules(c.new)
  BY <1>7 DEF Ranged
<1>9. FreshLen("rollback", c, 3) = n /\ FreshOf("rollback", c, 3) = x
  BY <1>1, <1>8 DEF FreshLen, FreshOf, Span
<1>10. "rollback" \notin Committed /\ p \notin Committed /\ p # "clear" /\ p \notin {"d_retain", "d_unmap", "d_free"}
  BY <1>1 DEF Committed, Deallocation
<1>11. FreshWas(p, c, k) /\ ToOK(c)
  BY <1>0, Was
<1>12. Here(mapped', x) = {}
  <2>1. Bares(Here(mapped, x)) = {}
    BY <1>0, <1>1, <1>8, <1>11 DEF FreshWas, FreshOK, AllocateParts
  <2> QED
    BY <1>3, <2>1 DEF Bares
<1>13. Res(c.ptr, n, "pending") \in reserved'
  BY <1>3, <1>7, <1>10, RangedRes
<1>14. FreshNow("rollback", c, 3)
  BY <1>1, <1>9, <1>10, <1>12, <1>13 DEF FreshNow, FreshOK
<1>15. GoneNow("rollback", c) /\ GoneOf("rollback", c) = GoneOf(p, c)
  BY <1>10, GoneNone
<1>16. OldNow("rollback", c, 3) /\ NewOK("rollback", c, phys') /\ ToNow(c) /\ LensStay
  BY <1>1, <1>3, <1>11 DEF OldNow, OldOK, NewOK, ToNow, ToOK, LensStay
<1>17. ThreadNow("rollback", c, Len(<<e>> \o undo[t]))
  BY <1>6, <1>14, <1>15, <1>16 DEF ThreadNow
<1>18. FreshOf("rollback", c, Len(<<e>> \o undo[t])) = FreshOf(p, c, Len(undo[t]))
  BY <1>6, <1>8, <1>9
<1> QED
  BY <1>3, <1>5, <1>10, <1>15, <1>16, <1>17, <1>18, StaysPut

\* cuMemMap of the new memory.
LEMMA MapPuts == ASSUME IInv, IInv', BInv, NEW t \in Threads, Map(t) PROVE BInv'
<1> DEFINE p == pc[t]  c == call[t]
<1>0. PICK k \in Nat : k = Len(undo[t])
  BY Known
<1>1. p = "map" /\ p \in Transaction
  BY DEF Map, Transaction
<1>2. (c.op = "grow" /\ k = 5) \/ (c.op = "allocate" /\ k = 2)
  BY <1>0, <1>1, Located DEF Table
<1>3. PICK x, n : Ranged(t, x, n)
  <2>1. CASE c.op = "grow" /\ k = 5
    <3>1. p # "probe_free" /\ Len(undo[t]) >= 1
      BY <1>0, <1>1, <2>1
    <3> QED
      BY <2>1, <3>1, MakingRange
  <2>2. CASE c.op = "allocate" /\ k = 2
    <3>1. Len(undo[t]) >= 2
      BY <1>0, <2>2
    <3> QED
      BY <2>2, <3>1, MakingRange
  <2> QED
    BY <1>2, <2>1, <2>2
<1>4. /\ n = Granules(c.new) /\ n \in Nat /\ n # 0 /\ c.ptr \in Nat /\ c.prev \in Nat /\ c.prev <= n
      /\ FreshLen(p, c, k) = n /\ FreshOf(p, c, k) = x /\ x = [at |-> c.ptr, n |-> n] /\ x \in Ranges /\ Own(x) = Cells(c.ptr, n)
      /\ x = FreshOf(p, c, Len(undo[t]))
  BY <1>0, <1>3 DEF Ranged
<1>x. PICK a \in Nat, v \in Nat : a = c.ptr /\ v = c.prev /\ v <= n /\ Own(x) = Cells(a, n)
  BY <1>4
<1>5. PICK at \in Nat, m \in Nat : at = c.ptr + c.prev /\ m = Chunk(t) /\ m = n - c.prev /\ at = a + v /\ m = n - v
  BY <1>4, <1>x DEF Chunk, Total
<1>6. CASE Raise(t) /\ UNCHANGED undo
  BY <1>1, <1>6, RaisePuts
<1>7. CASE Raise(t) /\ ~Growing(t) /\ Register(t, "unmap", at, m, None)
  BY <1>1, <1>2, <1>7, MapFails DEF Growing
<1>8. CASE /\ Mappable(at, m, c.h)
           /\ mapped' = mapped \cup {Mapping(at, m, c.h)}
           /\ Register(t, "unmap", at, m, None)
           /\ Goto(t, "access")
           /\ UNCHANGED <<reserved, phys, python, kept, call, ops, faults>>
  <2> DEFINE e == Undo("unmap", at, m, None)
  <2>1. Cells(at, m) \subseteq Own(x)
    <3>1. PICK w \in Nat : w = n
      BY <1>4
    <3>2. at = a + v /\ m = w - v /\ v <= w
      BY <1>5, <1>x, <3>1
    <3>3. \A z \in Nat : at <= z /\ z < at + m => a <= z /\ z < a + w
      BY <3>2
    <3> QED
      BY <1>x, <3>1, <3>3, CellsAre
  <2>2. pc' = [pc EXCEPT ![t] = "access"] /\ call' = [call EXCEPT ![t] = c] /\ undo' = [undo EXCEPT ![t] = <<e>> \o undo[t]]
    BY <1>8, Same DEF Goto, Register, Undo
  <2>3. e \in Entries
    BY DEF Entries, Undo
  <2> HIDE DEF e
  <2>4. Goes(t, "access", c, <<e>> \o undo[t])
    BY <2>2, GoesIs
  <2>5. Len(<<e>> \o undo[t]) = k + 1
    BY <1>0, <2>3, OneMore
  <2>6. FreshWas(p, c, k) /\ ToOK(c) /\ NewOK(p, c, phys)
    BY <1>0, Was
  <2>7. m = phys[c.h].len /\ m # 0
    <3>1. phys[c.h].len = m
      BY <1>1, <1>4, <1>5, <2>6 DEF NewOK
    <3> QED
      BY <1>5, <1>8, <3>1 DEF Mappable
  <2>8. UNCHANGED python /\ UNCHANGED <<phys, reserved>> /\ buffer' = buffer /\ box' = box /\ phys' = phys /\ reserved' = reserved
    BY <1>8 DEF python
  <2>9. Works(p) /\ p # "clear" /\ "access" \notin {"d_retain", "d_unmap", "d_free"} \cup Committed /\ p \notin {"d_retain", "d_unmap", "d_free"} \cup Committed
    BY <1>1 DEF Works, Deallocation, Committed
  <2>10. FreshLen("access", c, k + 1) = n
    BY <1>2, <1>4, <2>9 DEF FreshLen
  <2>11. FreshOf("access", c, k + 1) = x
    BY <1>4, <2>10 DEF FreshOf, Span
  <2>12. Bares(Here(mapped', x)) = Bares(Here(mapped, x)) \cup {Part(at, m, c.h)}
    <3>1. x \in Ranges
      BY <1>4
    <3>2. PICK h : h = c.h
      OBVIOUS
    <3>3. Bares(Here(mapped \cup {Mapping(at, m, h)}, x)) = Bares(Here(mapped, x)) \cup {Part(at, m, h)}
      BY <2>1, <3>1, MappingAdded
    <3> QED
      BY <1>8, <3>2, <3>3
  <2>13. Res(c.ptr, n, "pending") \in reserved'
    BY <1>3, <2>8, <2>9, RangedRes
  <2>14. c.op = "grow" => Bares(Here(mapped', x)) = GrowParts("access", c, k + 1)
    <3> SUFFICES ASSUME c.op = "grow" PROVE Bares(Here(mapped', x)) = GrowParts("access", c, k + 1)
      OBVIOUS
    <3>1. k = 5 /\ k + 1 = 6
      BY <1>2
    <3>2. Bares(Here(mapped, x)) = GrowParts(p, c, 5)
      BY <1>4, <2>6, <3>1 DEF FreshWas, FreshOK
    <3>3. Bares(Here(mapped, x)) = {Part(c.ptr, c.prev, c.old)}
      BY <2>9, <3>2 DEF GrowParts
    <3>4. GrowParts("access", c, 6) = {Part(c.ptr, c.prev, c.old), Part(at, m, c.h)}
      BY <1>4, <1>5 DEF GrowParts
    <3> QED
      BY <2>12, <3>1, <3>3, <3>4
  <2>15. c.op = "allocate" => Bares(Here(mapped', x)) = AllocateParts(c, k + 1)
    <3> SUFFICES ASSUME c.op = "allocate" PROVE Bares(Here(mapped', x)) = AllocateParts(c, k + 1)
      OBVIOUS
    <3>1. k = 2 /\ k + 1 = 3
      BY <1>2
    <3>2. Bares(Here(mapped, x)) = {}
      BY <1>1, <1>4, <2>6, <3>1 DEF FreshWas, FreshOK, AllocateParts
    <3>3. c.prev = 0
      BY Known DEF CallOK
    <3>4. at = c.ptr /\ m = n
      BY <1>4, <1>5, <3>3
    <3>5. AllocateParts(c, 3) = {Part(at, m, c.h)}
      BY <1>4, <3>4 DEF AllocateParts
    <3> QED
      BY <2>12, <3>1, <3>2, <3>5
  <2>16. FreshNow("access", c, k + 1)
    BY <2>9, <2>10, <2>11, <2>13, <2>14, <2>15 DEF FreshNow, FreshOK
  <2>17. OldNow("access", c, k + 1)
    <3>1. Confined(mapped', reserved', Own(Claim[<<t, "fresh">>]))
      <4>1. PICK h : h = c.h
        OBVIOUS
      <4>2. mapped' = mapped \cup {Mapping(at, m, h)} /\ Cells(at, m) \subseteq Own(FreshOf(pc[t], call[t], Len(undo[t])))
        BY <1>4, <1>8, <2>1, <4>1
      <4> QED
        BY <2>7, <2>8, <4>2, FreshConfined
    <3>2. c.op = "allocate" => OldNow("access", c, k + 1)
      BY DEF OldNow, OldOK
    <3>3. ASSUME c.op = "grow" PROVE OldNow("access", c, k + 1)
      <4>1. Len(undo[t]) >= 3 /\ Len(undo[t]) >= 2 /\ k + 1 \in Nat /\ (\A h \in Handles : phys'[h].len = phys[h].len)
        <5>1. k = 5
          BY <1>2, <3>3
        <5> QED
          BY <1>0, <2>8, <5>1
      <4> QED
        BY <2>8, <2>9, <3>1, <4>1, OldKept
    <3> QED
      BY <1>2, <3>2, <3>3
  <2>18. GoneNow("access", c) /\ GoneOf("access", c) = GoneOf(p, c)
    BY <2>9, GoneNone
  <2>19. ToNow(c) /\ NewOK("access", c, phys')
    BY <2>6, <2>8 DEF ToNow, ToOK, NewOK
  <2>20. ThreadNow("access", c, Len(<<e>> \o undo[t])) /\ FreshOf("access", c, Len(<<e>> \o undo[t])) = x
    BY <2>5, <2>11, <2>16, <2>17, <2>18, <2>19 DEF ThreadNow
  <2>21. PICK h : h = c.h /\ Mappable(at, m, h) /\ m = phys[h].len /\ mapped' = mapped \cup {Mapping(at, m, h)}
    BY <1>8, <2>7
  <2> QED
    BY <1>4, <2>1, <2>4, <2>8, <2>9, <2>18, <2>20, <2>21, FreshMapped
<1> QED
  BY <1>5, <1>6, <1>7, <1>8 DEF Map

-----------------------------------------------------------------------------
(* Access and commit.                                                      *)

\* What a new Buffer's user finds behind it.
LEMMA ViewIs ==
  ASSUME IInv, NEW a \in Nat, NEW n \in Nat
  PROVE  /\ View(a, n) \in Seq(SUBSET (Handles \X Nat)) /\ Len(View(a, n)) = n
         /\ \A m \in mapped : \A z \in Cells(m.base, m.len) : z \in Cells(a, n) => <<m.h, z - m.base>> \in View(a, n)[z - a + 1]
<1> DEFINE g(z) == {<<m.h, z - m.base>> : m \in Backing(z)}
<1>0. MappingsOK(mapped)
  BY TypeParts DEF IInv
<1>1. ASSUME NEW z \in Nat PROVE g(z) \in SUBSET (Handles \X Nat)
  <2>1. ASSUME NEW m \in Backing(z) PROVE m.h \in Handles /\ z - m.base \in Nat
    <3>1. m \in mapped /\ z \in Cells(m.base, m.len)
      BY DEF Backing
    <3>2. m.base \in Nat /\ m.len \in Nat /\ m.h \in Handles
      BY <1>0, <3>1, MappingHas
    <3> QED
      BY <3>1, <3>2, CellsAre
  <2> QED
    BY <2>1
<1>2. ASSUME NEW m \in mapped, NEW z \in Cells(m.base, m.len) PROVE <<m.h, z - m.base>> \in g(z)
  <2>1. m \in Backing(z)
    BY DEF Backing
  <2> QED
    BY <2>1
<1> DEFINE f(i) == {<<m.h, a + i - 1 - m.base>> : m \in Backing(a + i - 1)}
<1>x. View(a, n) = [i \in 1 .. n |-> f(i)]
  BY DEF View
<1>y. ASSUME NEW i \in 1 .. n PROVE f(i) = g(a + i - 1)
  <2>1. \A m \in Backing(a + i - 1) : m.base \in Nat
    BY <1>0, MappingHas DEF Backing
  <2>2. \A x \in Nat : a + i - 1 - x = (a + i - 1) - x
    OBVIOUS
  <2>3. \A m \in Backing(a + i - 1) : a + i - 1 - m.base = (a + i - 1) - m.base
    BY <2>1, <2>2
  <2> QED
    BY <2>3
<1> HIDE DEF g, f
<1>3. \A i \in 1 .. n : View(a, n)[i] = g(a + i - 1)
  BY <1>x, <1>y
<1>4. View(a, n) \in Seq(SUBSET (Handles \X Nat)) /\ Len(View(a, n)) = n
  <2>1. \A i \in 1 .. n : f(i) \in SUBSET (Handles \X Nat)
    <3>1. \A i \in 1 .. n : a + i - 1 \in Nat
      OBVIOUS
    <3>2. \A i \in 1 .. n : g(a + i - 1) \in SUBSET (Handles \X Nat)
      BY <1>1, <3>1
    <3> QED
      BY <1>y, <3>2
  <2> QED
    BY <1>x, <2>1
<1>5. ASSUME NEW z, z \in Cells(a, n) PROVE View(a, n)[z - a + 1] = g(z)
  <2>1. z \in Nat /\ a <= z /\ z < a + n
    BY <1>5, CellsAre
  <2>2. PICK i \in 1 .. n : i = z - a + 1
    BY <2>1
  <2>3. a + i - 1 = z
    BY <2>1, <2>2
  <2>4. View(a, n)[i] = g(a + i - 1)
    BY <1>3
  <2> QED
    BY <2>2, <2>3, <2>4
<1> QED
  BY <1>2, <1>4, <1>5

\* A box that nobody holds claims nothing.
LEMMA NobodysBox ==
  ASSUME IInv, BInv, NEW b \in Buffers, box[b].holders = {}
  PROVE  box[b] = NoBox /\ BoxOf(box[b]) = Nowhere /\ BoxOf(box[b]).n = 0
<1>1. box[b] = NoBox
  BY DEF BInv, BufferOK, BoxOK
<1>2. BoxOf(NoBox) = Nowhere
  BY NoGranules DEF BoxOf, NoBox, Span
<1> QED
  BY <1>1, <1>2, SpanIs

\* A new Buffer takes over the range that its thread has made.
LEMMA HandOver ==
  ASSUME IInv, IInv', BInv, NEW t \in Threads, NEW x, NEW n, Ranged(t, x, n), call[t].op \in {"grow", "allocate"},
         NEW size \in Nat, Granules(size) = n, NewBuffer(t, size), Return(t), undo' = [undo EXCEPT ![t] = <<>>], UNCHANGED phys,
         pc[t] \notin {"clear", "d_retain", "d_unmap", "d_free"},
         Geo(reserved', mapped', Claim), Whole', Confined(mapped', reserved', Own(x)),
         FullIn(Here(mapped', x), x), Res(call[t].ptr, n, "owned") \in reserved',
         \A m \in Here(mapped', x) : \E o \in mapped : Bare(m) = Bare(o)
  PROVE  BInv'
<1> DEFINE to == call[t].to
           bx == [ptr |-> call[t].ptr, size |-> size, holders |-> {"buffer"}]
           bf == [open |-> TRUE, size |-> size]
<1>1. to \in Buffers /\ ~buffer[to].open /\ box[to].holders = {} /\ BuffersOK(buffer, box)
  <2>1. CallOK(pc[t], call[t], Len(undo[t])) /\ ToOK(call[t]) /\ BuffersOK(buffer, box)
    BY Known, Was
  <2> QED
    BY <2>1 DEF CallOK, ToOK
<1>2. PICK a \in Nat : a = call[t].ptr /\ n \in Nat /\ n # 0 /\ Own(x) = Cells(a, n) /\ x = [at |-> a, n |-> n] /\ x.n = n /\ x \in Ranges
  BY DEF Ranged
<1>3. size > 0
  BY <1>2, NoGranules
<1>4. Goes(t, "idle", Idle, <<>>)
  BY GoesIs DEF Return, Goto
<1>5. /\ buffer' = [buffer EXCEPT ![to] = bf] /\ box' = [box EXCEPT ![to] = bx]
      /\ content' = [content EXCEPT ![to] = View(a, n)]
      /\ bx.ptr = a /\ bx.size = size /\ bx.holders = {"buffer"} /\ bf.open /\ bf.size = size
  BY <1>2 DEF NewBuffer
<1> HIDE DEF bx, bf
<1>6. BoxOf(bx) = x
  BY <1>2, <1>5 DEF BoxOf, Span
<1>7. content \in Contents /\ content' \in Contents /\ content'[to] = View(a, n)
  <2>1. content \in Contents
    BY DEF BInv, Contents
  <2>2. View(a, n) \in Seq(SUBSET (Handles \X Nat))
    BY <1>2, ViewIs
  <2> QED
    BY <1>1, <1>5, <2>1, <2>2 DEF Contents
<1>8. box'[to] = bx /\ buffer'[to] = bf
  BY <1>1, <1>5 DEF BuffersOK
<1>9. ASSUME NEW y \in Buffers \ {to} PROVE Alike(y) /\ BoxOf(box'[y]) = BoxOf(box[y])
  <2>1. box'[y] = box[y] /\ buffer'[y] = buffer[y] /\ content'[y] = content[y]
    BY <1>1, <1>5, <1>7 DEF BuffersOK, Contents
  <2> QED
    BY <2>1 DEF Alike
<1> HIDE DEF to
<1>10. PICK i \in Claimants, j \in Claimants : i = <<t, "fresh">> /\ j = <<to, "box">> /\ i # j
  BY <1>1, Claims
<1>11. /\ Claim[i] = x /\ Claim'[i] = Nowhere /\ Claim[j] = Nowhere /\ Claim'[j] = x /\ Claim'[j] = Claim[i] /\ Claim[j].n = 0 /\ Claim'[i].n = 0
       /\ \A k \in Claimants \ {i, j} : Claim'[k] = Claim[k]
  <2>1. {to} \in SUBSET Buffers /\ \A y \in Buffers \ {to} : BoxOf(box'[y]) = BoxOf(box[y])
    BY <1>1, <1>9
  <2>2. /\ Claim'[<<t, "fresh">>] = FreshOf("idle", Idle, Len(<<>>)) /\ Claim'[<<t, "gone">>] = GoneOf("idle", Idle)
        /\ \A y \in Buffers : Claim'[<<y, "box">>] = BoxOf(box'[y])
        /\ \A k \in Claimants : k \notin {<<t, "fresh">>, <<t, "gone">>} \cup ({to} \X {"box"}) => Claim'[k] = Claim[k]
    BY <1>4, <2>1, ClaimMoves
  <2>3. Len(<<>>) = 0
    OBVIOUS
  <2>4. Claim'[i] = Nowhere /\ Claim'[<<t, "gone">>] = Nowhere /\ Claim'[j] = x
    BY <1>1, <1>6, <1>8, <1>10, <2>2, <2>3, AtRest
  <2>5. Claim[i] = x
    BY <1>10 DEF Ranged
  <2>6. Claim[<<t, "gone">>] = Nowhere
    BY Claims, GoneNone
  <2>7. Claim[j] = Nowhere
    BY <1>1, <1>10, Claims, NobodysBox
  <2>8. \A k \in Claimants \ {i, j} : Claim'[k] = Claim[k]
    BY <1>10, <2>2, <2>4, <2>6
  <2> QED
    BY <2>4, <2>5, <2>7, <2>8, SpanIs
<1>12. Geo(reserved', mapped', Claim')
  <2>1. PICK cl \in [Claimants -> Ranges], cl2 \in [Claimants -> Ranges] : cl = Claim /\ cl2 = Claim'
    BY ClaimsImp, ClaimsNext
  <2>2. \A r \in reserved' : r.len # 0
    <3>1. RangesOK(reserved')
      BY TypePartsNext DEF IInv
    <3> QED
      BY <3>1, RangeHas
  <2>3. Geo(reserved', mapped', cl) /\ cl2[j] = cl[i] /\ cl[j].n = 0 /\ cl2[i].n = 0 /\ \A k \in Claimants \ {i, j} : cl2[k] = cl[k]
    BY <1>11, <2>1
  <2>4. Geo(reserved', mapped', cl2)
    BY <1>10, <2>2, <2>3, GeoTransfer
  <2> QED
    BY <2>1, <2>4
<1>13. BufferNow(to)
  <2>1. Res(bx.ptr, Granules(bx.size), "owned") \in reserved'
    BY <1>2, <1>5
  <2>2. View(a, n) \in Seq(SUBSET (Handles \X Nat)) /\ Len(View(a, n)) = n
    BY <1>2, ViewIs
  <2>3. Agrees(Here(mapped', x), a, View(a, n))
    <3> SUFFICES ASSUME NEW m \in Here(mapped', x), NEW z \in Cells(m.base, m.len) PROVE <<m.h, z - m.base>> \in View(a, n)[z - a + 1]
      BY DEF Agrees
    <3>1. PICK o \in mapped : m.base = o.base /\ m.len = o.len /\ m.h = o.h
      BY BareIs
    <3>2. z \in Cells(a, n)
      BY <1>2 DEF Here
    <3> QED
      BY <1>2, <3>1, <3>2, ViewIs
  <2>4. BoxOK(bx, bf, View(a, n), Here(mapped', x), reserved')
    BY <1>2, <1>3, <1>5, <1>6, <2>2, <2>3 DEF BoxOK
  <2>5. Standing(bx, reserved')
    BY <2>1 DEF Standing
  <2> QED
    BY <1>6, <1>7, <1>8, <2>4, <2>5 DEF BufferNow
<1>14. OthersLeft(t, {to})
  <2>1. {to} \in SUBSET Buffers /\ i \in Claimants \ Theirs(t, {to})
    BY <1>1, <1>10 DEF Theirs
  <2> QED
    BY <1>11, <2>1, OwnClaim
<1>15. Keepsake(t, {to})
  BY <1>1, Mine DEF to
<1>16. LensStay /\ ThreadNow("idle", Idle, Len(<<>>))
  <2>1. Len(<<>>) = 0
    OBVIOUS
  <2> QED
    BY <2>1, AtRest DEF LensStay
<1>17. {to} \in SUBSET Buffers /\ (\A y \in Buffers \ {to} : Alike(y)) /\ (\A y \in {to} : BufferNow(y)) /\ (pc[t] = "clear" => call[t].b \in {to})
  BY <1>1, <1>9, <1>13
<1> QED
  BY <1>4, <1>7, <1>12, <1>14, <1>15, <1>16, <1>17, Keeps

\* What cuMemSetAccess and a commit make of a range: ms and rs are the
\* mappings and reservations after it.
Committing(x, a, n, ms, rs) ==
    /\ Whole' /\ Confined(ms, rs, Own(x)) /\ Geo(rs, ms, Claim)
    /\ \A m \in Here(ms, x) : m.access /\ \E o \in mapped : Bare(m) = Bare(o)
    /\ Bares(Here(ms, x)) = Bares(Here(mapped, x))
    /\ FullIn(Here(ms, x), x) /\ Res(a, n, "owned") \in rs

\* What a commit leaves in the new range.
LEMMA Commits ==
  ASSUME IInv, BInv, NEW t \in Threads, NEW x, NEW n, Ranged(t, x, n), FullyMapped(call[t].ptr, n), UNCHANGED phys,
         mapped' = WithAccess(call[t].ptr, n), reserved' = Mark(call[t].ptr, "owned")
  PROVE  Committing(x, call[t].ptr, n, mapped', reserved')
<1>0. RangesOK(reserved) /\ MappingsOK(mapped) /\ phys' = phys
  BY TypeParts DEF IInv
<1>1. PICK a \in Nat : a = call[t].ptr /\ n \in Nat /\ n # 0 /\ Own(x) = Cells(a, n) /\ x.at = a /\ x.n = n /\ x \in Ranges /\ a \in Cells(a, n)
  BY CellsAre DEF Ranged
<1>2. PICK i \in Claimants : i = <<t, "fresh">> /\ Claim[i] = x
  BY DEF Ranged
<1>3. PICK ms : ms = WithAccess(a, n) /\ mapped' = ms
  BY <1>1
<1>4. /\ \A m \in ms : \/ m \in mapped /\ m \notin Inside(a, n)
                       \/ m.access /\ \E o \in Inside(a, n) : Bare(m) = Bare(o)
      /\ \A o \in Inside(a, n) : \E m \in ms : Bare(m) = Bare(o) /\ m.access
  BY <1>0, <1>3, AccessIs
<1>5. \A m \in Here(ms, x) : m.access /\ \E o \in mapped : Bare(m) = Bare(o)
  BY <1>1, <1>4 DEF Here, Inside
<1>6. Bares(Here(ms, x)) = Bares(Here(mapped, x))
  <2>1. /\ \A m \in Here(ms, x) : \E o \in Here(mapped, x) : Bare(m) = Bare(o)
        /\ \A o \in Here(mapped, x) : \E m \in Here(ms, x) : Bare(m) = Bare(o)
    BY <1>0, <1>3, AccessHere
  <2> QED
    BY <2>1 DEF Bares
<1>7. FullIn(Here(ms, x), x)
  <2> SUFFICES ASSUME NEW z \in Cells(a, n) PROVE \E m \in Here(ms, x) : z \in Cells(m.base, m.len) /\ m.access
    BY <1>1 DEF FullIn
  <2>1. PICK o \in Inside(a, n) : z \in Cells(o.base, o.len)
    BY <1>1 DEF FullyMapped, Backing
  <2>2. PICK m \in ms : m.base = o.base /\ m.len = o.len /\ m.access
    BY <1>4, BareIs
  <2> QED
    BY <1>1, <2>1, <2>2 DEF Here, Inside
<1>8. Housed(reserved, ms) /\ \A m \in ms : m.len = phys[m.h].len
  BY <1>3, AccessMoves
<1>9. Whole'
  BY <1>0, <1>3, <1>8 DEF Whole
<1>10. Confined(ms, reserved', Own(x))
  <2>1. Confined(mapped, reserved', Own(x))
    BY <1>0, <1>1, ConfinedMark
  <2> QED
    BY <1>0, <1>1, <1>3, <2>1, ConfinedAccess
<1>11. Geo(reserved', ms, Claim)
  <2>1. PICK cl \in [Claimants -> Ranges] : cl = Claim
    BY ClaimsImp
  <2>2. Geo(reserved, mapped, cl) /\ cl[i] = x
    BY <1>2, <2>1 DEF BInv
  <2>3. Settles(reserved, Mark(cl[i].at, "owned"), cl, cl)
    <3>1. cl[i].n # 0
      BY <1>1, <2>2
    <3> QED
      BY <1>0, <2>2, <3>1, MarkSettles
  <2>4. Settles(reserved, reserved', cl, cl)
    BY <1>1, <2>2, <2>3
  <2>5. Housed(reserved', ms)
    BY <1>0, <1>8, HousedMark
  <2>6. Geo(reserved', ms, cl)
    BY <2>2, <2>4, <2>5, GeoSettles
  <2> QED
    BY <2>1, <2>6
<1>12. Res(a, n, "owned") \in reserved'
  <2>1. \E is : Res(a, n, is) \in reserved
    BY <1>1, RangedRes
  <2>2. PICK is : Res(a, n, is) \in reserved
    BY <2>1
  <2>3. Res(a, n, is).base = a /\ Res(a, n, is).len = n
    BY DEF Res
  <2> QED
    BY <1>0, <1>1, <2>2, <2>3, MarkIs
<1> QED
  BY <1>1, <1>3, <1>5, <1>6, <1>7, <1>9, <1>10, <1>11, <1>12 DEF Committing

\* cuMemSetAccess and commit.
LEMMA AccessPuts == ASSUME IInv, IInv', BInv, NEW t \in Threads, Access(t) PROVE BInv'
<1> DEFINE p == pc[t]  c == call[t]
<1>0. PICK k \in Nat : k = Len(undo[t])
  BY Known
<1>1. p = "access" /\ p \in Transaction
  BY DEF Access, Transaction
<1>2. (c.op = "grow" /\ k = 6) \/ (c.op = "allocate" /\ k = 3)
  BY <1>0, <1>1, Located DEF Table
<1>3. PICK x, n : Ranged(t, x, n)
  <2>1. CASE c.op = "grow" /\ k = 6
    <3>1. p # "probe_free" /\ Len(undo[t]) >= 1
      BY <1>0, <1>1, <2>1
    <3> QED
      BY <2>1, <3>1, MakingRange
  <2>2. CASE c.op = "allocate" /\ k = 3
    <3>1. Len(undo[t]) >= 2
      BY <1>0, <2>2
    <3> QED
      BY <2>2, <3>1, MakingRange
  <2> QED
    BY <1>2, <2>1, <2>2
<1>4. /\ n = Total(t) /\ n \in Nat /\ n # 0 /\ c.ptr \in Nat /\ FreshLen(p, c, k) = n /\ FreshOf(p, c, k) = x
      /\ x = [at |-> c.ptr, n |-> n] /\ x \in Ranges /\ Own(x) = Cells(c.ptr, n) /\ Claim[<<t, "fresh">>] = x
      /\ n = Granules(c.new)
  BY <1>0, <1>3 DEF Ranged, Total
<1>5. CASE Raise(t) /\ UNCHANGED undo
  BY <1>1, <1>5, RaisePuts
<1>6. CASE /\ FullyMapped(c.ptr, n)
           /\ mapped' = WithAccess(c.ptr, n)
           /\ reserved' = Mark(c.ptr, "owned")
           /\ undo' = [undo EXCEPT ![t] = <<>>]
           /\ IF Growing(t)
              THEN Goto(t, "free_old") /\ UNCHANGED <<python, call>>
              ELSE Return(t) /\ NewBuffer(t, Gran * Total(t))
           /\ phys' = phys
  <2>1. Committing(x, c.ptr, n, mapped', reserved')
    BY <1>3, <1>6, Commits
  <2>2. CASE c.op = "allocate"
    <3>1. Return(t) /\ NewBuffer(t, Gran * Total(t)) /\ UNCHANGED phys
      BY <1>6, <2>2 DEF Growing
    <3>2. PICK size \in Nat : size = Gran * Total(t) /\ Granules(size) = n
      BY <1>4, GranulesOfMultiple
    <3>3. NewBuffer(t, size)
      BY <3>1, <3>2
    <3>4. p \notin {"clear", "d_retain", "d_unmap", "d_free"} /\ c.op \in {"grow", "allocate"} /\ undo' = [undo EXCEPT ![t] = <<>>]
      BY <1>1, <1>6, <2>2
    <3>5. /\ Geo(reserved', mapped', Claim) /\ Whole' /\ Confined(mapped', reserved', Own(x))
          /\ FullIn(Here(mapped', x), x) /\ Res(c.ptr, n, "owned") \in reserved'
          /\ \A m \in Here(mapped', x) : \E o \in mapped : Bare(m) = Bare(o)
      BY <2>1 DEF Committing
    <3> QED
      BY <1>3, <3>1, <3>2, <3>3, <3>4, <3>5, HandOver
  <2>3. CASE c.op = "grow"
    <3>1. Goto(t, "free_old") /\ UNCHANGED python /\ call' = call /\ box' = box /\ buffer' = buffer /\ phys' = phys
      BY <1>6, <2>3 DEF Growing, python
    <3>2. Goes(t, "free_old", c, <<>>)
      BY <1>6, <3>1, Same, GoesIs DEF Goto
    <3>3. Works(p) /\ p # "clear" /\ "free_old" \notin {"d_retain", "d_unmap", "d_free"} /\ p \notin {"d_retain", "d_unmap", "d_free"} \cup Committed
          /\ "free_old" \in Committed
      BY <1>1 DEF Works, Deallocation, Committed
    <3>4. FreshLen("free_old", c, 0) = n
      BY <1>4, <2>3, <3>3 DEF FreshLen
    <3>5. FreshOf("free_old", c, 0) = x
      BY <1>4, <3>4 DEF FreshOf, Span
    <3>6. FreshNow("free_old", c, 0)
      <4>1. FreshWas(p, c, k) /\ k = 6
        BY <1>0, <1>2, <2>3, Was
      <4>2. Bares(Here(mapped, x)) = GrowParts(p, c, 6)
        BY <1>4, <2>3, <4>1 DEF FreshWas, FreshOK
      <4>3. GrowParts("free_old", c, 0) = GrowParts(p, c, 6)
        BY <3>3 DEF GrowParts
      <4>4. Bares(Here(mapped', x)) = GrowParts("free_old", c, 0) /\ (\A m \in Here(mapped', x) : m.access) /\ Res(c.ptr, n, "owned") \in reserved'
        BY <2>1, <4>2, <4>3 DEF Committing
      <4> QED
        BY <2>3, <3>3, <3>4, <3>5, <4>4 DEF FreshNow, FreshOK
    <3>7. OldNow("free_old", c, 0)
      <4>1. Confined(mapped', reserved', Own(Claim[<<t, "fresh">>]))
        BY <1>4, <2>1 DEF Committing
      <4>2. k = 6
        BY <1>2, <2>3
      <4>3. Len(undo[t]) >= 2 /\ Len(undo[t]) >= 3 /\ (\A h \in Handles : phys'[h].len = phys[h].len) /\ 0 \in Nat
        BY <1>0, <3>1, <4>2
      <4> QED
        BY <3>1, <3>3, <4>1, <4>3, OldKept
    <3>8. GoneNow("free_old", c) /\ GoneOf("free_old", c) = GoneOf(p, c)
      BY <3>3, GoneNone
    <3>9. ToNow(c) /\ NewOK("free_old", c, phys') /\ LensStay
      <4>1. ToOK(c)
        BY Was
      <4> QED
        BY <3>1, <4>1 DEF ToNow, ToOK, NewOK, LensStay
    <3>10. Len(<<>>) = 0
      OBVIOUS
    <3>11. ThreadNow("free_old", c, Len(<<>>))
      BY <3>6, <3>7, <3>8, <3>9, <3>10 DEF ThreadNow
    <3>12. Claim' = Claim
      <4>1. FreshOf("free_old", c, Len(<<>>)) = FreshOf(pc[t], call[t], Len(undo[t]))
        BY <1>0, <1>4, <3>5, <3>10
      <4>2. \A y \in Buffers : BoxOf(box'[y]) = BoxOf(box[y])
        BY <3>1
      <4> QED
        BY <3>2, <3>8, <4>1, <4>2, ClaimsStay
    <3>13. Geo(reserved', mapped', Claim') /\ Whole' /\ Confined(mapped', reserved', Own(Claim[<<t, "fresh">>]))
      BY <1>4, <2>1, <3>12 DEF Committing
    <3> QED
      BY <3>1, <3>2, <3>3, <3>9, <3>11, <3>13, KeepsOwn
  <2> QED
    BY <1>2, <2>2, <2>3
<1> QED
  BY <1>4, <1>5, <1>6 DEF Access, Opened, Commit

-----------------------------------------------------------------------------
(* The deleter.                                                            *)

\* The call of a thread that has committed: what it keeps, and where.
Keeping(c2, c) == c2.op = c.op /\ c2.ptr = c.ptr /\ c2.to = c.to /\ c2.new = c.new /\ c2.prev = c.prev /\ c2.old = c.old /\ c2.h = c.h

\* A committed range stays with its thread.
LEMMA FreshAfter ==
  ASSUME IInv, BInv, NEW t \in Threads, pc[t] \in Committed, Left(mapped', reserved', FreshOf(pc[t], call[t], Len(undo[t]))),
         NEW p2 \in Committed, NEW c2, Keeping(c2, call[t])
  PROVE  FreshNow(p2, c2, 0) /\ FreshOf(p2, c2, 0) = FreshOf(pc[t], call[t], Len(undo[t]))
<1>1. Len(undo[t]) = 0 /\ call[t].op \in {"grow", "close"} /\ pc[t] \in {"free_old", "clear", "return"} \cup Deallocation
  BY Settled DEF Committed
<1>2. PICK p, c : p = pc[t] /\ c = call[t]
  OBVIOUS
<1>3. FreshWas(p, c, 0) /\ c.ptr \in Nat /\ FreshLen(p, c, 0) \in Nat
  BY <1>1, <1>2, Was, CallNat, LensNat
<1>4. p # "probe_free" /\ p2 # "probe_free" /\ p # "rollback" /\ p \in Committed
  BY <1>2 DEF Committed, Deallocation
<1>5. c2.op = c.op /\ c2.ptr = c.ptr /\ c2.new = c.new /\ c2.prev = c.prev /\ c2.old = c.old /\ c2.h = c.h
  BY <1>2 DEF Keeping
<1>6. FreshLen(p2, c2, 0) = FreshLen(p, c, 0)
  BY <1>1, <1>2, <1>4, <1>5 DEF FreshLen
<1>7. GrowParts(p2, c2, 0) = GrowParts(p, c, 0) /\ c.op # "allocate"
  BY <1>1, <1>2, <1>4, <1>5 DEF GrowParts
<1>8. Left(mapped', reserved', FreshOf(p, c, 0))
  BY <1>1, <1>2
<1>9. FreshNow(p2, c2, 0) /\ FreshOf(p2, c2, 0) = FreshOf(p, c, 0)
  BY <1>3, <1>4, <1>5, <1>6, <1>7, <1>8, FreshMoves
<1> QED
  BY <1>1, <1>2, <1>9

\* What else is known of a thread that goes on with a deallocation, or ends it.
LEMMA Past ==
  ASSUME IInv, BInv, NEW t \in Threads, pc[t] \in Deallocation, UNCHANGED python,
         NEW p2 \in Deallocation \cup {"return"}, NEW c2, Keeping(c2, call[t])
  PROVE  OldNow(p2, c2, 0) /\ NewOK(p2, c2, phys') /\ ToNow(c2)
<1>1. ~Works(p2) /\ p2 \notin {"map", "reserve"}
  BY DEF Works, Deallocation
<1>2. ToOK(call[t]) /\ buffer' = buffer /\ box' = box
  BY Was DEF python
<1>3. ToNow(c2)
  BY <1>2 DEF ToNow, ToOK, Keeping
<1>4. NewOK(p2, c2, phys')
  BY <1>1 DEF NewOK
<1> QED
  BY <1>1, <1>3, <1>4, OldPast

\* A deallocation that is over.
LEMMA Over ==
  ASSUME IInv, BInv, NEW t \in Threads, pc[t] \in Deallocation, Deallocated(t), UNCHANGED undo, UNCHANGED python,
         Left(mapped', reserved', FreshOf(pc[t], call[t], Len(undo[t])))
  PROVE  \E p, c : /\ Goes(t, p, c, undo[t]) /\ ThreadNow(p, c, Len(undo[t])) /\ GoneOf(p, c) = Nowhere
                   /\ FreshOf(p, c, Len(undo[t])) = FreshOf(pc[t], call[t], Len(undo[t]))
<1>1. Len(undo[t]) = 0 /\ call[t].op \in {"grow", "close"} /\ pc[t] \in Committed
  BY Settled DEF Committed
<1>2. undo' = [undo EXCEPT ![t] = undo[t]]
  BY Same
<1>3. CASE Growing(t)
  <2>1. Goes(t, "return", call[t], undo[t])
    BY <1>2, <1>3, Same, GoesIs DEF Deallocated, Goto
  <2>2. Keeping(call[t], call[t]) /\ "return" \in Committed /\ "return" \in Deallocation \cup {"return"} /\ "return" \notin {"d_retain", "d_unmap", "d_free"}
    BY DEF Keeping, Committed
  <2>3. FreshNow("return", call[t], 0) /\ FreshOf("return", call[t], 0) = FreshOf(pc[t], call[t], Len(undo[t]))
    BY <1>1, <2>2, FreshAfter
  <2>4. OldNow("return", call[t], 0) /\ NewOK("return", call[t], phys') /\ ToNow(call[t])
    BY <2>2, Past
  <2>5. GoneNow("return", call[t]) /\ GoneOf("return", call[t]) = Nowhere
    BY <2>2, GoneNone
  <2>6. ThreadNow("return", call[t], 0)
    BY <2>3, <2>4, <2>5 DEF ThreadNow
  <2> QED
    BY <1>1, <2>1, <2>3, <2>5, <2>6
<1>4. CASE ~Growing(t)
  <2>1. Goes(t, "idle", Idle, undo[t])
    BY <1>2, <1>4, GoesIs DEF Deallocated, Return, Goto
  <2>2. FreshOf(pc[t], call[t], Len(undo[t])) = Nowhere
    <3>1. call[t].op = "close"
      BY <1>1, <1>4 DEF Growing
    <3> QED
      BY <3>1 DEF FreshOf, FreshLen, Span
  <2> QED
    BY <1>1, <2>1, <2>2, AtRest
<1> QED
  BY <1>3, <1>4

\* A thread loses the range that it claims.
LEMMA Lost ==
  ASSUME IInv, IInv', BInv, NEW t \in Threads, NEW p, NEW c, NEW s, Goes(t, p, c, s), UNCHANGED python, UNCHANGED <<mapped, phys>>,
         pc[t] # "clear", NEW i \in {<<t, "fresh">>, <<t, "gone">>}, Claim[i].n # 0, reserved' = Mark(Claim[i].at, "lost"),
         Claim'[i].n = 0, \A j \in {<<t, "fresh">>, <<t, "gone">>} \ {i} : Claim'[j] = Claim[j], ThreadNow(p, c, Len(s))
  PROVE  BInv'
<1>1. RangesOK(reserved) /\ mapped' = mapped /\ phys' = phys /\ box' = box
  BY TypeParts DEF IInv, python
<1>2. PICK cl \in [Claimants -> Ranges], cl2 \in [Claimants -> Ranges] : cl = Claim /\ cl2 = Claim'
  BY ClaimsImp, ClaimsNext
<1>3. i \in Claimants
  BY Claims
<1>4. \A j \in Claimants : j \notin {<<t, "fresh">>, <<t, "gone">>} => cl2[j] = cl[j]
  BY <1>1, <1>2, ClaimGoes
<1>5. PICK a : a = cl[i].at /\ a \in Own(cl[i]) /\ cl2[i].n = 0 /\ reserved' = Mark(a, "lost")
  BY <1>2, <1>3, OwnCells
<1>6. Geo(reserved, mapped, cl)
  BY <1>2 DEF BInv
<1>7. Settles(reserved, Mark(a, "lost"), cl, cl2)
  <2>1. \A r \in Mark(a, "lost") : (r \in reserved /\ r.base # a) \/ \E o \in reserved : o.base = a /\ r = Res(a, o.len, "lost")
    BY <1>1, MarkIs
  <2>2. \A r2 \in Mark(a, "lost") : \E r \in reserved : r.base = r2.base /\ r.len = r2.len /\ (r.is # "lost" \/ r2.is = "lost")
    BY <2>1 DEF Res
  <2>3. \A r2 \in Mark(a, "lost") : r2.base = a => r2.is = "lost"
    BY <2>1 DEF Res
  <2>4. \A j \in Claimants \ {i} : cl2[j] = cl[j]
    BY <1>2, <1>4
  <2> QED
    BY <1>5, <2>2, <2>3, <2>4 DEF Settles
<1>8. Housed(Mark(a, "lost"), mapped)
  BY <1>1, <1>6, HousedMark DEF Geo
<1>9. Geo(Mark(a, "lost"), mapped, cl2)
  BY <1>6, <1>7, <1>8, GeoSettles
<1>10. Geo(reserved', mapped', Claim')
  BY <1>1, <1>2, <1>5, <1>9
<1>11. Whole' /\ LensStay
  BY <1>1, WholeStays DEF LensStay
<1>12. Confined(mapped', reserved', Own(Claim[i]))
  BY <1>1, <1>2, <1>5, ConfinedMark
<1> QED
  BY <1>10, <1>11, <1>12, KeepsOwn

\* x is the range of n granules that thread t deallocates.
Going(t, x, n) ==
    /\ n = Granules(call[t].dsize) /\ n \in Nat /\ n # 0 /\ call[t].dptr \in Nat
    /\ GoneOf(pc[t], call[t]) = x /\ x = [at |-> call[t].dptr, n |-> n] /\ x.at = call[t].dptr /\ x.n = n /\ x \in Ranges
    /\ Own(x) = Cells(call[t].dptr, n) /\ call[t].dptr \in Own(x)
    /\ Claim[<<t, "gone">>] = x /\ <<t, "gone">> \in Claimants

\* The range that a deleter gives back is not empty.
LEMMA GoingRange ==
  ASSUME IInv, BInv, NEW t \in Threads, pc[t] \in {"d_retain", "d_unmap", "d_free"}
  PROVE  \E x, n : Going(t, x, n)
<1> DEFINE n == Granules(call[t].dsize)  g == GoneOf(pc[t], call[t])
<1>1. call[t].dptr \in Nat /\ call[t].dsize \in Nat /\ n \in Nat
  BY CallNat
<1>2. call[t].dsize > 0
  BY Was DEF GoneWas, GoneOK
<1>3. n # 0
  BY <1>1, <1>2, GranulesNat
<1>4. g = Span(call[t].dptr, n)
  BY DEF GoneOf
<1>5. g = [at |-> call[t].dptr, n |-> n]
  BY <1>3, <1>4 DEF Span
<1>6. g \in Ranges /\ Own(g) = Cells(call[t].dptr, n) /\ g.at = call[t].dptr /\ g.n = n
  BY <1>1, <1>5 DEF Ranges, Own
<1>7. call[t].dptr \in Own(g)
  BY <1>1, <1>3, <1>6, CellsAre
<1>8. Claim[<<t, "gone">>] = g /\ <<t, "gone">> \in Claimants
  BY Claims
<1>9. Going(t, g, n)
  BY <1>1, <1>3, <1>5, <1>6, <1>7, <1>8 DEF Going
<1> QED
  BY <1>9

\* A step within that range leaves alone what the thread has made.
LEMMA FreshElsewhere ==
  ASSUME IInv, BInv, NEW t \in Threads, Confined(mapped', reserved', Own(Claim[<<t, "gone">>]))
  PROVE  Left(mapped', reserved', FreshOf(pc[t], call[t], Len(undo[t])))
<1>1. PICK i \in Claimants, j \in Claimants : i = <<t, "gone">> /\ j = <<t, "fresh">> /\ i # j /\ Claim[j] = FreshOf(pc[t], call[t], Len(undo[t]))
  BY Claims
<1> QED
  BY <1>1, Elsewhere

\* A deallocation that the driver refuses.
LEMMA RefusedPuts ==
  ASSUME IInv, IInv', BInv, NEW t \in Threads, pc[t] \in {"d_retain", "d_unmap", "d_free"}, Refused(t),
         UNCHANGED <<mapped, phys, undo>>, UNCHANGED python
  PROVE  BInv'
<1>1. PICK x, n : Going(t, x, n)
  BY GoingRange
<1>2. /\ x.at = call[t].dptr /\ x.n = n /\ n # 0 /\ call[t].dptr \in Own(x) /\ Claim[<<t, "gone">>] = x
  BY <1>1 DEF Going
<1>3. reserved' = Mark(Claim[<<t, "gone">>].at, "lost") /\ Deallocated(t) /\ mapped' = mapped /\ undo' = undo /\ box' = box
  BY <1>2 DEF Refused, python
<1>4. RangesOK(reserved)
  BY TypeParts DEF IInv
<1>5. Confined(mapped', reserved', Own(Claim[<<t, "gone">>]))
  BY <1>2, <1>3, <1>4, ConfinedMark
<1>6. Left(mapped', reserved', FreshOf(pc[t], call[t], Len(undo[t])))
  BY <1>5, FreshElsewhere
<1>7. pc[t] \in Deallocation /\ pc[t] # "clear"
  BY DEF Deallocation
<1>8. PICK p, c : /\ Goes(t, p, c, undo[t]) /\ ThreadNow(p, c, Len(undo[t])) /\ GoneOf(p, c) = Nowhere
                  /\ FreshOf(p, c, Len(undo[t])) = FreshOf(pc[t], call[t], Len(undo[t]))
  BY <1>3, <1>6, <1>7, Over
<1>9. Claim'[<<t, "gone">>] = Nowhere /\ Claim'[<<t, "fresh">>] = Claim[<<t, "fresh">>]
  BY <1>3, <1>8, ClaimGoes, Claims
<1>10. Claim'[<<t, "gone">>].n = 0 /\ Claim[<<t, "gone">>].n # 0
  BY <1>2, <1>9 DEF Nowhere
<1>11. PICK i \in {<<t, "fresh">>, <<t, "gone">>} : i = <<t, "gone">>
  OBVIOUS
<1>12. \A j \in {<<t, "fresh">>, <<t, "gone">>} \ {i} : Claim'[j] = Claim[j]
  BY <1>9, <1>11
<1>13. Claim'[i].n = 0 /\ Claim[i].n # 0 /\ reserved' = Mark(Claim[i].at, "lost")
  BY <1>3, <1>10, <1>11
<1> QED
  BY <1>7, <1>8, <1>12, <1>13, Lost

\* The deleter takes a reference to the memory behind the range.
LEMMA DRetainPuts == ASSUME IInv, IInv', BInv, NEW t \in Threads, DRetain(t) PROVE BInv'
<1> DEFINE c == call[t]
<1>1. pc[t] = "d_retain" /\ UNCHANGED <<mapped, undo>> /\ UNCHANGED python
  BY DEF DRetain
<1>2. CASE Refused(t) /\ UNCHANGED phys
  BY <1>1, <1>2, RefusedPuts
<1>3. ASSUME NEW m \in Backing(c.dptr), phys' = Ref(m.h), call' = [call EXCEPT ![t].dh = m.h], Goto(t, "d_unmap"), UNCHANGED reserved
      PROVE  BInv'
  <2> DEFINE d == [c EXCEPT !.dh = m.h]
  <2>1. c \in Calls /\ Len(undo[t]) = 0 /\ PhysOK(phys) /\ m.h \in Handles
    BY <1>1, <1>3, Settled, Backed1 DEF Deallocation
  <2>2. d.dptr = c.dptr /\ d.dsize = c.dsize /\ Keeping(d, c)
    BY <2>1 DEF Calls, Keeping
  <2>3. pc' = [pc EXCEPT ![t] = "d_unmap"] /\ call' = [call EXCEPT ![t] = d] /\ undo' = [undo EXCEPT ![t] = undo[t]]
    BY <1>1, <1>3, Same DEF Goto
  <2> HIDE DEF d
  <2>4. Goes(t, "d_unmap", d, undo[t])
    BY <2>3, GoesIs
  <2>5. LensStay
    BY <1>3, <2>1, RefOK DEF LensStay
  <2>6. pc[t] \in Deallocation /\ pc[t] \in Committed /\ "d_unmap" \in Deallocation /\ "d_unmap" \in Committed /\ pc[t] # "clear"
    BY <1>1 DEF Deallocation, Committed
  <2>7. \A r : Left(mapped', reserved', r)
    BY <1>1, <1>3, NothingMoves
  <2>8. FreshNow("d_unmap", d, 0) /\ FreshOf("d_unmap", d, 0) = FreshOf(pc[t], c, Len(undo[t]))
    BY <2>2, <2>6, <2>7, FreshAfter
  <2>9. OldNow("d_unmap", d, 0) /\ NewOK("d_unmap", d, phys') /\ ToNow(d)
    BY <1>1, <2>2, <2>6, Past
  <2>10. GoneOf("d_unmap", d) = GoneOf(pc[t], c)
    BY <1>1, <2>2 DEF GoneOf
  <2>11. GoneNow("d_unmap", d)
    <3>1. GoneOK("d_retain", c, Here(mapped, GoneOf("d_retain", c)), reserved)
      BY <1>1, Was DEF GoneWas
    <3>2. mapped' = mapped /\ reserved' = reserved /\ GoneOf("d_unmap", d) = GoneOf("d_retain", c)
      BY <1>1, <1>3, <2>10
    <3>3. GoneOK("d_unmap", d, Here(mapped, GoneOf("d_retain", c)), reserved)
      BY <2>2, <2>10, <3>1, <3>2 DEF GoneOK
    <3> QED
      BY <3>2, <3>3 DEF GoneNow
  <2>12. ThreadNow("d_unmap", d, Len(undo[t])) /\ FreshOf("d_unmap", d, Len(undo[t])) = FreshOf(pc[t], c, Len(undo[t]))
    BY <2>1, <2>8, <2>9, <2>11 DEF ThreadNow
  <2> QED
    BY <1>1, <1>3, <2>4, <2>5, <2>6, <2>10, <2>12, StaysPut
<1> QED
  BY <1>2, <1>3 DEF DRetain

\* It unmaps the range.
LEMMA DUnmapPuts == ASSUME IInv, IInv', BInv, NEW t \in Threads, DUnmap(t) PROVE BInv'
<1> DEFINE c == call[t]
<1>1. pc[t] = "d_unmap" /\ UNCHANGED <<phys, undo>> /\ UNCHANGED python /\ box' = box /\ phys' = phys /\ undo' = undo
  BY DEF DUnmap, python
<1>2. PICK x, n : Going(t, x, n)
  BY <1>1, GoingRange
<1>3. CASE Refused(t) /\ UNCHANGED mapped
  BY <1>1, <1>3, RefusedPuts
<1>4. CASE mapped' = Unmapped(c.dptr, n) /\ Goto(t, "d_free") /\ UNCHANGED <<reserved, call>>
  <2>1. /\ x.at = c.dptr /\ x.n = n /\ Own(x) = Cells(c.dptr, n) /\ Claim[<<t, "gone">>] = x /\ x = GoneOf(pc[t], c)
    BY <1>2 DEF Going
  <2>2. MappingsOK(mapped) /\ Len(undo[t]) = 0
    BY <1>1, Settled DEF Deallocation
  <2>3. Goes(t, "d_free", c, undo[t])
    BY <1>1, <1>4, Same, GoesIs DEF Goto
  <2>4. Confined(mapped', reserved', Own(Claim[<<t, "gone">>]))
    <3>1. Confined(mapped, reserved, Own(x))
      BY ConfinedSame
    <3> QED
      BY <1>4, <2>1, <2>2, <3>1, ConfinedUnmapped
  <2>5. pc[t] \in Deallocation /\ pc[t] \in Committed /\ "d_free" \in Deallocation /\ "d_free" \in Committed /\ pc[t] # "clear" /\ Keeping(c, c)
    BY <1>1 DEF Deallocation, Committed, Keeping
  <2>6. FreshNow("d_free", c, 0) /\ FreshOf("d_free", c, 0) = FreshOf(pc[t], c, Len(undo[t]))
    BY <2>4, <2>5, FreshElsewhere, FreshAfter
  <2>7. OldNow("d_free", c, 0) /\ NewOK("d_free", c, phys') /\ ToNow(c)
    BY <1>1, <2>5, Past
  <2>8. GoneOf("d_free", c) = x
    BY <1>1, <2>1 DEF GoneOf
  <2>9. GoneNow("d_free", c)
    <3>1. c.dsize > 0
      BY <1>1, Was DEF GoneWas, GoneOK
    <3>2. Here(mapped', x) = {}
      BY <1>4, <2>1 DEF Here, Unmapped, Inside
    <3> QED
      BY <2>8, <3>1, <3>2 DEF GoneNow, GoneOK
  <2>10. ThreadNow("d_free", c, Len(undo[t])) /\ FreshOf("d_free", c, Len(undo[t])) = FreshOf(pc[t], c, Len(undo[t]))
    BY <2>2, <2>6, <2>7, <2>9 DEF ThreadNow
  <2>11. Claim' = Claim
    <3>1. \A y \in Buffers : BoxOf(box'[y]) = BoxOf(box[y])
      BY <1>1
    <3> QED
      BY <2>1, <2>3, <2>8, <2>10, <3>1, ClaimsStay
  <2>12. mapped' \in SUBSET mapped /\ reserved' = reserved
    BY <1>4 DEF Unmapped
  <2>13. Geo(reserved', mapped', Claim')
    BY <2>11, <2>12, HousedLess DEF BInv, Geo
  <2>14. Whole' /\ LensStay
    BY <1>1, <2>12 DEF BInv, Whole, LensStay
  <2> QED
    BY <1>1, <2>3, <2>4, <2>5, <2>10, <2>13, <2>14, KeepsOwn
<1> QED
  BY <1>2, <1>3, <1>4 DEF DUnmap, Going

\* The deleter frees the range.
LEMMA DFreePuts == ASSUME IInv, IInv', BInv, NEW t \in Threads, DFree(t) PROVE BInv'
<1> DEFINE c == call[t]
<1>1. /\ pc[t] = "d_free" /\ UNCHANGED <<mapped, phys, undo>> /\ UNCHANGED python /\ box' = box /\ phys' = phys /\ undo' = undo
      /\ mapped' = mapped
  BY DEF DFree, python
<1>2. PICK x, n : Going(t, x, n)
  BY <1>1, GoingRange
<1>3. CASE Refused(t)
  BY <1>1, <1>3, RefusedPuts
<1>4. CASE reserved' = Freed(c.dptr, n) /\ Goto(t, "d_release") /\ UNCHANGED call
  <2>1. /\ x.at = c.dptr /\ x.n = n /\ Claim[<<t, "gone">>] = x /\ x = GoneOf(pc[t], c) /\ c.dptr \in Own(x)
    BY <1>2 DEF Going
  <2>2. RangesOK(reserved) /\ MappingsOK(mapped) /\ Len(undo[t]) = 0
    BY <1>1, Settled DEF Deallocation
  <2>3. Goes(t, "d_release", c, undo[t])
    BY <1>1, <1>4, Same, GoesIs DEF Goto
  <2>4. Confined(mapped', reserved', Own(Claim[<<t, "gone">>]))
    BY <1>1, <1>4, <2>1, <2>2, ConfinedFreed
  <2>5. pc[t] \in Deallocation /\ pc[t] \in Committed /\ "d_release" \in Deallocation /\ "d_release" \in Committed /\ pc[t] # "clear" /\ Keeping(c, c)
    BY <1>1 DEF Deallocation, Committed, Keeping
  <2>6. FreshNow("d_release", c, 0) /\ FreshOf("d_release", c, 0) = FreshOf(pc[t], c, Len(undo[t]))
    BY <2>4, <2>5, FreshElsewhere, FreshAfter
  <2>7. OldNow("d_release", c, 0) /\ NewOK("d_release", c, phys') /\ ToNow(c)
    BY <1>1, <2>5, Past
  <2>8. GoneNow("d_release", c) /\ GoneOf("d_release", c) = Nowhere
    BY GoneNone
  <2>9. ThreadNow("d_release", c, Len(undo[t])) /\ FreshOf("d_release", c, Len(undo[t])) = FreshOf(pc[t], c, Len(undo[t]))
    BY <2>2, <2>6, <2>7, <2>8 DEF ThreadNow
  <2>10. Here(mapped, x) = {}
    BY <1>1, <2>1, Was DEF GoneWas, GoneOK
  <2>11. PICK cl \in [Claimants -> Ranges], cl2 \in [Claimants -> Ranges] : cl = Claim /\ cl2 = Claim'
    BY ClaimsImp, ClaimsNext
  <2>12. PICK i \in Claimants : i = <<t, "gone">> /\ cl[i] = x
    BY <2>1, <2>11, Claims
  <2>13. cl2[i].n = 0 /\ \A j \in Claimants \ {i} : cl2[j] = cl[j]
    <3>0. UNCHANGED box
      BY <1>1
    <3>4. /\ Claim'[<<t, "fresh">>] = FreshOf("d_release", c, Len(undo[t])) /\ Claim'[<<t, "gone">>] = GoneOf("d_release", c)
          /\ \A j \in Claimants : j \notin {<<t, "fresh">>, <<t, "gone">>} => Claim'[j] = Claim[j]
      BY <2>3, <3>0, ClaimGoes
    <3>5. Claim[<<t, "fresh">>] = FreshOf(pc[t], c, Len(undo[t]))
      BY Claims
    <3>1. cl2[i] = Nowhere
      BY <2>8, <2>11, <2>12, <3>4
    <3>2. cl2[<<t, "fresh">>] = cl[<<t, "fresh">>]
      BY <2>9, <2>11, <3>4, <3>5
    <3>3. \A j \in Claimants : j \notin {<<t, "fresh">>, <<t, "gone">>} => cl2[j] = cl[j]
      BY <2>11, <3>4
    <3> QED
      BY <2>12, <3>1, <3>2, <3>3 DEF Nowhere
  <2>14. Geo(reserved', mapped', Claim')
    <3>1. Geo(Freed(cl[i].at, cl[i].n), mapped, cl2)
      BY <2>2, <2>10, <2>11, <2>12, <2>13, GeoFreed DEF BInv
    <3> QED
      BY <1>1, <1>4, <2>1, <2>11, <2>12, <3>1
  <2>15. Whole' /\ LensStay
    BY <1>1, WholeStays DEF LensStay
  <2> QED
    BY <1>1, <2>3, <2>4, <2>5, <2>9, <2>14, <2>15, KeepsOwn
<1> QED
  BY <1>2, <1>3, <1>4 DEF DFree, Going

\* And lets go of the memory.
LEMMA DReleasePuts == ASSUME IInv, IInv', BInv, NEW t \in Threads, DRelease(t) PROVE BInv'
<1>1. /\ pc[t] = "d_release" /\ Deallocated(t) /\ UNCHANGED <<reserved, mapped>> /\ UNCHANGED python /\ undo' = undo
      /\ phys' = Unref(call[t].dh) /\ pc[t] \in Deallocation /\ pc[t] \notin {"clear", "d_retain", "d_unmap", "d_free"}
      /\ pc[t] \in Freeing
  BY DEF DRelease, Deallocation, Freeing
<1>2. Left(mapped', reserved', FreshOf(pc[t], call[t], Len(undo[t])))
  BY <1>1, NothingMoves
<1>3. PICK p, c : /\ Goes(t, p, c, undo[t]) /\ ThreadNow(p, c, Len(undo[t])) /\ GoneOf(p, c) = Nowhere
                  /\ FreshOf(p, c, Len(undo[t])) = FreshOf(pc[t], call[t], Len(undo[t]))
  BY <1>1, <1>2, Over
<1>4. LensStay
  <2>1. call[t].dh \in Handles /\ PhysOK(phys)
    BY <1>1, Hand, Known
  <2> QED
    BY <1>1, <2>1, RefOK DEF LensStay
<1>5. GoneOf(pc[t], call[t]) = Nowhere
  BY <1>1, GoneNone
<1> QED
  BY <1>1, <1>3, <1>4, <1>5, StaysPut

-----------------------------------------------------------------------------
(* A growth that has committed.                                            *)

\* It frees the old range, or finds that it cannot.
LEMMA FreeOldPuts == ASSUME IInv, IInv', BInv, NEW t \in Threads, FreeOld(t) PROVE BInv'
<1> DEFINE c == call[t]  b == call[t].b
<1>1. /\ pc[t] = "free_old" /\ UNCHANGED <<mapped, phys, undo>> /\ UNCHANGED python /\ mapped' = mapped /\ phys' = phys
      /\ undo' = undo /\ box' = box /\ buffer' = buffer /\ content' = content
      /\ Works(pc[t]) /\ pc[t] \in Committed /\ pc[t] \notin {"clear", "d_retain", "d_unmap", "d_free"}
  BY DEF FreeOld, python, Works, Deallocation, Committed
<1>2. c.op = "grow" /\ Len(undo[t]) = 0 /\ RangesOK(reserved) /\ MappingsOK(mapped)
  BY <1>1, Settled
<1>3. PICK x, n : Ranged(t, x, n)
  BY <1>1, <1>2, MakingRange
<1>4. GoneOf(pc[t], c) = Nowhere
  BY <1>1, GoneNone
<1>5. LensStay
  BY <1>1 DEF LensStay
<1>6. CASE Freeable(OldPtr(t), c.prev) /\ reserved' = Freed(OldPtr(t), c.prev) /\ Goto(t, "clear") /\ UNCHANGED call
  <2>1. Goes(t, "clear", c, undo[t])
    BY <1>1, <1>6, Same, GoesIs DEF Goto
  <2>2. b \in Buffers /\ box[b].holders # {}
    BY <1>1, <1>2, Grown
  <2>3. OldPtr(t) = box[b].ptr /\ OldPtr(t) \in Own(BoxOf(box[b]))
    BY <2>2, HeldBox DEF OldPtr
  <2>4. Confined(mapped', reserved', Own(BoxOf(box[b])))
    BY <1>1, <1>2, <1>6, <2>3, ConfinedFreed
  <2>5. PICK i \in Claimants, j \in Claimants : i = <<b, "box">> /\ j = <<t, "fresh">> /\ i # j /\ Claim[i] = BoxOf(box[b])
                                                 /\ Claim[j] = FreshOf(pc[t], c, Len(undo[t]))
    BY <2>2, Claims
  <2>6. Left(mapped', reserved', FreshOf(pc[t], c, Len(undo[t])))
    <3>1. Left(mapped', reserved', Claim[j])
      BY <2>4, <2>5, Elsewhere
    <3> QED
      BY <2>5, <3>1
  <2>7. FreshNow("clear", c, 0) /\ FreshOf("clear", c, 0) = FreshOf(pc[t], c, Len(undo[t]))
    BY <1>1, <2>6, FreshAfter DEF Keeping, Committed
  <2>8. OldNow("clear", c, 0)
    <3>1. OldOK("free_old", c, 0, box[b].ptr, buffer[b].size, content[b], Here(mapped, BoxOf(box[b])), phys)
      BY <1>1, <1>2, Was DEF OldWas
    <3>2. ~(0 >= 3) /\ Works("free_old")
      BY DEF Works, Deallocation
    <3>3. OldOK("clear", c, 0, box[b].ptr, buffer[b].size, content[b], Here(mapped, BoxOf(box[b])), phys)
      BY <3>1, <3>2 DEF OldOK
    <3> QED
      BY <1>1, <3>3 DEF OldNow
  <2>9. GoneNow("clear", c) /\ GoneOf("clear", c) = Nowhere
    BY GoneNone
  <2>10. NewOK("clear", c, phys') /\ ToNow(c)
    <3>1. ToOK(c)
      BY Was
    <3> QED
      BY <1>1, <3>1 DEF NewOK, ToNow, ToOK
  <2>11. ThreadNow("clear", c, Len(undo[t])) /\ FreshOf("clear", c, Len(undo[t])) = FreshOf(pc[t], c, Len(undo[t]))
    BY <1>2, <2>7, <2>8, <2>9, <2>10 DEF ThreadNow
  <2>12. Claim' = Claim
    <3>1. \A y \in Buffers : BoxOf(box'[y]) = BoxOf(box[y])
      BY <1>1
    <3> QED
      BY <1>4, <2>1, <2>9, <2>11, <3>1, ClaimsStay
  <2>13. Geo(reserved', mapped', Claim')
    <3>1. PICK cl \in [Claimants -> Ranges] : cl = Claim
      BY ClaimsImp
    <3>2. Geo(reserved, mapped, cl)
      BY <3>1 DEF BInv
    <3>3. Settles(reserved, reserved', cl, cl)
      BY <1>6 DEF Settles, Freed
    <3>4. Housed(reserved', mapped)
      <4> SUFFICES ASSUME NEW m \in mapped PROVE \E r \in reserved' : Cells(m.base, m.len) \subseteq Cells(r.base, r.len)
        BY DEF Housed
      <4>1. PICK r \in reserved : Cells(m.base, m.len) \subseteq Cells(r.base, r.len)
        BY <3>2 DEF Geo, Housed
      <4>2. m.base \in Cells(m.base, m.len)
        BY <1>2, MappingHas
      <4>3. ~(r.base = OldPtr(t) /\ r.len = c.prev)
        BY <1>6, <4>1, <4>2 DEF Freeable, Backing
      <4> QED
        BY <1>6, <4>1, <4>3 DEF Freed
    <3>5. Geo(reserved', mapped, cl)
      BY <3>2, <3>3, <3>4, GeoSettles
    <3> QED
      BY <1>1, <2>12, <3>1, <3>5
  <2>14. Whole'
    BY <1>1, <1>5, WholeStays
  <2>15. BufferNow(b)
    <3>1. reserved' \subseteq reserved
      BY <1>6 DEF Freed
    <3>2. BoxOK(box[b], buffer[b], content[b], Here(mapped, BoxOf(box[b])), reserved)
      BY <2>2 DEF BInv, BufferOK
    <3>3. BoxOK(box[b], buffer[b], content[b], Here(mapped, BoxOf(box[b])), reserved')
      BY <3>1, <3>2 DEF BoxOK
    <3>4. b \in Cleared'
      BY <2>1, <2>2 DEF Cleared, Goes
    <3> QED
      BY <1>1, <3>3, <3>4 DEF BufferNow
  <2> QED
    BY <1>1, <1>5, <2>1, <2>2, <2>4, <2>11, <2>13, <2>14, <2>15, KeepsBox
<1>7. CASE reserved' = Mark(c.ptr, "lost") /\ Return(t)
  <2>1. Goes(t, "idle", Idle, undo[t])
    BY <1>1, <1>7, Same, GoesIs DEF Return, Goto
  <2>2. ThreadNow("idle", Idle, Len(undo[t])) /\ FreshOf("idle", Idle, Len(undo[t])) = Nowhere /\ GoneOf("idle", Idle) = Nowhere
    BY <1>2, AtRest
  <2>3. Claim'[<<t, "fresh">>] = Nowhere /\ Claim'[<<t, "gone">>] = Claim[<<t, "gone">>]
    BY <1>1, <1>4, <2>1, <2>2, ClaimGoes, Claims
  <2>4. Claim[<<t, "fresh">>].at = c.ptr /\ Claim[<<t, "fresh">>].n # 0 /\ Claim'[<<t, "fresh">>].n = 0
    BY <1>3, <2>3 DEF Ranged, Nowhere
  <2>5. PICK i \in {<<t, "fresh">>, <<t, "gone">>} : i = <<t, "fresh">>
    OBVIOUS
  <2>6. /\ \A j \in {<<t, "fresh">>, <<t, "gone">>} \ {i} : Claim'[j] = Claim[j]
        /\ Claim'[i].n = 0 /\ Claim[i].n # 0 /\ reserved' = Mark(Claim[i].at, "lost")
    BY <1>7, <2>3, <2>4, <2>5
  <2> QED
    BY <1>1, <2>1, <2>2, <2>6, Lost
<1> QED
  BY <1>6, <1>7 DEF FreeOld

\* A growth returns the new Buffer.
LEMMA MovedPuts == ASSUME IInv, IInv', BInv, NEW t \in Threads, Moved(t) PROVE BInv'
<1> DEFINE c == call[t]
<1>1. /\ pc[t] = "return" /\ UNCHANGED <<reserved, mapped, phys>> /\ NewBuffer(t, c.new) /\ Return(t)
      /\ mapped' = mapped /\ reserved' = reserved /\ phys' = phys /\ undo' = undo
  BY DEF Moved, driver
<1>2. pc[t] \in Committed /\ pc[t] \notin {"clear", "d_retain", "d_unmap", "d_free"}
  BY <1>1 DEF Committed
<1>3. c.op = "grow" /\ undo[t] = <<>> /\ Len(undo[t]) = 0 /\ RangesOK(reserved) /\ MappingsOK(mapped) /\ c.new \in Nat
  BY <1>1, Settled, CallNat
<1>4. PICK x, n : Ranged(t, x, n)
  BY <1>2, <1>3, MakingRange
<1>5. PICK a \in Nat, v \in Nat : /\ a = c.ptr /\ v = c.prev /\ v <= n /\ n \in Nat /\ n # 0 /\ n = Granules(c.new)
                                  /\ Own(x) = Cells(a, n) /\ FreshOf(pc[t], c, Len(undo[t])) = x
  BY <1>4 DEF Ranged
<1>6. Res(c.ptr, n, "owned") \in reserved'
  BY <1>1, <1>2, <1>4, RangedRes
<1>7. Bares(Here(mapped, x)) = {Part(a, v, c.old), Part(a + v, n - v, c.h)} /\ \A m \in Here(mapped, x) : m.access
  <2>1. FreshOK(pc[t], c, 0, Here(mapped, x), reserved)
    BY <1>3, <1>5, Was DEF FreshWas
  <2>2. GrowParts(pc[t], c, 0) = {Part(a, v, c.old), Part(a + v, n - v, c.h)}
    BY <1>2, <1>5 DEF GrowParts
  <2> QED
    BY <1>2, <1>3, <2>1, <2>2 DEF FreshOK
<1>8. FullIn(Here(mapped, x), x)
  <2> SUFFICES ASSUME NEW z \in Cells(a, n) PROVE \E m \in Here(mapped, x) : z \in Cells(m.base, m.len) /\ m.access
    BY <1>5 DEF FullIn
  <2>1. z \in Nat /\ a <= z /\ z < a + n /\ n - v \in Nat
    <3>1. z \in Nat /\ a <= z /\ z < a + n
      BY <1>5, CellsAre
    <3> QED
      BY <1>5, <3>1
  <2>2. z \in Cells(a, v) \/ z \in Cells(a + v, n - v)
    <3>1. CASE z < a + v
      BY <2>1, <3>1, CellsAre
    <3>2. CASE z >= a + v
      <4>1. PICK w \in Nat, l \in Nat : w = a + v /\ l = n - v
        BY <2>1
      <4>2. w <= z /\ z < w + l
        BY <1>5, <2>1, <3>2, <4>1
      <4>3. z \in Cells(w, l)
        BY <2>1, <4>2, CellsAre
      <4> QED
        BY <4>1, <4>3
    <3> QED
      BY <2>1, <3>1, <3>2
  <2>3. ASSUME NEW w, NEW l, NEW h, Part(w, l, h) \in Bares(Here(mapped, x))
        PROVE  \E m \in Here(mapped, x) : m.base = w /\ m.len = l
    <3>1. PICK m \in Here(mapped, x) : Part(w, l, h) = Bare(m)
      BY <2>3 DEF Bares
    <3>2. Part(w, l, h).base = w /\ Part(w, l, h).len = l /\ Bare(m).base = m.base /\ Bare(m).len = m.len
      BY DEF Part, Bare
    <3> QED
      BY <3>1, <3>2
  <2> QED
    BY <1>7, <2>2, <2>3
<1>9. Geo(reserved', mapped', Claim) /\ Confined(mapped', reserved', Own(x)) /\ LensStay
  BY <1>1, ConfinedSame DEF BInv, LensStay
<1>10. Whole'
  BY <1>1, <1>9, WholeStays
<1>11. \A m \in Here(mapped', x) : \E o \in mapped : Bare(m) = Bare(o)
  BY <1>1 DEF Here
<1>12. undo' = [undo EXCEPT ![t] = <<>>]
  BY <1>1, <1>3, Same
<1>13. PICK size \in Nat : size = c.new
  BY <1>3
<1>14. NewBuffer(t, size) /\ Granules(size) = n /\ c.op \in {"grow", "allocate"}
  BY <1>1, <1>3, <1>5, <1>13
<1>15. FullIn(Here(mapped', x), x)
  BY <1>1, <1>8
<1> QED
  BY <1>1, <1>2, <1>4, <1>6, <1>9, <1>10, <1>11, <1>12, <1>14, <1>15, HandOver

-----------------------------------------------------------------------------
(* Letting go of a box.                                                    *)

\* Everything of the buffers but b is as it was; b's Buffer is closed.
Closes(b) ==
    /\ content' \in Contents /\ ~buffer'[b].open
    /\ \A y \in Buffers \ {b} : Alike(y)

\* The last holder's thread takes over the range, to deallocate it.
LEMMA LastHolder ==
  ASSUME IInv, IInv', BInv, NEW t \in Threads, NEW b \in Buffers, box[b].holders # {}, box'[b] = NoBox, Closes(b), Keepsake(t, {b}),
         UNCHANGED <<reserved, mapped, phys>>, pc[t] \notin {"d_retain", "d_unmap", "d_free"}, pc[t] = "clear" => call[t].b = b,
         NEW c, NEW s, Goes(t, "d_retain", c, s), Len(s) = 0, c.dptr = box[b].ptr, c.dsize = box[b].size,
         FreshNow("d_retain", c, 0), FreshOf("d_retain", c, 0) = FreshOf(pc[t], call[t], Len(undo[t])), ToNow(c)
  PROVE  BInv'
<1>1. mapped' = mapped /\ reserved' = reserved /\ phys' = phys /\ RangesOK(reserved) /\ MappingsOK(mapped)
  BY TypeParts DEF IInv
<1>2. /\ box[b].size > 0 /\ BoxOf(box[b]) = [at |-> box[b].ptr, n |-> Granules(box[b].size)] /\ Granules(box[b].size) # 0
      /\ BoxOf(box[b]) \in Ranges
  BY HeldBox
<1>3. GoneOf("d_retain", c) = BoxOf(box[b])
  BY DEF GoneOf, BoxOf
<1>4. NoBox.ptr = 0 /\ NoBox.size = 0 /\ NoBox.holders = {} /\ BoxOf(NoBox) = Nowhere
  BY NoGranules DEF NoBox, BoxOf, Span
<1>5. /\ Claim'[<<t, "fresh">>] = FreshOf("d_retain", c, Len(s)) /\ Claim'[<<t, "gone">>] = GoneOf("d_retain", c)
      /\ \A y \in Buffers : Claim'[<<y, "box">>] = BoxOf(box'[y])
      /\ \A i \in Claimants : i \notin {<<t, "fresh">>, <<t, "gone">>} \cup ({b} \X {"box"}) => Claim'[i] = Claim[i]
  <2>1. \A y \in Buffers \ {b} : BoxOf(box'[y]) = BoxOf(box[y])
    BY DEF Closes, Alike, BoxOf
  <2>2. {b} \in SUBSET Buffers
    OBVIOUS
  <2> QED
    BY <2>1, <2>2, ClaimMoves
<1>6. PICK i \in Claimants, j \in Claimants, k \in Claimants :
         /\ i = <<b, "box">> /\ j = <<t, "gone">> /\ k = <<t, "fresh">> /\ i # j /\ i # k /\ j # k
         /\ Claim[i] = BoxOf(box[b]) /\ Claim[j] = GoneOf(pc[t], call[t]) /\ Claim[k] = FreshOf(pc[t], call[t], Len(undo[t]))
  BY Claims
<1>7. PICK cl \in [Claimants -> Ranges], cl2 \in [Claimants -> Ranges] : cl = Claim /\ cl2 = Claim'
  BY ClaimsImp, ClaimsNext
<1>8. cl[j].n = 0
  <2>1. GoneOf(pc[t], call[t]) = Nowhere
    BY GoneNone
  <2> QED
    BY <1>6, <1>7, <2>1 DEF Nowhere
<1>9. cl2[j] = cl[i] /\ cl2[i].n = 0
  <2>1. Claim'[j] = BoxOf(box[b]) /\ Claim'[i] = Nowhere
    BY <1>3, <1>4, <1>5, <1>6
  <2> QED
    BY <1>6, <1>7, <2>1 DEF Nowhere
<1>10. \A m \in Claimants \ {i, j} : cl2[m] = cl[m]
  <2>1. Claim'[k] = Claim[k]
    BY <1>5, <1>6
  <2>2. \A m \in Claimants : m \notin {i, j, k} => Claim'[m] = Claim[m]
    BY <1>5, <1>6
  <2> QED
    BY <1>7, <2>1, <2>2
<1>11. Geo(reserved', mapped', Claim')
  <2>1. \A r \in reserved : r.len # 0
    BY <1>1, RangeHas
  <2>2. Geo(reserved, mapped, cl)
    BY <1>7 DEF BInv
  <2>3. Geo(reserved, mapped, cl2)
    BY <1>6, <1>8, <1>9, <1>10, <2>1, <2>2, GeoTransfer
  <2> QED
    BY <1>1, <1>7, <2>3
<1>12. LensStay /\ OthersLeft(t, {b})
  BY <1>1, NothingMoves DEF LensStay
<1>13. Whole'
  BY <1>1, <1>12, WholeStays
<1>14. GoneNow("d_retain", c)
  <2>1. BoxOK(box[b], buffer[b], content[b], Here(mapped, BoxOf(box[b])), reserved)
    BY DEF BInv, BufferOK
  <2>2. Res(c.dptr, Granules(c.dsize), "owned") \in reserved => FullIn(Here(mapped, BoxOf(box[b])), BoxOf(box[b]))
    BY <2>1 DEF BoxOK
  <2> QED
    BY <1>1, <1>2, <1>3, <2>2 DEF GoneNow, GoneOK
<1>15. OldNow("d_retain", c, 0) /\ NewOK("d_retain", c, phys')
  <2>1. ~Works("d_retain")
    BY DEF Works, Deallocation
  <2> QED
    BY <2>1, OldPast DEF NewOK
<1>16. ThreadNow("d_retain", c, Len(s))
  BY <1>14, <1>15 DEF ThreadNow
<1>17. BufferNow(b)
  <2>1. Res(NoBox.ptr, Granules(NoBox.size), "owned") \notin reserved
    <3>1. Res(0, 0, "owned").len = 0
      BY DEF Res
    <3> QED
      BY <1>1, <1>4, <3>1, NoGranules, RangeHas
  <2>2. ~buffer'[b].open
    BY DEF Closes
  <2> QED
    BY <1>1, <1>4, <2>1, <2>2 DEF BufferNow, BoxOK
<1>18. {b} \in SUBSET Buffers /\ (\A y \in Buffers \ {b} : Alike(y)) /\ content' \in Contents /\ (\A y \in {b} : BufferNow(y))
       /\ (pc[t] = "clear" => call[t].b \in {b})
  BY <1>17 DEF Closes
<1> QED
  BY <1>11, <1>12, <1>13, <1>16, <1>18, Keeps

\* A Buffer closes whose box a graph node still holds.
LEMMA NotLast ==
  ASSUME IInv, IInv', BInv, NEW t \in Threads, NEW b \in Buffers, box[b].holders # {}, box'[b].holders # {},
         box'[b].ptr = box[b].ptr, box'[b].size = box[b].size, Closes(b), Keepsake(t, {b}),
         UNCHANGED <<reserved, mapped, phys>>, pc[t] = "clear" => call[t].b = b,
         NEW p, NEW c, NEW s, Goes(t, p, c, s),
         FreshOf(p, c, Len(s)) = FreshOf(pc[t], call[t], Len(undo[t])), GoneOf(p, c) = GoneOf(pc[t], call[t]),
         ThreadNow(p, c, Len(s))
  PROVE  BInv'
<1>1. mapped' = mapped /\ reserved' = reserved /\ phys' = phys
  OBVIOUS
<1>2. BoxOf(box'[b]) = BoxOf(box[b])
  BY DEF BoxOf
<1>3. Claim' = Claim
  <2>1. \A y \in Buffers : BoxOf(box'[y]) = BoxOf(box[y])
    BY <1>2 DEF Closes, Alike, BoxOf
  <2> QED
    BY <2>1, ClaimsStay
<1>4. Geo(reserved', mapped', Claim')
  BY <1>1, <1>3 DEF BInv
<1>5. LensStay /\ OthersLeft(t, {b})
  BY <1>1, NothingMoves DEF LensStay
<1>6. Whole'
  BY <1>1, <1>5, WholeStays
<1>7. BufferNow(b)
  <2>1. BoxOK(box[b], buffer[b], content[b], Here(mapped, BoxOf(box[b])), reserved)
    BY DEF BInv, BufferOK
  <2>2. ~buffer'[b].open
    BY DEF Closes
  <2> QED
    BY <1>1, <1>2, <2>1, <2>2 DEF BufferNow, BoxOK
<1>8. {b} \in SUBSET Buffers /\ (\A y \in Buffers \ {b} : Alike(y)) /\ content' \in Contents /\ (\A y \in {b} : BufferNow(y))
      /\ (pc[t] = "clear" => call[t].b \in {b})
  BY <1>7 DEF Closes
<1> QED
  BY <1>4, <1>5, <1>6, <1>8, Keeps

\* What becomes of the box.
LEMMA BoxLetGo ==
  ASSUME IInv, NEW t \in Threads, NEW b \in Buffers, NEW who, NEW p, NEW c, LetGo(t, b, who, p, c)
  PROVE  /\ \A y \in Buffers \ {b} : box'[y] = box[y]
         /\ box[b].holders \ {who} = {} => box'[b] = NoBox
         /\ box[b].holders \ {who} # {} =>
               box'[b].ptr = box[b].ptr /\ box'[b].size = box[b].size /\ box'[b].holders = box[b].holders \ {who}
<1> DEFINE Box == [ptr : 0 .. Top, size : Nat, holders : SUBSET Holders]
           rest == box[b].holders \ {who}
           v == IF rest = {} THEN NoBox ELSE [box[b] EXCEPT !.holders = rest]
<1>1. box \in [Buffers -> Box] /\ box[b] \in Box
  BY TypeParts DEF IInv, BuffersOK
<1>2. box' = [box EXCEPT ![b] = v]
  BY DEF LetGo
<1>3. rest # {} => v.ptr = box[b].ptr /\ v.size = box[b].size /\ v.holders = rest
  <2>1. ASSUME rest # {} PROVE v.ptr = box[b].ptr /\ v.size = box[b].size /\ v.holders = rest
    BY <1>1, <2>1
  <2> QED
    BY <2>1
<1>4. rest = {} => v = NoBox
  OBVIOUS
<1> HIDE DEF v
<1>5. box'[b] = v /\ \A y \in Buffers \ {b} : box'[y] = box[y]
  BY <1>1, <1>2
<1> QED
  BY <1>3, <1>4, <1>5

\* Closing a Buffer.
LEMMA BufferCloses ==
  ASSUME IInv, BInv, NEW b \in Buffers, buffer' = [buffer EXCEPT ![b] = NoBuffer], content' = [content EXCEPT ![b] = <<>>],
         \A y \in Buffers \ {b} : box'[y] = box[y]
  PROVE  Closes(b)
<1>1. buffer \in [Buffers -> [open : BOOLEAN, size : Nat]] /\ content \in Contents
  BY TypeParts DEF IInv, BuffersOK, BInv, Contents
<1>2. buffer'[b] = NoBuffer /\ \A y \in Buffers \ {b} : buffer'[y] = buffer[y] /\ content'[y] = content[y]
  BY <1>1 DEF Contents
<1>3. content' \in Contents
  <2>1. <<>> \in Seq(SUBSET (Handles \X Nat))
    OBVIOUS
  <2> QED
    BY <1>1, <2>1 DEF Contents
<1>4. ~NoBuffer.open
  BY DEF NoBuffer
<1> QED
  BY <1>2, <1>3, <1>4 DEF Closes, Alike

\* A growth clears the old Buffer.
LEMMA ClearPuts == ASSUME IInv, IInv', BInv, NEW t \in Threads, Clear(t) PROVE BInv'
<1> DEFINE c == call[t]
<1>1. /\ pc[t] = "clear" /\ UNCHANGED <<reserved, mapped, phys>> /\ undo' = undo /\ LetGo(t, c.b, "buffer", "return", c)
      /\ buffer' = [buffer EXCEPT ![c.b] = NoBuffer] /\ content' = [content EXCEPT ![c.b] = <<>>]
  BY DEF Clear, driver
<1>2. pc[t] \in Committed /\ pc[t] \notin {"d_retain", "d_unmap", "d_free"} /\ Works(pc[t])
  BY <1>1 DEF Committed, Works, Deallocation
<1>3. c \in Calls /\ c.op = "grow" /\ undo[t] = <<>> /\ Len(undo[t]) = 0 /\ CallOK(pc[t], c, 0) /\ BuffersOK(buffer, box)
  BY <1>1, Settled
<1>4. PICK b \in Buffers : b = c.b
  BY <1>3 DEF CallOK
<1>5. buffer[b].open /\ box[b].holders # {}
  BY <1>2, <1>3, <1>4, Grown
<1>6. /\ \A y \in Buffers \ {b} : box'[y] = box[y]
      /\ box[b].holders \ {"buffer"} = {} => box'[b] = NoBox
      /\ box[b].holders \ {"buffer"} # {} =>
            box'[b].ptr = box[b].ptr /\ box'[b].size = box[b].size /\ box'[b].holders = box[b].holders \ {"buffer"}
  BY <1>1, <1>4, BoxLetGo
<1>7. Closes(b)
  BY <1>1, <1>4, <1>6, BufferCloses
<1>8. Keepsake(t, {b})
  BY <1>4, Mine
<1>9. Left(mapped', reserved', FreshOf(pc[t], c, Len(undo[t])))
  BY <1>1, NothingMoves
<1>10. c.to \in Buffers /\ ~buffer'[c.to].open /\ box'[c.to].holders = {}
  <2>1. ToOK(c) /\ c.to \in Buffers
    BY <1>3, Was DEF CallOK
  <2>2. box[c.to].holders = {} /\ ~buffer[c.to].open
    BY <1>3, <2>1 DEF ToOK
  <2>3. c.to # b
    BY <1>5, <2>2
  <2>4. Alike(c.to)
    BY <1>7, <2>1, <2>3 DEF Closes
  <2> QED
    BY <2>1, <2>2, <2>4 DEF Alike
<1>11. CASE box[b].holders \ {"buffer"} = {}
  <2> DEFINE d == [c EXCEPT !.dptr = box[b].ptr, !.dsize = box[b].size]
  <2>1. Goes(t, "d_retain", d, undo[t])
    <3>1. pc' = [pc EXCEPT ![t] = "d_retain"] /\ call' = [call EXCEPT ![t] = d] /\ undo' = [undo EXCEPT ![t] = undo[t]]
      BY <1>1, <1>4, <1>11, Same DEF LetGo, Goto
    <3> HIDE DEF d
    <3> QED
      BY <3>1, GoesIs
  <2>2. d.dptr = box[b].ptr /\ d.dsize = box[b].size /\ Keeping(d, c) /\ d.to = c.to
    BY <1>3 DEF Calls, Keeping
  <2> HIDE DEF d
  <2>3. "d_retain" \in Committed
    BY DEF Committed, Deallocation
  <2>4. FreshNow("d_retain", d, 0) /\ FreshOf("d_retain", d, 0) = FreshOf(pc[t], c, Len(undo[t]))
    BY <1>2, <1>9, <2>2, <2>3, FreshAfter
  <2>5. ToNow(d)
    BY <1>10, <2>2 DEF ToNow
  <2>6. pc[t] = "clear" => call[t].b = b
    BY <1>4
  <2> QED
    BY <1>1, <1>2, <1>3, <1>5, <1>6, <1>7, <1>8, <1>11, <2>1, <2>2, <2>4, <2>5, <2>6, LastHolder
<1>12. CASE box[b].holders \ {"buffer"} # {}
  <2>1. Goes(t, "return", c, undo[t])
    BY <1>1, <1>4, <1>12, Same, GoesIs DEF LetGo, Goto
  <2>2. "return" \in Committed /\ Keeping(c, c) /\ ~Works("return") /\ "return" \notin {"d_retain", "d_unmap", "d_free"}
    BY DEF Committed, Keeping, Works
  <2>3. FreshNow("return", c, 0) /\ FreshOf("return", c, 0) = FreshOf(pc[t], c, Len(undo[t]))
    BY <1>2, <1>9, <2>2, FreshAfter
  <2>4. GoneNow("return", c) /\ GoneOf("return", c) = Nowhere /\ GoneOf(pc[t], c) = Nowhere
    BY <1>2, <2>2, GoneNone
  <2>5. OldNow("return", c, 0) /\ NewOK("return", c, phys') /\ ToNow(c)
    BY <1>10, <2>2, OldPast DEF NewOK, ToNow
  <2>6. ThreadNow("return", c, Len(undo[t])) /\ FreshOf("return", c, Len(undo[t])) = FreshOf(pc[t], c, Len(undo[t]))
    BY <1>3, <2>3, <2>4, <2>5 DEF ThreadNow
  <2>7. GoneOf("return", c) = GoneOf(pc[t], call[t]) /\ (pc[t] = "clear" => call[t].b = b)
    BY <1>4, <2>4
  <2> QED
    BY <1>1, <1>5, <1>6, <1>7, <1>8, <1>12, <2>1, <2>6, <2>7, NotLast
<1> QED
  BY <1>11, <1>12

\* A thread at rest whose call lets go of a box as its last holder.
LEMMA ClosingCall ==
  ASSUME IInv, IInv', BInv, NEW t \in Threads, pc[t] = "idle", NEW b \in Buffers, NEW who,
         LetGo(t, b, who, "idle", [Idle EXCEPT !.op = "close"]), undo' = undo,
         box[b].holders # {}, box[b].holders \ {who} = {}, Closes(b), Keepsake(t, {b}), UNCHANGED <<reserved, mapped, phys>>
  PROVE  BInv'
<1> DEFINE d == [[Idle EXCEPT !.op = "close"] EXCEPT !.dptr = box[b].ptr, !.dsize = box[b].size]
<1>1. Goes(t, "d_retain", d, undo[t])
  <2>1. pc' = [pc EXCEPT ![t] = "d_retain"] /\ call' = [call EXCEPT ![t] = d] /\ undo' = [undo EXCEPT ![t] = undo[t]]
    BY Same DEF LetGo, Goto
  <2> HIDE DEF d
  <2> QED
    BY <2>1, GoesIs
<1>2. d.op = "close" /\ d.dptr = box[b].ptr /\ d.dsize = box[b].size
  BY DEF Idle
<1> HIDE DEF d
<1>3. /\ call[t] = Idle /\ Len(undo[t]) = 0
      /\ FreshOf(pc[t], call[t], Len(undo[t])) = Nowhere /\ GoneOf(pc[t], call[t]) = Nowhere
  BY RestClaims
<1>4. FreshOf("d_retain", d, 0) = Nowhere /\ FreshLen("d_retain", d, 0) = 0
  BY <1>2 DEF FreshOf, FreshLen, Span
<1>5. FreshNow("d_retain", d, 0)
  <2>1. MappingsOK(mapped') /\ Nowhere \in Ranges /\ Nowhere.n = 0
    BY TypePartsNext DEF IInv, Nowhere, Ranges
  <2>2. Here(mapped', Nowhere) = {}
    BY <2>1, HereNowhere
  <2> QED
    BY <1>2, <1>4, <2>2 DEF FreshNow, FreshOK
<1>6. ToNow(d)
  BY <1>2 DEF ToNow
<1>7. box'[b] = NoBox
  BY BoxLetGo
<1>8. pc[t] \notin {"d_retain", "d_unmap", "d_free"} /\ (pc[t] = "clear" => call[t].b = b)
  OBVIOUS
<1> QED
  BY <1>1, <1>2, <1>3, <1>4, <1>5, <1>6, <1>7, <1>8, LastHolder

\* Buffer.close.
LEMMA ClosePuts == ASSUME IInv, IInv', BInv, NEW t \in Threads, NEW b \in Buffers, Close(t, b) PROVE BInv'
<1>1. /\ pc[t] = "idle" /\ UNCHANGED <<reserved, mapped, phys>> /\ undo' = undo
      /\ LetGo(t, b, "buffer", "idle", [Idle EXCEPT !.op = "close"])
      /\ buffer' = [buffer EXCEPT ![b] = NoBuffer] /\ content' = [content EXCEPT ![b] = <<>>] /\ buffer[b].open /\ ~Busy(b)
  BY DEF Close, driver
<1>2. box[b].holders # {}
  BY <1>1, TypeParts DEF IInv, BuffersOK
<1>3. /\ \A y \in Buffers \ {b} : box'[y] = box[y]
      /\ box[b].holders \ {"buffer"} # {} =>
            box'[b].ptr = box[b].ptr /\ box'[b].size = box[b].size /\ box'[b].holders = box[b].holders \ {"buffer"}
  BY <1>1, BoxLetGo
<1>4. Closes(b)
  BY <1>1, <1>3, BufferCloses
<1>5. Keepsake(t, {b})
  BY <1>1 DEF Busy, Keepsake
<1>6. CASE box[b].holders \ {"buffer"} = {}
  BY <1>1, <1>2, <1>4, <1>5, <1>6, ClosingCall
<1>7. CASE box[b].holders \ {"buffer"} # {}
  <2>1. Goes(t, "idle", Idle, undo[t])
    BY <1>1, <1>7, Same, GoesIs DEF LetGo, Goto
  <2>2. Len(undo[t]) = 0 /\ FreshOf(pc[t], call[t], Len(undo[t])) = Nowhere /\ GoneOf(pc[t], call[t]) = Nowhere
    BY <1>1, RestClaims
  <2>3. /\ ThreadNow("idle", Idle, Len(undo[t])) /\ FreshOf("idle", Idle, Len(undo[t])) = FreshOf(pc[t], call[t], Len(undo[t]))
        /\ GoneOf("idle", Idle) = GoneOf(pc[t], call[t]) /\ (pc[t] = "clear" => call[t].b = b)
    BY <1>1, <2>2, AtRest
  <2> QED
    BY <1>1, <1>2, <1>3, <1>4, <1>5, <1>7, <2>1, <2>3, NotLast
<1> QED
  BY <1>6, <1>7

\* A graph node is destroyed that holds the box.
LEMMA DropGraphPuts == ASSUME IInv, IInv', BInv, NEW t \in Threads, NEW b \in Buffers, DropGraph(t, b) PROVE BInv'
<1>1. /\ pc[t] = "idle" /\ UNCHANGED <<reserved, mapped, phys>> /\ undo' = undo
      /\ LetGo(t, b, "graph", "idle", [Idle EXCEPT !.op = "close"])
      /\ buffer' = buffer /\ content' = content /\ "graph" \in box[b].holders /\ content \in Contents
  BY DEF DropGraph, driver, BInv, Contents
<1>2. box[b].holders # {}
  BY <1>1
<1>3. /\ \A y \in Buffers \ {b} : box'[y] = box[y]
      /\ box[b].holders \ {"graph"} # {} =>
            box'[b].ptr = box[b].ptr /\ box'[b].size = box[b].size /\ box'[b].holders = box[b].holders \ {"graph"}
  BY <1>1, BoxLetGo
<1>4. CASE box[b].holders \ {"graph"} = {}
  <2>1. ~buffer[b].open
    BY <1>4, TypeParts DEF IInv, BuffersOK
  <2>2. Closes(b)
    BY <1>1, <1>3, <2>1 DEF Closes, Alike
  <2>3. Keepsake(t, {b})
    <3>1. ASSUME NEW u \in Threads, call[u].op = "grow", Works(pc[u]) PROVE call[u].b # b
      BY <2>1, <3>1, Grown
    <3>2. ASSUME NEW u \in Threads, call[u].op \in {"grow", "allocate"} PROVE call[u].to # b
      BY <1>2, <3>2, Was DEF ToOK
    <3> QED
      BY <3>1, <3>2 DEF Keepsake
  <2> QED
    BY <1>1, <1>2, <1>4, <2>2, <2>3, ClosingCall
<1>5. CASE box[b].holders \ {"graph"} # {}
  <2>1. Goes(t, "idle", Idle, undo[t])
    BY <1>1, <1>5, Same, GoesIs DEF LetGo, Goto
  <2>2. Len(undo[t]) = 0 /\ FreshOf(pc[t], call[t], Len(undo[t])) = Nowhere /\ GoneOf(pc[t], call[t]) = Nowhere
    BY <1>1, RestClaims
  <2>3. ThreadNow("idle", Idle, Len(undo[t])) /\ FreshOf("idle", Idle, Len(undo[t])) = FreshOf(pc[t], call[t], Len(undo[t]))
        /\ GoneOf("idle", Idle) = GoneOf(pc[t], call[t])
    BY <2>2, AtRest
  <2>4. \A y \in Buffers : Alike(y)
    BY <1>1, <1>2, <1>3, <1>5 DEF Alike
  <2>5. Claim' = Claim
    <3>1. \A y \in Buffers : BoxOf(box'[y]) = BoxOf(box[y])
      BY <2>4 DEF Alike, BoxOf
    <3> QED
      BY <2>1, <2>3, <3>1, ClaimsStay
  <2>6. Geo(reserved', mapped', Claim') /\ LensStay /\ mapped' = mapped /\ reserved' = reserved
    BY <1>1, <2>5 DEF BInv, LensStay
  <2>7. Whole' /\ OthersLeft(t, {})
    BY <2>6, WholeStays, NothingMoves
  <2>8. /\ {} \in SUBSET Buffers /\ (\A y \in Buffers \ {} : Alike(y)) /\ (\A y \in {} : BufferNow(y)) /\ Keepsake(t, {})
        /\ (pc[t] = "clear" => call[t].b \in {}) /\ content' \in Contents
    BY <1>1, <2>4 DEF Keepsake
  <2> QED
    BY <2>1, <2>3, <2>6, <2>7, <2>8, Keeps
<1> QED
  BY <1>4, <1>5

-----------------------------------------------------------------------------
(* Undoing a transaction.                                                  *)

\* A mapping is mapped, and nothing else within it.
LEMMA PartMapped ==
  ASSUME MappingsOK(mapped), NEW m \in mapped
  PROVE  FullyMapped(m.base, m.len) /\ Inside(m.base, m.len) = {m}
<1>1. m.len > 0
  <2>1. m.len \in Nat /\ m.len # 0
    BY MappingHas
  <2> QED
    BY <2>1
<1>2. ASSUME NEW o \in mapped, NEW a \in Cells(m.base, m.len), a \in Cells(o.base, o.len) PROVE o = m
  BY <1>2 DEF MappingsOK
<1>3. Inside(m.base, m.len) = {m}
  <2>1. ASSUME NEW o \in Inside(m.base, m.len) PROVE o = m
    <3>1. o \in mapped /\ Cells(o.base, o.len) \subseteq Cells(m.base, m.len)
      BY DEF Inside
    <3>2. o.base \in Cells(o.base, o.len)
      BY <3>1, MappingHas
    <3> QED
      BY <1>2, <3>1, <3>2
  <2>2. m \in Inside(m.base, m.len)
    BY DEF Inside
  <2> QED
    BY <2>1, <2>2
<1>4. \A a \in Cells(m.base, m.len) : Backing(a) = {m}
  BY <1>2 DEF Backing
<1> QED
  BY <1>1, <1>3, <1>4 DEF FullyMapped

\* Without one of them, the others are left.
LEMMA BaresLess ==
  ASSUME MappingsOK(mapped), NEW S \in SUBSET mapped, NEW m \in S
  PROVE  Bares(S \ {m}) = Bares(S) \ {Bare(m)}
<1>1. ASSUME NEW o \in S, Bare(o) = Bare(m) PROVE o = m
  <2>1. o.base = m.base /\ o \in mapped /\ m \in mapped
    BY <1>1, BareIs
  <2>2. m.base \in Cells(m.base, m.len) /\ o.base \in Cells(o.base, o.len)
    BY <2>1, MappingHas
  <2> QED
    BY <2>1, <2>2 DEF MappingsOK
<1> QED
  BY <1>1 DEF Bares

\* What is unmapped of the range that a thread is making.
LEMMA FreshUnmapped ==
  ASSUME IInv, IInv', BInv, NEW t \in Threads, NEW p, NEW c, NEW s, Goes(t, p, c, s), UNCHANGED python, UNCHANGED <<phys, reserved>>,
         pc[t] # "clear", NEW ms \in SUBSET mapped, mapped' = ms,
         Confined(mapped', reserved', Own(Claim[<<t, "fresh">>])),
         FreshOf(p, c, Len(s)) = FreshOf(pc[t], call[t], Len(undo[t])), GoneOf(p, c) = GoneOf(pc[t], call[t]), ThreadNow(p, c, Len(s))
  PROVE  BInv'
<1>1. phys' = phys /\ reserved' = reserved /\ box' = box /\ mapped' \in SUBSET mapped
  BY DEF python
<1>2. Claim' = Claim
  <2>1. \A y \in Buffers : BoxOf(box'[y]) = BoxOf(box[y])
    BY <1>1
  <2> QED
    BY <2>1, ClaimsStay
<1>3. Geo(reserved', mapped', Claim')
  BY <1>1, <1>2, HousedLess DEF BInv, Geo
<1>4. Whole' /\ LensStay
  BY <1>1 DEF BInv, Whole, LensStay
<1>5. PICK i \in {<<t, "fresh">>, <<t, "gone">>} : i = <<t, "fresh">>
  OBVIOUS
<1> QED
  BY <1>3, <1>4, <1>5, KeepsOwn

\* Thread t undoes the k-th entry u of its transaction; s is what is left.
Undoes(t, k, u, s) ==
    /\ pc[t] = "rollback" /\ k \in Nat \ {0} /\ Len(undo[t]) = k /\ Len(s) = k - 1 /\ u = Plan(call[t], OldPtr(t))[k]
    /\ (call[t].op = "grow" /\ k \in 1 .. 6) \/ (call[t].op = "allocate" /\ k \in 1 .. 3)
    /\ Goes(t, "rollback", call[t], s) /\ UNCHANGED python
    /\ reserved' = IF u.do = "free" /\ Freeable(u.at, u.n) THEN Freed(u.at, u.n) ELSE reserved
    /\ phys' = IF u.do = "release" THEN Unref(u.h) ELSE phys
    /\ mapped' = CASE u.do = "unmap" /\ FullyMapped(u.at, u.n) -> Unmapped(u.at, u.n)
                   [] u.do = "remap" /\ Mappable(u.at, u.n, u.h) -> mapped \cup {Mapping(u.at, u.n, u.h)}
                   [] OTHER -> mapped

\* A rollback undoes the entry that was registered last.
LEMMA Undoing == ASSUME IInv, NEW t \in Threads, Rollback(t) PROVE \E k, u, s : Undoes(t, k, u, s)
<1> DEFINE c == call[t]
           k == Len(undo[t])
           u == Head(undo[t])
           s == Tail(undo[t])
<1>1. /\ undo[t] \in Seq(Entries) /\ k \in Nat /\ ListOK(undo[t], Plan(c, OldPtr(t)), k)
      /\ pc[t] = "rollback" /\ undo[t] # <<>>
  BY Known DEF Rollback
<1>2. (c.op = "grow" /\ k \in 0 .. 6) \/ (c.op = "allocate" /\ k \in 0 .. 3)
  BY <1>1, Located DEF Table
<1>3. Len(Plan(c, OldPtr(t))) \in Nat
  BY <1>2, GrowPlan, AllocatePlan
<1>4. k \in Nat \ {0} /\ Len(s) = k - 1 /\ u = Plan(c, OldPtr(t))[k]
  BY <1>1, <1>3, Popped
<1>5. (c.op = "grow" /\ k \in 1 .. 6) \/ (c.op = "allocate" /\ k \in 1 .. 3)
  BY <1>2, <1>4
<1>6. Goes(t, "rollback", c, s)
  <2>1. pc' = [pc EXCEPT ![t] = "rollback"] /\ call' = [call EXCEPT ![t] = c] /\ undo' = [undo EXCEPT ![t] = s]
    BY <1>1, Same DEF Rollback
  <2> QED
    BY <2>1, GoesIs
<1>7. Undoes(t, k, u, s)
  BY <1>1, <1>4, <1>5, <1>6 DEF Undoes, Rollback
<1> QED
  BY <1>7

\* What undoing leaves to say of the thread.
LEMMA UndoesThread ==
  ASSUME IInv, BInv, NEW t \in Threads, NEW k, NEW u, NEW s, Undoes(t, k, u, s),
         FreshNow("rollback", call[t], k - 1), OldNow("rollback", call[t], k - 1)
  PROVE  /\ ThreadNow("rollback", call[t], Len(s))
         /\ pc[t] # "clear" /\ GoneOf("rollback", call[t]) = GoneOf(pc[t], call[t])
<1>1. pc[t] = "rollback" /\ Len(s) = k - 1 /\ buffer' = buffer /\ box' = box
  BY DEF Undoes, python
<1>2. GoneNow("rollback", call[t])
  BY GoneNone
<1>3. ToNow(call[t])
  BY <1>1, Was DEF ToNow, ToOK
<1>4. NewOK("rollback", call[t], phys')
  BY DEF NewOK
<1> QED
  BY <1>1, <1>2, <1>3, <1>4 DEF ThreadNow

\* The old buffer, when only what the thread has made changes.
LEMMA UndoesOld ==
  ASSUME IInv, BInv, NEW t \in Threads, NEW k, NEW u, NEW s, Undoes(t, k, u, s),
         Confined(mapped', reserved', Own(Claim[<<t, "fresh">>])), \A h \in Handles : phys'[h].len = phys[h].len
  PROVE  OldNow("rollback", call[t], k - 1)
<1>1. k \in Nat \ {0} /\ Len(undo[t]) = k /\ UNCHANGED python /\ Works(pc[t])
  BY DEF Undoes, Works, Deallocation
<1>2. PICK j \in Nat : j = k - 1
  BY <1>1
<1>3. (j >= 3 => Len(undo[t]) >= 3) /\ (j >= 2 => Len(undo[t]) >= 2)
  BY <1>1, <1>2
<1>4. j >= 2 \/ "rollback" \in {"free_old", "clear"} => Len(undo[t]) >= 2
  BY <1>3
<1>5. OldNow("rollback", call[t], j)
  BY <1>1, <1>3, <1>4, OldKept
<1> QED
  BY <1>2, <1>5

\* The entries of the plan.
LEMMA EntryOf ==
  ASSUME NEW c, NEW at, NEW k, NEW u, u = Plan(c, at)[k]
  PROVE  /\ c.op = "grow" =>
               /\ k = 1 => u.do = "free" /\ u.at = c.ptr /\ u.n = Granules(c.new)
               /\ k \in {2, 5} => u.do = "release"
               /\ k = 3 => u.do = "remap" /\ u.at = at /\ u.n = c.prev /\ u.h = c.old
               /\ k \in {4, 6} => u.do = "unmap"
               /\ k = 4 => u.at = c.ptr /\ u.n = c.prev
               /\ k = 6 => u.at = c.ptr + c.prev /\ u.n = Granules(c.new) - c.prev
         /\ c.op = "allocate" =>
               /\ k = 1 => u.do = "release"
               /\ k = 2 => u.do = "free" /\ u.at = c.ptr /\ u.n = Granules(c.new)
               /\ k = 3 => u.do = "unmap" /\ u.at = c.ptr /\ u.n = Granules(c.new)
<1>1. \A do, a, n, h : /\ Undo(do, a, n, h).do = do /\ Undo(do, a, n, h).at = a /\ Undo(do, a, n, h).n = n
                       /\ Undo(do, a, n, h).h = h
  BY DEF Undo
<1>2. ASSUME c.op = "grow"
      PROVE  /\ k = 1 => u.do = "free" /\ u.at = c.ptr /\ u.n = Granules(c.new)
             /\ k \in {2, 5} => u.do = "release"
             /\ k = 3 => u.do = "remap" /\ u.at = at /\ u.n = c.prev /\ u.h = c.old
             /\ k \in {4, 6} => u.do = "unmap"
             /\ k = 4 => u.at = c.ptr /\ u.n = c.prev
             /\ k = 6 => u.at = c.ptr + c.prev /\ u.n = Granules(c.new) - c.prev
  BY <1>1, <1>2, GrowPlan
<1>3. ASSUME c.op = "allocate"
      PROVE  /\ k = 1 => u.do = "release"
             /\ k = 2 => u.do = "free" /\ u.at = c.ptr /\ u.n = Granules(c.new)
             /\ k = 3 => u.do = "unmap" /\ u.at = c.ptr /\ u.n = Granules(c.new)
  <2>1. c.op # "grow"
    BY <1>3
  <2> QED
    BY <1>1, <2>1, AllocatePlan
<1> QED
  BY <1>2, <1>3

\* A reference goes back.
LEMMA UndoRelease ==
  ASSUME IInv, IInv', BInv, NEW t \in Threads, NEW k, NEW u, NEW s, Undoes(t, k, u, s),
         (call[t].op = "grow" /\ k \in {2, 5}) \/ (call[t].op = "allocate" /\ k = 1)
  PROVE  BInv'
<1> DEFINE c == call[t]
<1>1. /\ pc[t] = "rollback" /\ k \in Nat \ {0} /\ Len(undo[t]) = k /\ Len(s) = k - 1 /\ u = Plan(c, OldPtr(t))[k]
      /\ Goes(t, "rollback", c, s) /\ UNCHANGED python
      /\ pc[t] \notin Committed
  BY DEF Undoes, Committed, Deallocation
<1>2. u.do = "release"
  <2>1. PICK d, at : d = c /\ at = OldPtr(t)
    OBVIOUS
  <2>2. u = Plan(d, at)[k]
    BY <1>1, <2>1
  <2> QED
    BY <2>1, <2>2, EntryOf
<1>3. mapped' = mapped /\ reserved' = reserved /\ phys' = Unref(u.h)
  BY <1>2 DEF Undoes
<1>4. u.h \in Handles /\ PhysOK(phys)
  <2>1. CallOK(pc[t], c, k) /\ PhysOK(phys)
    BY <1>1, Known
  <2>2. (c.op = "grow" /\ k \in 1 .. 6) \/ (c.op = "allocate" /\ k \in 1 .. 3)
    OBVIOUS
  <2>3. Newest(c, k, u)
    BY <1>1, <2>1, <2>2, NewestOfPlan
  <2> QED
    BY <1>2, <2>1, <2>3 DEF Newest
<1>5. \A h \in Handles : phys'[h].len = phys[h].len
  BY <1>3, <1>4, RefOK
<1>6. Confined(mapped', reserved', Own(Claim[<<t, "fresh">>]))
  BY <1>3, ConfinedSame
<1>7. OldNow("rollback", c, k - 1)
  BY <1>5, <1>6, UndoesOld
<1>8. FreshNow("rollback", c, k - 1) /\ FreshOf("rollback", c, k - 1) = FreshOf(pc[t], c, k)
  <2>1. FreshWas("rollback", c, k) /\ c.ptr \in Nat /\ FreshLen("rollback", c, k) \in Nat
    BY <1>1, Was, CallNat, LensNat
  <2>2. Left(mapped', reserved', FreshOf("rollback", c, k))
    BY <1>3, NothingMoves
  <2>3. PICK j : j = k - 1
    OBVIOUS
  <2>4. CASE c.op = "grow" /\ k = 5
    <3>1. j = 4 /\ k = 5 /\ "rollback" \notin Committed
      BY <1>1, <2>3, <2>4
    <3>2. FreshLen("rollback", c, j) = FreshLen("rollback", c, k) /\ GrowParts("rollback", c, j) = GrowParts("rollback", c, k)
      BY <2>4, <3>1 DEF FreshLen, GrowParts
    <3> QED
      BY <1>1, <2>1, <2>2, <2>3, <2>4, <3>2, FreshMoves
  <2>5. CASE c.op = "grow" /\ k = 2
    <3>1. j = 1 /\ k = 2 /\ "rollback" \notin Committed
      BY <1>1, <2>3, <2>5
    <3>2. FreshLen("rollback", c, j) = FreshLen("rollback", c, k) /\ GrowParts("rollback", c, j) = GrowParts("rollback", c, k)
      BY <2>5, <3>1 DEF FreshLen, GrowParts
    <3> QED
      BY <1>1, <2>1, <2>2, <2>3, <2>5, <3>2, FreshMoves
  <2>6. CASE c.op = "allocate" /\ k = 1
    <3>1. j = 0 /\ k = 1
      BY <2>3, <2>6
    <3>2. FreshLen("rollback", c, j) = FreshLen("rollback", c, k) /\ AllocateParts(c, j) = AllocateParts(c, k)
      BY <2>6, <3>1 DEF FreshLen, AllocateParts
    <3> QED
      BY <1>1, <2>1, <2>2, <2>3, <2>6, <3>2, FreshMoves
  <2> QED
    BY <2>4, <2>5, <2>6
<1>9. /\ ThreadNow("rollback", c, Len(s)) /\ GoneOf("rollback", c) = GoneOf(pc[t], c) /\ pc[t] # "clear"
  BY <1>7, <1>8, UndoesThread
<1>10. UNCHANGED <<reserved, mapped>> /\ LensStay
  BY <1>3, <1>5 DEF LensStay
<1>11. FreshOf("rollback", c, Len(s)) = FreshOf(pc[t], call[t], Len(undo[t]))
  BY <1>1, <1>8
<1> QED
  BY <1>1, <1>9, <1>10, <1>11, StaysPut

\* The part S of what is mapped in the range x goes.
LEMMA PartGoes ==
  ASSUME IInv, NEW x \in Ranges, NEW a, NEW n, NEW h, Part(a, n, h) \in Bares(Here(mapped, x))
  PROVE  /\ FullyMapped(a, n) /\ Cells(a, n) \subseteq Own(x) /\ n # 0
         /\ Bares(Here(Unmapped(a, n), x)) = Bares(Here(mapped, x)) \ {Part(a, n, h)}
<1>1. PICK m \in Here(mapped, x) : Part(a, n, h) = Bare(m)
  BY DEF Bares
<1>2. m.base = a /\ m.len = n
  <2>1. Part(a, n, h).base = a /\ Part(a, n, h).len = n /\ Bare(m).base = m.base /\ Bare(m).len = m.len
    BY DEF Part, Bare
  <2> QED
    BY <1>1, <2>1
<1>3. MappingsOK(mapped) /\ m \in mapped /\ Cells(m.base, m.len) \subseteq Own(x) /\ Here(mapped, x) \in SUBSET mapped
  BY TypeParts DEF IInv, Here
<1>4. FullyMapped(m.base, m.len) /\ Inside(m.base, m.len) = {m} /\ m.len # 0
  BY <1>3, PartMapped, MappingHas
<1>5. Here(Unmapped(a, n), x) = Here(mapped, x) \ {m}
  BY <1>2, <1>4 DEF Here, Unmapped
<1>6. Bares(Here(mapped, x) \ {m}) = Bares(Here(mapped, x)) \ {Bare(m)}
  BY <1>3, BaresLess
<1> QED
  BY <1>1, <1>2, <1>3, <1>4, <1>5, <1>6

\* A mapping goes that the transaction has made: the newest of those in its range.
LEMMA UndoUnmap ==
  ASSUME IInv, IInv', BInv, NEW t \in Threads, NEW k, NEW u, NEW s, Undoes(t, k, u, s),
         (call[t].op = "grow" /\ k \in {4, 6}) \/ (call[t].op = "allocate" /\ k = 3)
  PROVE  BInv'
<1> DEFINE c == call[t]
<1>1. /\ pc[t] = "rollback" /\ k \in Nat \ {0} /\ Len(undo[t]) = k /\ Len(s) = k - 1 /\ u = Plan(c, OldPtr(t))[k]
      /\ Goes(t, "rollback", c, s) /\ UNCHANGED python
      /\ pc[t] \notin Committed /\ "rollback" \notin Committed
  BY DEF Undoes, Committed, Deallocation
<1>2. PICK x, n : Ranged(t, x, n)
  <2>1. CASE c.op = "grow"
    <3>1. Len(undo[t]) >= 1 /\ pc[t] # "probe_free"
      BY <1>1
    <3> QED
      BY <2>1, <3>1, MakingRange
  <2>2. CASE c.op = "allocate"
    <3>1. Len(undo[t]) >= 2
      BY <1>1, <2>2
    <3> QED
      BY <2>2, <3>1, MakingRange
  <2> QED
    BY <2>1, <2>2
<1>3. PICK a \in Nat, v \in Nat :
         /\ a = c.ptr /\ v = c.prev /\ v <= n /\ n \in Nat /\ n # 0 /\ n = Granules(c.new)
         /\ x \in Ranges /\ Own(x) = Cells(a, n) /\ x = [at |-> a, n |-> n] /\ Claim[<<t, "fresh">>] = x
         /\ FreshLen(pc[t], c, k) = n /\ FreshOf(pc[t], c, k) = x
  BY <1>1, <1>2 DEF Ranged
<1>4. FreshOK("rollback", c, k, Here(mapped, x), reserved)
  BY <1>1, <1>3, Was DEF FreshWas
<1>5. Res(c.ptr, n, "pending") \in reserved
  BY <1>1, <1>3, <1>4 DEF FreshOK
<1>6. /\ u.do = "unmap"
      /\ c.op = "grow" => (k = 4 => u.at = c.ptr /\ u.n = c.prev) /\ (k = 6 => u.at = c.ptr + c.prev /\ u.n = Granules(c.new) - c.prev)
      /\ c.op = "allocate" => u.at = c.ptr /\ u.n = Granules(c.new)
  <2>1. PICK d, at : d = c /\ at = OldPtr(t)
    OBVIOUS
  <2>2. u = Plan(d, at)[k]
    BY <1>1, <2>1
  <2> QED
    BY <2>1, <2>2, EntryOf
<1>7. /\ reserved' = reserved /\ phys' = phys
      /\ mapped' = IF FullyMapped(u.at, u.n) THEN Unmapped(u.at, u.n) ELSE mapped
  BY <1>6 DEF Undoes
<1>8. FreshLen("rollback", c, k - 1) = n
  BY <1>1, <1>3 DEF FreshLen
<1>9. FreshOf("rollback", c, k - 1) = x
  BY <1>3, <1>8 DEF FreshOf, Span
<1>10. /\ Bares(Here(mapped', x)) = IF c.op = "grow" THEN GrowParts("rollback", c, k - 1) ELSE {}
       /\ Confined(mapped', reserved', Own(x))
  <2>0. Confined(mapped, reserved', Own(x)) /\ MappingsOK(mapped)
    BY <1>7, ConfinedSame, TypeParts DEF IInv
  <2>1. ASSUME NEW w, NEW l, NEW h, u.at = w, u.n = l, Part(w, l, h) \in Bares(Here(mapped, x))
        PROVE  Bares(Here(mapped', x)) = Bares(Here(mapped, x)) \ {Part(w, l, h)} /\ Confined(mapped', reserved', Own(x)) /\ l # 0
    <3>1. /\ FullyMapped(w, l) /\ Cells(w, l) \subseteq Own(x) /\ l # 0
          /\ Bares(Here(Unmapped(w, l), x)) = Bares(Here(mapped, x)) \ {Part(w, l, h)}
      BY <1>3, <2>1, PartGoes
    <3>2. mapped' = Unmapped(w, l)
      BY <1>7, <2>1, <3>1
    <3>3. Confined(Unmapped(w, l), reserved', Own(x))
      BY <2>0, <3>1, ConfinedUnmapped
    <3> QED
      BY <3>1, <3>2, <3>3
  <2>2. CASE c.op = "grow" /\ k = 4
    <3>1. u.at = a /\ u.n = v
      BY <1>3, <1>6, <2>2
    <3>2. Bares(Here(mapped, x)) = {Part(a, v, c.old)}
      BY <1>1, <1>3, <1>4, <2>2 DEF FreshOK, GrowParts
    <3>3. GrowParts("rollback", c, k - 1) = {}
      BY <1>1, <2>2 DEF GrowParts
    <3>4. Bares(Here(mapped', x)) = {} /\ Confined(mapped', reserved', Own(x))
      BY <2>1, <3>1, <3>2
    <3> QED
      BY <2>2, <3>3, <3>4
  <2>3. CASE c.op = "grow" /\ k = 6
    <3>1. PICK w, l : w = a + v /\ l = n - v /\ u.at = w /\ u.n = l
      BY <1>3, <1>6, <2>3
    <3>2. Bares(Here(mapped, x)) = {Part(a, v, c.old), Part(w, l, c.h)}
      BY <1>1, <1>3, <1>4, <2>3, <3>1 DEF FreshOK, GrowParts
    <3>3. GrowParts("rollback", c, k - 1) = {Part(a, v, c.old)}
      BY <1>1, <1>3, <2>3 DEF GrowParts
    <3>4. v # 0
      <4>1. Part(a, v, c.old) \in Bares(Here(mapped, x))
        BY <3>2
      <4> QED
        BY <1>3, <4>1, PartGoes
    <3>5. Part(a, v, c.old) # Part(w, l, c.h)
      <4>1. Part(a, v, c.old).base = a /\ Part(w, l, c.h).base = w
        BY DEF Part
      <4>2. a # w
        BY <3>1, <3>4
      <4> QED
        BY <4>1, <4>2
    <3>6. Bares(Here(mapped', x)) = {Part(a, v, c.old), Part(w, l, c.h)} \ {Part(w, l, c.h)} /\ Confined(mapped', reserved', Own(x))
      BY <2>1, <3>1, <3>2
    <3>7. {Part(a, v, c.old), Part(w, l, c.h)} \ {Part(w, l, c.h)} = {Part(a, v, c.old)}
      BY <3>5
    <3> QED
      BY <2>3, <3>3, <3>6, <3>7
  <2>4. CASE c.op = "allocate" /\ k = 3
    <3>1. u.at = a /\ u.n = n
      BY <1>3, <1>6, <2>4
    <3>2. Bares(Here(mapped, x)) = {Part(a, n, c.h)} \/ Here(mapped, x) = {}
      BY <1>1, <1>3, <1>4, <2>4 DEF FreshOK, AllocateParts
    <3>3. CASE Bares(Here(mapped, x)) = {Part(a, n, c.h)}
      <4>1. Bares(Here(mapped', x)) = {} /\ Confined(mapped', reserved', Own(x))
        BY <2>1, <3>1, <3>3
      <4> QED
        BY <2>4, <4>1
    <3>4. CASE Here(mapped, x) = {}
      <4>1. mapped' = Unmapped(a, n) \/ mapped' = mapped
        BY <1>7, <3>1
      <4>2. Here(mapped', x) = {}
        BY <3>4, <4>1 DEF Here, Unmapped
      <4>3. Confined(Unmapped(a, n), reserved', Own(x))
        BY <1>3, <2>0, ConfinedUnmapped
      <4>4. Bares({}) = {}
        BY DEF Bares
      <4> QED
        BY <2>0, <2>4, <4>1, <4>2, <4>3, <4>4
    <3> QED
      BY <3>2, <3>3, <3>4
  <2> QED
    BY <2>2, <2>3, <2>4
<1>11. FreshNow("rollback", c, k - 1)
  <2>1. c.op = "allocate" => Here(mapped', x) = {}
    BY <1>10 DEF Bares
  <2> QED
    BY <1>1, <1>3, <1>5, <1>7, <1>8, <1>9, <1>10, <2>1 DEF FreshNow, FreshOK
<1>12. OldNow("rollback", c, k - 1)
  BY <1>3, <1>7, <1>10, UndoesOld
<1>13. ThreadNow("rollback", c, Len(s)) /\ GoneOf("rollback", c) = GoneOf(pc[t], c) /\ pc[t] # "clear"
  BY <1>11, <1>12, UndoesThread
<1>14. PICK ms \in SUBSET mapped : mapped' = ms
  BY <1>7 DEF Unmapped
<1>15. FreshOf("rollback", c, Len(s)) = FreshOf(pc[t], call[t], Len(undo[t]))
  BY <1>1, <1>3, <1>9
<1>16. UNCHANGED <<phys, reserved>> /\ Confined(mapped', reserved', Own(Claim[<<t, "fresh">>]))
  BY <1>3, <1>7, <1>10
<1> QED
  BY <1>1, <1>13, <1>14, <1>15, <1>16, FreshUnmapped

\* The range goes back that the transaction has reserved.
LEMMA UndoFree ==
  ASSUME IInv, IInv', BInv, NEW t \in Threads, NEW k, NEW u, NEW s, Undoes(t, k, u, s),
         (call[t].op = "grow" /\ k = 1) \/ (call[t].op = "allocate" /\ k = 2)
  PROVE  BInv'
<1> DEFINE c == call[t]
<1>1. /\ pc[t] = "rollback" /\ k \in Nat \ {0} /\ Len(undo[t]) = k /\ Len(s) = k - 1 /\ u = Plan(c, OldPtr(t))[k]
      /\ Goes(t, "rollback", c, s) /\ UNCHANGED python
      /\ pc[t] \notin Committed /\ "rollback" \notin Committed
  BY DEF Undoes, Committed, Deallocation
<1>2. PICK x, n : Ranged(t, x, n)
  <2>1. CASE c.op = "grow"
    <3>1. Len(undo[t]) >= 1 /\ pc[t] # "probe_free"
      BY <1>1
    <3> QED
      BY <2>1, <3>1, MakingRange
  <2>2. CASE c.op = "allocate"
    <3>1. Len(undo[t]) >= 2
      BY <1>1, <2>2
    <3> QED
      BY <2>2, <3>1, MakingRange
  <2> QED
    BY <2>1, <2>2
<1>3. PICK a \in Nat :
         /\ a = c.ptr /\ n \in Nat /\ n # 0 /\ n = Granules(c.new)
         /\ x \in Ranges /\ Own(x) = Cells(a, n) /\ x.at = a /\ x.n = n /\ Claim[<<t, "fresh">>] = x
         /\ FreshLen(pc[t], c, k) = n /\ FreshOf(pc[t], c, k) = x
  BY <1>1, <1>2 DEF Ranged
<1>4. u.do = "free" /\ u.at = a /\ u.n = n
  <2>1. PICK d, at : d = c /\ at = OldPtr(t)
    OBVIOUS
  <2>2. u = Plan(d, at)[k]
    BY <1>1, <2>1
  <2> QED
    BY <1>3, <2>1, <2>2, EntryOf
<1>5. Here(mapped, x) = {}
  <2>1. FreshOK("rollback", c, k, Here(mapped, x), reserved)
    BY <1>1, <1>3, Was DEF FreshWas
  <2>2. Bares(Here(mapped, x)) = {} \/ Here(mapped, x) = {}
    BY <1>1, <2>1 DEF FreshOK, GrowParts, AllocateParts
  <2> QED
    BY <2>2 DEF Bares
<1>6. Res(a, n, "pending") \in reserved
  <2>1. Res(c.ptr, n, IF pc[t] \in Committed THEN "owned" ELSE "pending") \in reserved
    BY <1>2, RangedRes
  <2> QED
    BY <1>1, <1>3, <2>1
<1>7. Freeable(a, n)
  <2>1. Res(a, n, "pending").base = a /\ Res(a, n, "pending").len = n
    BY DEF Res
  <2>2. PICK cl \in [Claimants -> Ranges], i \in Claimants : cl = Claim /\ i = <<t, "fresh">>
    BY ClaimsImp, Claims
  <2>3. Geo(reserved, mapped, cl) /\ cl[i] = x /\ MappingsOK(mapped)
    BY <1>3, <2>2, TypeParts DEF BInv, IInv
  <2>4. \A m \in mapped : Cells(m.base, m.len) \cap Own(cl[i]) # {} => m \in Here(mapped, cl[i])
    BY <2>3, Touching
  <2>5. \A z \in Cells(a, n) : Backing(z) = {}
    BY <1>3, <1>5, <2>3, <2>4 DEF Backing
  <2> QED
    BY <1>6, <2>1, <2>5 DEF Freeable
<1>8. reserved' = Freed(x.at, x.n) /\ mapped' = mapped /\ phys' = phys
  BY <1>3, <1>4, <1>7 DEF Undoes
<1>9. FreshNow("rollback", c, k - 1) /\ FreshOf("rollback", c, k - 1) = Nowhere
  <2>1. MappingsOK(mapped')
    BY TypePartsNext DEF IInv
  <2>2. FreshLen("rollback", c, k - 1) = 0
    BY <1>1 DEF FreshLen
  <2>3. (c.op = "grow" => GrowParts("rollback", c, k - 1) = {}) /\ (c.op = "allocate" => AllocateParts(c, k - 1) = {})
    BY <1>1 DEF GrowParts, AllocateParts
  <2> QED
    BY <1>1, <2>1, <2>2, <2>3, FreshNothing
<1>10. Confined(mapped', reserved', Own(Claim[<<t, "fresh">>]))
  <2>1. x.at \in Own(x) /\ RangesOK(reserved)
    BY <1>3, OwnCells, TypeParts DEF IInv
  <2> QED
    BY <1>3, <1>8, <2>1, ConfinedFreed
<1>11. OldNow("rollback", c, k - 1)
  BY <1>8, <1>10, UndoesOld
<1>12. ThreadNow("rollback", c, Len(s)) /\ GoneOf("rollback", c) = GoneOf(pc[t], c) /\ pc[t] # "clear"
  BY <1>9, <1>11, UndoesThread
<1>13. FreshOf("rollback", c, Len(s)) = Nowhere /\ x = FreshOf(pc[t], call[t], Len(undo[t])) /\ x.n # 0 /\ UNCHANGED <<mapped, phys>>
  BY <1>1, <1>3, <1>8, <1>9
<1> QED
  BY <1>1, <1>5, <1>8, <1>12, <1>13, FreshFreed

\* The old memory comes back where it was, if the driver accepts that.
LEMMA UndoRemap ==
  ASSUME IInv, IInv', BInv, NEW t \in Threads, NEW k, NEW u, NEW s, Undoes(t, k, u, s), call[t].op = "grow", k = 3
  PROVE  BInv'
<1> DEFINE c == call[t]
<1>1. /\ pc[t] = "rollback" /\ Len(undo[t]) = 3 /\ Len(s) = 2 /\ u = Plan(c, OldPtr(t))[3]
      /\ Goes(t, "rollback", c, s) /\ UNCHANGED python /\ buffer' = buffer /\ box' = box /\ content' = content
      /\ pc[t] \notin Committed /\ "rollback" \notin Committed /\ Works(pc[t]) /\ pc[t] # "clear"
  BY DEF Undoes, Committed, Deallocation, Works, python
<1>2. u.do = "remap" /\ u.at = OldPtr(t) /\ u.n = c.prev /\ u.h = c.old
  <2>1. PICK d, at : d = c /\ at = OldPtr(t)
    OBVIOUS
  <2>2. u = Plan(d, at)[3]
    BY <1>1, <2>1
  <2> QED
    BY <2>1, <2>2, EntryOf
<1>3. /\ reserved' = reserved /\ phys' = phys
      /\ mapped' = IF Mappable(OldPtr(t), c.prev, c.old) THEN mapped \cup {Mapping(OldPtr(t), c.prev, c.old)} ELSE mapped
  BY <1>2 DEF Undoes
<1>4. FreshWas("rollback", c, 3) /\ c.ptr \in Nat /\ FreshLen("rollback", c, 3) \in Nat /\ OldWas("rollback", c, 3)
  BY <1>1, Was, CallNat, LensNat
<1>5. FreshLen("rollback", c, 2) = FreshLen("rollback", c, 3) /\ GrowParts("rollback", c, 2) = GrowParts("rollback", c, 3)
  BY <1>1 DEF FreshLen, GrowParts
<1>6. ASSUME Left(mapped', reserved', FreshOf("rollback", c, 3))
      PROVE  FreshNow("rollback", c, 2) /\ FreshOf("rollback", c, 2) = FreshOf("rollback", c, 3)
  BY <1>4, <1>5, <1>6, FreshMoves
<1>7. LensStay
  BY <1>3 DEF LensStay
<1>8. CASE ~Mappable(OldPtr(t), c.prev, c.old)
  <2>1. mapped' = mapped
    BY <1>3, <1>8
  <2>2. FreshNow("rollback", c, 2) /\ FreshOf("rollback", c, 2) = FreshOf("rollback", c, 3)
    BY <1>3, <1>6, <2>1, NothingMoves
  <2>3. OldNow("rollback", c, 2)
    <3>1. Confined(mapped', reserved', Own(Claim[<<t, "fresh">>])) /\ \A h \in Handles : phys'[h].len = phys[h].len
      BY <1>3, <2>1, ConfinedSame
    <3>2. OldNow("rollback", c, k - 1)
      BY <3>1, UndoesOld
    <3> QED
      BY <3>2
  <2>4. k - 1 = 2
    OBVIOUS
  <2>5. ThreadNow("rollback", c, Len(s)) /\ GoneOf("rollback", c) = GoneOf(pc[t], c)
    BY <2>2, <2>3, <2>4, UndoesThread
  <2>6. FreshOf("rollback", c, Len(s)) = FreshOf(pc[t], call[t], Len(undo[t]))
    BY <1>1, <2>2
  <2>7. UNCHANGED <<reserved, mapped>>
    BY <1>3, <2>1
  <2> QED
    BY <1>1, <1>7, <2>5, <2>6, <2>7, StaysPut
<1>9. CASE Mappable(OldPtr(t), c.prev, c.old)
  <2>1. PICK b \in Buffers : b = c.b /\ buffer[b].open /\ box[b].holders # {} /\ b \notin Cleared /\ Standing(box[b], reserved)
    BY <1>1, Grown
  <2>2. PICK o \in Nat, v \in Nat, h \in Handles :
           /\ o = box[b].ptr /\ o = OldPtr(t) /\ v = c.prev /\ h = c.old
    <3>1. CallOK("rollback", c, 3) /\ c.op = "grow"
      BY <1>1, Known
    <3>2. c.old \in Handles
      BY <3>1 DEF CallOK
    <3>3. box[b].ptr \in Nat
      BY <2>1, HeldBox
    <3>4. c.prev \in Nat
      BY CallNat
    <3>5. OldPtr(t) = box[b].ptr
      BY <2>1 DEF OldPtr
    <3> QED
      BY <3>2, <3>3, <3>4, <3>5
  <2>3. /\ v # 0 /\ v <= phys[h].len /\ mapped' = mapped \cup {Mapping(o, v, h)}
        /\ \E r \in reserved : Cells(o, v) \subseteq Cells(r.base, r.len)
    BY <1>3, <1>9, <2>2 DEF Mappable
  <2>4. Cells(o, v) \subseteq Own(BoxOf(box[b])) /\ v <= Granules(box[b].size)
    BY <1>1, <2>1, <2>2, PrevFits
  <2>5. OldOK("rollback", c, 3, box[b].ptr, buffer[b].size, content[b], Here(mapped, BoxOf(box[b])), phys)
    BY <1>4, <2>1 DEF OldWas
  <2>6. /\ phys[h].len <= v
        /\ \A i \in 1 .. Len(content[b]) : i <= phys[h].len => <<h, i - 1>> \in content[b][i]
    BY <2>2, <2>5 DEF OldOK
  <2>7. phys[h].len = v
    <3>1. phys[h].len \in Nat
      BY Known DEF PhysOK
    <3> QED
      BY <2>2, <2>3, <2>6, <3>1
  <2>8. Mapping(o, v, h).base = o /\ Mapping(o, v, h).len = v /\ Mapping(o, v, h).h = h
    BY DEF Mapping
  <2>9. Confined(mapped', reserved', Own(BoxOf(box[b])))
    <3>1. Confined(mapped, reserved', Own(BoxOf(box[b])))
      BY <1>3, ConfinedSame
    <3> QED
      BY <2>3, <2>4, <3>1, ConfinedMapping
  <2>10. Left(mapped', reserved', FreshOf("rollback", c, 3))
    <3>1. PICK i \in Claimants, j \in Claimants : i = <<b, "box">> /\ j = <<t, "fresh">> /\ i # j /\ Claim[i] = BoxOf(box[b])
                                                   /\ Claim[j] = FreshOf(pc[t], c, Len(undo[t]))
      BY Claims
    <3>2. Left(mapped', reserved', Claim[j])
      BY <2>9, <3>1, Elsewhere
    <3> QED
      BY <1>1, <3>1, <3>2
  <2>11. FreshNow("rollback", c, 2) /\ FreshOf("rollback", c, 2) = FreshOf("rollback", c, 3)
    BY <1>6, <2>10
  <2>12. OldNow("rollback", c, 2)
    <3>1. OldOK("rollback", c, 2, box[b].ptr, buffer[b].size, content[b], Here(mapped', BoxOf(box[b])), phys)
      BY <2>5 DEF OldOK
    <3> QED
      BY <1>1, <1>3, <2>1, <3>1 DEF OldNow
  <2>13. ThreadNow("rollback", c, Len(s)) /\ GoneOf("rollback", c) = GoneOf(pc[t], c)
    <3>1. k - 1 = 2
      OBVIOUS
    <3> QED
      BY <2>11, <2>12, <3>1, UndoesThread
  <2>14. Claim' = Claim
    <3>1. \A y \in Buffers : BoxOf(box'[y]) = BoxOf(box[y])
      BY <1>1
    <3>2. FreshOf("rollback", c, Len(s)) = FreshOf(pc[t], call[t], Len(undo[t]))
      BY <1>1, <2>11
    <3> QED
      BY <1>1, <2>13, <3>1, <3>2, ClaimsStay
  <2>15. Geo(reserved', mapped', Claim')
    <3>1. Housed(reserved, mapped')
      BY <2>3, <2>8 DEF BInv, Geo, Housed
    <3> QED
      BY <1>3, <2>14, <3>1 DEF BInv, Geo
  <2>16. Whole'
    BY <1>3, <2>3, <2>7, <2>8 DEF BInv, Whole
  <2>17. BufferNow(b)
    <3>1. BoxOK(box[b], buffer[b], content[b], Here(mapped, BoxOf(box[b])), reserved)
      BY DEF BInv, BufferOK
    <3>2. BoxOf(box[b]) \in Ranges
      BY <2>1, HeldBox
    <3>3. Here(mapped', BoxOf(box[b])) = Here(mapped, BoxOf(box[b])) \cup {Mapping(o, v, h)}
      BY <2>3, <2>4, <3>2, MappingAdded
    <3>4. Len(content[b]) = Granules(box[b].size) /\ Granules(box[b].size) \in Nat
      BY <2>1, <3>1, HeldBox DEF BoxOK
    <3>5. \A z \in Cells(o, v) : <<h, z - o>> \in content[b][z - o + 1]
      <4> SUFFICES ASSUME NEW z \in Cells(o, v) PROVE <<h, z - o>> \in content[b][z - o + 1]
        OBVIOUS
      <4>1. z \in Nat /\ o <= z /\ z < o + v
        BY <2>2, CellsAre
      <4>2. PICK i \in Nat : i = z - o + 1 /\ i - 1 = z - o /\ i >= 1 /\ i <= v
        BY <4>1
      <4>3. i \in 1 .. Len(content[b]) /\ i <= phys[h].len
        BY <2>4, <2>7, <3>4, <4>2
      <4> QED
        BY <2>6, <4>2, <4>3
    <3>6. Agrees(Here(mapped', BoxOf(box[b])), box[b].ptr, content[b])
      <4>1. Agrees(Here(mapped, BoxOf(box[b])), box[b].ptr, content[b])
        BY <2>1, <3>1 DEF BoxOK
      <4> QED
        BY <2>2, <2>8, <3>3, <3>5, <4>1 DEF Agrees
    <3>7. FullIn(Here(mapped, BoxOf(box[b])), BoxOf(box[b])) => FullIn(Here(mapped', BoxOf(box[b])), BoxOf(box[b]))
      BY <3>3 DEF FullIn
    <3>8. BoxOK(box[b], buffer[b], content[b], Here(mapped', BoxOf(box[b])), reserved)
      BY <3>1, <3>6, <3>7 DEF BoxOK
    <3> QED
      BY <1>1, <1>3, <2>1, <3>8 DEF BufferNow
  <2> QED
    BY <1>1, <1>7, <2>1, <2>9, <2>13, <2>15, <2>16, <2>17, KeepsBox
<1> QED
  BY <1>8, <1>9

\* An exception undoes the transaction, entry by entry.
LEMMA RollbackPuts == ASSUME IInv, IInv', BInv, NEW t \in Threads, Rollback(t) PROVE BInv'
<1>1. PICK k, u, s : Undoes(t, k, u, s)
  BY Undoing
<1>2. (call[t].op = "grow" /\ k \in 1 .. 6) \/ (call[t].op = "allocate" /\ k \in 1 .. 3)
  BY <1>1 DEF Undoes
<1>3. \/ (call[t].op = "grow" /\ k \in {2, 5}) \/ (call[t].op = "allocate" /\ k = 1)
      \/ (call[t].op = "grow" /\ k \in {4, 6}) \/ (call[t].op = "allocate" /\ k = 3)
      \/ (call[t].op = "grow" /\ k = 1) \/ (call[t].op = "allocate" /\ k = 2)
      \/ (call[t].op = "grow" /\ k = 3)
  BY <1>2
<1> QED
  BY <1>1, <1>3, UndoRelease, UndoUnmap, UndoFree, UndoRemap

-----------------------------------------------------------------------------
(* What is where, always.                                                  *)

\* Nothing is reserved, nothing is claimed.
LEMMA InitBInv == Init => BInv
<1> SUFFICES ASSUME Init PROVE BInv
  OBVIOUS
<1>1. /\ reserved = {} /\ mapped = {} /\ content = [b \in Buffers |-> <<>>]
      /\ \A b \in Buffers : box[b] = NoBox /\ ~buffer[b].open /\ box[b].ptr = 0 /\ box[b].size = 0 /\ box[b].holders = {}
      /\ \A t \in Threads : pc[t] = "idle" /\ call[t] = Idle /\ Len(undo[t]) = 0
  <2>1. Len(<<>>) = 0
    OBVIOUS
  <2> QED
    BY <2>1 DEF Init, NoBox, NoBuffer
<1>2. Idle.op = "none"
  BY DEF Idle
<1>3. Own(Nowhere) = {} /\ Granules(0) = 0
  BY SpanIs, NoGranules
<1>4. \A i \in Claimants : Claim[i] = Nowhere
  <2>1. FreshLen("idle", Idle, 0) = 0
    BY <1>2 DEF FreshLen
  <2>2. FreshOf("idle", Idle, 0) = Nowhere /\ GoneOf("idle", Idle) = Nowhere
    BY <2>1 DEF FreshOf, GoneOf, Span
  <2>3. \A b \in Buffers : BoxOf(box[b]) = Nowhere
    BY <1>1, <1>3 DEF BoxOf, Span
  <2> QED
    BY <1>1, <2>2, <2>3, Claims
<1>5. Geo(reserved, mapped, Claim)
  BY <1>1, <1>3, <1>4 DEF Geo, Disjoint, Tight, Claimed, Housed
<1>6. Whole
  BY <1>1 DEF Whole
<1>7. ASSUME NEW b \in Buffers PROVE BufferOK(b)
  BY <1>1 DEF BufferOK, BoxOK
<1>8. ASSUME NEW t \in Threads PROVE ThreadOK(t)
  <2>1. \A c : Here(mapped, c) = {}
    BY <1>1 DEF Here
  <2>2. FreshLen("idle", Idle, 0) = 0
    BY <1>2 DEF FreshLen
  <2>3. FreshOK("idle", Idle, 0, {}, reserved)
    BY <1>2, <2>2 DEF FreshOK, Committed, Deallocation
  <2>4. GoneOK("idle", Idle, {}, reserved)
    BY DEF GoneOK
  <2>5. \A at, size, ct, O : OldOK("idle", Idle, 0, at, size, ct, O, phys)
    BY <1>2 DEF OldOK
  <2>6. NewOK("idle", Idle, phys) /\ ToOK(Idle)
    BY <1>2 DEF NewOK, ToOK
  <2>7. pc[t] = "idle" /\ call[t] = Idle /\ Len(undo[t]) = 0
    BY <1>1
  <2>8. FreshOK(pc[t], call[t], Len(undo[t]), Here(mapped, FreshOf(pc[t], call[t], Len(undo[t]))), reserved)
    BY <2>1, <2>3, <2>7
  <2>9. GoneOK(pc[t], call[t], Here(mapped, GoneOf(pc[t], call[t])), reserved)
    BY <2>1, <2>4, <2>7
  <2>10. OldOK(pc[t], call[t], Len(undo[t]), box[call[t].b].ptr, buffer[call[t].b].size, content[call[t].b],
               Here(mapped, BoxOf(box[call[t].b])), phys)
    BY <2>5, <2>7
  <2>11. NewOK(pc[t], call[t], phys) /\ ToOK(call[t])
    BY <2>6, <2>7
  <2> QED
    BY <2>8, <2>9, <2>10, <2>11 DEF ThreadOK
<1>9. content \in [Buffers -> Seq(SUBSET (Handles \X Nat))]
  <2>1. \A S : <<>> \in Seq(S)
    OBVIOUS
  <2> QED
    BY <1>1, <2>1
<1> QED
  BY <1>5, <1>6, <1>7, <1>8, <1>9 DEF BInv

\* Nothing happens.
LEMMA StutterPuts == ASSUME BInv, UNCHANGED vars PROVE BInv'
<1>1. /\ reserved' = reserved /\ mapped' = mapped /\ phys' = phys /\ buffer' = buffer /\ box' = box /\ content' = content
      /\ pc' = pc /\ call' = call /\ undo' = undo
  BY DEF vars, driver, python
<1>2. Claim' = Claim /\ Cleared' = Cleared
  BY <1>1 DEF Claim, Cleared
<1>3. Geo(reserved', mapped', Claim')
  BY <1>1, <1>2 DEF BInv
<1>4. Whole'
  BY <1>1 DEF BInv, Whole
<1>5. ASSUME NEW b \in Buffers PROVE BufferOK(b)'
  <2>1. BufferOK(b)
    BY DEF BInv
  <2> QED
    BY <1>1, <1>2, <2>1 DEF BufferOK
<1>6. ASSUME NEW t \in Threads PROVE ThreadOK(t)'
  <2>1. ThreadOK(t)
    BY DEF BInv
  <2> QED
    BY <1>1, <2>1 DEF ThreadOK, ToOK
<1>7. content' \in [Buffers -> Seq(SUBSET (Handles \X Nat))]
  BY <1>1 DEF BInv
<1> QED
  BY <1>3, <1>4, <1>5, <1>6, <1>7 DEF BInv

\* Each step keeps it, unless it is handed a remembered range.
LEMMA NextPuts == ASSUME ~recycled', IInv, BInv, [Next]_vars PROVE BInv'
<1>0. IInv'
  BY NextKeeps
<1>1. ASSUME NEW t \in Threads, NEW b \in Buffers, NEW n \in Sizes, Allocate(t, b, n) \/ Reaccess(t, b, n) PROVE BInv'
  BY <1>0, <1>1, AllocatePuts, ReaccessPuts
<1>2. ASSUME NEW t \in Threads, NEW b \in Buffers, NEW b2 \in Buffers, NEW n \in Sizes, Modify(t, b, b2, n) PROVE BInv'
  BY <1>0, <1>2, ModifyPuts
<1>3. ASSUME NEW t \in Threads,
             Probe(t) \/ ProbeFree(t) \/ Reserve(t) \/ Retain(t) \/ UnmapOld(t) \/ MapOld(t) \/ Create(t) \/ Map(t) \/ Access(t)
      PROVE  BInv'
  BY <1>0, <1>3, ProbePuts, ProbeFreePuts, ReservePuts, RetainPuts, UnmapOldPuts, MapOldPuts, CreatePuts, MapPuts, AccessPuts
<1>4. ASSUME NEW t \in Threads, Rollback(t) \/ RolledBack(t) \/ FreeOld(t) \/ Clear(t) \/ Moved(t) PROVE BInv'
  BY <1>0, <1>4, RollbackPuts, RolledBackPuts, FreeOldPuts, ClearPuts, MovedPuts
<1>5. ASSUME NEW t \in Threads, NEW b \in Buffers, Close(t, b) \/ DropGraph(t, b) PROVE BInv'
  BY <1>0, <1>5, ClosePuts, DropGraphPuts
<1>6. ASSUME NEW t \in Threads, DRetain(t) \/ DUnmap(t) \/ DFree(t) \/ DRelease(t) PROVE BInv'
  BY <1>0, <1>6, DRetainPuts, DUnmapPuts, DFreePuts, DReleasePuts
<1>7. ASSUME NEW b \in Buffers, Share(b) PROVE BInv'
  BY <1>0, <1>7, SharePuts
<1>8. CASE UNCHANGED vars
  BY <1>8, StutterPuts
<1> QED
  BY <1>1, <1>2, <1>3, <1>4, <1>5, <1>6, <1>7, <1>8 DEF Next

\* What the driver has done it has done.
LEMMA RecycledStays == ASSUME recycled, [Next]_vars PROVE recycled'
<1>1. ASSUME NEW t \in Threads, NEW b \in Buffers, NEW n \in Sizes, Allocate(t, b, n) \/ Reaccess(t, b, n) PROVE recycled'
  BY <1>1 DEF Allocate, Reaccess
<1>2. ASSUME NEW t \in Threads, NEW b \in Buffers, NEW b2 \in Buffers, NEW n \in Sizes, Modify(t, b, b2, n) PROVE recycled'
  BY <1>2 DEF Modify
<1>3. ASSUME NEW t \in Threads, Probe(t) \/ Reserve(t) PROVE recycled'
  BY <1>3 DEF Probe, Reserve, Recycling, Raise
<1>4. ASSUME NEW t \in Threads, ProbeFree(t) \/ Retain(t) \/ UnmapOld(t) \/ MapOld(t) \/ Create(t) \/ Map(t) \/ Access(t)
      PROVE  recycled'
  BY <1>4 DEF ProbeFree, Retain, UnmapOld, MapOld, Create, Map, Access, Commit, Raise
<1>5. ASSUME NEW t \in Threads, Rollback(t) \/ RolledBack(t) \/ FreeOld(t) \/ Clear(t) \/ Moved(t) PROVE recycled'
  BY <1>5 DEF Rollback, RolledBack, FreeOld, Clear, Moved
<1>6. ASSUME NEW t \in Threads, NEW b \in Buffers, Close(t, b) \/ DropGraph(t, b) PROVE recycled'
  BY <1>6 DEF Close, DropGraph
<1>7. ASSUME NEW t \in Threads, DRetain(t) \/ DUnmap(t) \/ DFree(t) \/ DRelease(t) PROVE recycled'
  BY <1>7 DEF DRetain, DUnmap, DFree, DRelease
<1>8. ASSUME NEW b \in Buffers, Share(b) PROVE recycled'
  BY <1>8 DEF Share
<1>9. CASE UNCHANGED vars
  BY <1>9 DEF vars
<1> QED
  BY <1>1, <1>2, <1>3, <1>4, <1>5, <1>6, <1>7, <1>8, <1>9 DEF Next

\* What is where, until the driver hands out a range that a box remembers.
THEOREM Places == Spec => [](IInv /\ (recycled \/ BInv))
<1>1. Init => IInv /\ (recycled \/ BInv)
  BY InitIInv, InitBInv
<1>2. ASSUME IInv, recycled \/ BInv, [Next]_vars PROVE IInv' /\ (recycled \/ BInv)'
  <2>1. IInv'
    BY <1>2, NextKeeps
  <2>2. CASE recycled'
    BY <2>1, <2>2
  <2>3. CASE ~recycled'
    <3>1. ~recycled
      BY <1>2, <2>3, RecycledStays
    <3>2. BInv'
      BY <1>2, <2>3, <3>1, NextPuts
    <3> QED
      BY <2>1, <3>2
  <2> QED
    BY <2>2, <2>3
<1> QED
  BY <1>1, <1>2, PTL DEF Spec

-----------------------------------------------------------------------------
(* Nothing is stranded.                                                    *)

\* A thread whose claim has a place knows what will become of it.
LEMMA FreshIsKnown ==
  ASSUME IInv, NEW t \in Threads, FreshLen(pc[t], call[t], Len(undo[t])) # 0
  PROVE  \/ \E i \in 1 .. Len(undo[t]) : undo[t][i].do = "free" /\ undo[t][i].at = call[t].ptr
         \/ pc[t] = "probe_free"
         \/ Moving(t)
<1> DEFINE c == call[t]
<1>1. ListOK(undo[t], Plan(c, OldPtr(t)), Len(undo[t]))
  BY Known
<1>2. PICK k \in Nat : k = Len(undo[t])
  BY Known
<1>3. \A i \in 1 .. k : undo[t][i] = Plan(c, OldPtr(t))[k + 1 - i]
  BY <1>1, <1>2 DEF ListOK
<1>4. CASE c.op = "grow" /\ pc[t] \in Committed
  BY <1>4 DEF Moving, Growing, Deallocating, Committed, Deallocation
<1>5. CASE c.op = "grow" /\ k >= 1
  <2>1. k \in 1 .. k /\ k + 1 - k = 1
    BY <1>5
  <2>2. undo[t][k] = Plan(c, OldPtr(t))[1]
    BY <1>3, <2>1
  <2>3. undo[t][k].do = "free" /\ undo[t][k].at = c.ptr
    BY <1>5, <2>2, EntryOf
  <2> QED
    BY <1>2, <2>1, <2>3
<1>6. CASE c.op = "allocate" /\ k >= 2
  <2>1. PICK j \in 1 .. k : j = k - 1 /\ k + 1 - j = 2
    BY <1>6
  <2>2. undo[t][j] = Plan(c, OldPtr(t))[2]
    BY <1>3, <2>1
  <2>3. undo[t][j].do = "free" /\ undo[t][j].at = c.ptr
    BY <1>6, <2>2, EntryOf
  <2> QED
    BY <1>2, <2>1, <2>3
<1> QED
  BY <1>2, <1>4, <1>5, <1>6 DEF FreshLen

\* The invariant says who holds a reservation that is not lost.
LEMMA Unstranded == ASSUME IInv, BInv PROVE NothingStranded
<1> SUFFICES ASSUME NEW r \in reserved, r.is # "lost"
             PROVE  \/ \E b \in Buffers : box[b].holders # {} /\ box[b].ptr = r.base
                    \/ \E t \in Threads :
                        \/ \E i \in 1 .. Len(undo[t]) : undo[t][i].do = "free" /\ undo[t][i].at = r.base
                        \/ pc[t] = "probe_free" /\ call[t].ptr = r.base
                        \/ Moving(t) /\ call[t].ptr = r.base
                        \/ Deallocating(t) /\ call[t].dptr = r.base
  BY DEF NothingStranded
<1>1. PICK i \in Claimants : Claim[i].at = r.base /\ Claim[i].n = r.len
  BY DEF BInv, Geo, Claimed
<1>2. RangesOK(reserved) /\ BuffersOK(buffer, box)
  BY TypeParts DEF IInv
<1>3. Claim[i].n # 0
  BY <1>1, <1>2, RangeHas
<1>4. ASSUME NEW b \in Buffers, i = <<b, "box">> PROVE box[b].holders # {} /\ box[b].ptr = r.base
  <2>1. Claim[i] = BoxOf(box[b])
    BY <1>4, Claims
  <2>2. Granules(box[b].size) # 0 /\ box[b].ptr = r.base
    BY <1>1, <1>2, <1>3, <2>1, BoxRange
  <2>3. box[b].holders # {}
    <3> SUFFICES ASSUME box[b].holders = {} PROVE FALSE
      OBVIOUS
    <3>1. box[b].size = 0
      BY DEF BInv, BufferOK, BoxOK, NoBox
    <3> QED
      BY <2>2, <3>1, NoGranules
  <2> QED
    BY <2>2, <2>3
<1>5. ASSUME NEW t \in Threads, i = <<t, "fresh">>
      PROVE  FreshLen(pc[t], call[t], Len(undo[t])) # 0 /\ call[t].ptr = r.base
  <2>1. Claim[i] = Span(call[t].ptr, FreshLen(pc[t], call[t], Len(undo[t])))
    BY <1>5, Claims DEF FreshOf
  <2>2. call[t].ptr \in Nat /\ FreshLen(pc[t], call[t], Len(undo[t])) \in Nat
    BY CallNat, LensNat
  <2> QED
    BY <1>1, <1>3, <2>1, <2>2, SpanIs
<1>6. ASSUME NEW t \in Threads, i = <<t, "gone">> PROVE Deallocating(t) /\ call[t].dptr = r.base
  <2>1. Claim[i] = GoneOf(pc[t], call[t])
    BY <1>6, Claims
  <2>2. pc[t] \in {"d_retain", "d_unmap", "d_free"}
    BY <1>3, <2>1 DEF GoneOf, Span, Nowhere
  <2>3. PICK x, n : Going(t, x, n)
    BY <2>2, GoingRange
  <2> QED
    BY <1>1, <2>1, <2>2, <2>3 DEF Going, Deallocating
<1>7. CASE \E b \in Buffers : i = <<b, "box">>
  BY <1>4, <1>7
<1>8. CASE \E t \in Threads : i = <<t, "fresh">>
  BY <1>5, <1>8, FreshIsKnown
<1>9. CASE \E t \in Threads : i = <<t, "gone">>
  BY <1>6, <1>9
<1> QED
  BY <1>7, <1>8, <1>9, Claims

-----------------------------------------------------------------------------
(* What is behind an open Buffer.                                          *)

\* An open Buffer whose range nobody has left is backed.
LEMMA OpenBacked == ASSUME IInv, BInv PROVE OpenIsBacked
<1> SUFFICES ASSUME NEW b \in Buffers, buffer[b].open, ~Leaving(b) PROVE Backed(b)
  BY DEF OpenIsBacked
<1> DEFINE S == Here(mapped, BoxOf(box[b]))
<1>1. BuffersOK(buffer, box) /\ MappingsOK(mapped)
  BY TypeParts DEF IInv
<1>2. box[b].holders # {}
  BY <1>1 DEF BuffersOK
<1>3. BufferOK(b)
  BY DEF BInv
<1>4. b \notin Cleared
  BY DEF Leaving, Cleared
<1>5. Res(box[b].ptr, Granules(box[b].size), "owned") \in reserved
  <2>1. PICK is \in {"owned", "leaving"} : Res(box[b].ptr, Granules(box[b].size), is) \in reserved
    BY <1>3, <1>4 DEF BufferOK, Standing
  <2>2. Res(box[b].ptr, Granules(box[b].size), is).base = box[b].ptr /\ Res(box[b].ptr, Granules(box[b].size), is).is = is
    BY DEF Res
  <2> QED
    BY <2>1, <2>2 DEF Leaving
<1>6. FullIn(S, BoxOf(box[b])) /\ Agrees(S, box[b].ptr, content[b]) /\ Len(content[b]) = Granules(box[b].size)
  BY <1>3, <1>5 DEF BufferOK, BoxOK
<1>7. PICK a \in Nat, n \in Nat : a = box[b].ptr /\ n = Granules(box[b].size)
  BY <1>2, HeldBox
<1>8. ASSUME NEW i \in 1 .. Len(content[b])
      PROVE  \E m \in Backing(box[b].ptr + i - 1) : m.access /\ <<m.h, box[b].ptr + i - 1 - m.base>> \in content[b][i]
  <2>1. i \in Nat /\ 1 <= i /\ i <= n
    BY <1>6, <1>7, <1>8
  <2>2. PICK z \in Nat : z = a + i - 1 /\ a <= z /\ z < a + n /\ z - a + 1 = i
    BY <2>1
  <2>3. z \in Own(BoxOf(box[b]))
    <3>1. z \in Cells(a, n)
      BY <2>2, CellsAre
    <3> QED
      BY <1>2, <1>7, <3>1, HeldBox
  <2>4. PICK m \in S : z \in Cells(m.base, m.len) /\ m.access
    BY <1>6, <2>3 DEF FullIn
  <2>5. m \in mapped
    BY <2>4 DEF Here
  <2>6. <<m.h, z - m.base>> \in content[b][i]
    <3>1. <<m.h, z - m.base>> \in content[b][z - box[b].ptr + 1]
      BY <1>6, <2>4 DEF Agrees
    <3> QED
      BY <1>7, <2>2, <3>1
  <2>7. m \in Backing(z)
    BY <2>4, <2>5 DEF Backing
  <2>8. a + i - 1 - m.base = z - m.base
    <3>1. PICK q \in Nat : q = m.base
      BY <1>1, <2>5, MappingHas
    <3> QED
      BY <2>1, <2>2, <3>1
  <2> QED
    BY <1>7, <2>2, <2>4, <2>6, <2>7, <2>8
<1> QED
  BY <1>8 DEF Backed

-----------------------------------------------------------------------------
(* What a growth keeps.                                                    *)

\* The new range of a committed growth begins with the memory of the old one.
LEMMA ContentsKept == ASSUME IInv, BInv PROVE GrowthKeepsContents
<1> SUFFICES ASSUME NEW t \in Threads, pc[t] \in {"free_old", "clear"}, buffer[call[t].b].size % Gran = 0,
                    NEW i \in 1 .. Len(content[call[t].b])
             PROVE  \E m \in Backing(call[t].ptr + i - 1) : <<m.h, call[t].ptr + i - 1 - m.base>> \in content[call[t].b][i]
  BY DEF GrowthKeepsContents
<1> DEFINE c == call[t]  ct == content[call[t].b]  k == Len(undo[t])
<1>1. StepOK(pc[t], c, k) /\ CallOK(pc[t], c, k) /\ MappingsOK(mapped)
  BY Known
<1>2. c.op = "grow" /\ Works(pc[t]) /\ pc[t] \in Committed
  BY <1>1 DEF StepOK, GrowDepth, AllocateDepth, Works, Committed, Deallocation, Idle
<1>3. c.b \in Buffers /\ buffer[c.b].open /\ box[c.b].holders # {} /\ box[c.b].size = buffer[c.b].size
  BY <1>2, Grown
<1>4. PICK s \in Nat, n \in Nat, a \in Nat, v \in Nat, h \in Handles :
         /\ s = buffer[c.b].size /\ n = c.new /\ a = c.ptr /\ v = c.prev
         /\ Granules(s) \in Nat /\ h = c.old
  <2>1. box[c.b].size \in Nat /\ Granules(box[c.b].size) \in Nat
    BY <1>3, HeldBox
  <2>2. c.old \in Handles
    BY <1>2, InUse
  <2> QED
    BY <1>3, <2>1, <2>2, CallNat
<1>5. OldOK(pc[t], c, k, box[c.b].ptr, s, ct, Here(mapped, BoxOf(box[c.b])), phys)
  BY <1>4, Was DEF OldWas
<1>6. v = Granules(s)
  <2>1. s < n /\ v = Granules(n) - Granules(n - s)
    BY <1>2, <1>4, <1>5 DEF OldOK
  <2>2. s % Gran = 0
    BY <1>4
  <2> QED
    BY <2>1, <2>2, GranulesLess
<1>7. \A j \in 1 .. Len(ct) : j <= phys[h].len => <<h, j - 1>> \in ct[j]
  BY <1>2, <1>4, <1>5 DEF OldOK
<1>8. Len(ct) = Granules(s)
  BY <1>3, <1>4 DEF BInv, BufferOK, BoxOK
<1>9. PICK m \in mapped : m.base = a /\ m.len = v /\ m.h = h
  <2>1. FreshOK(pc[t], c, k, Here(mapped, FreshOf(pc[t], c, k)), reserved)
    BY Was DEF FreshWas
  <2>2. Part(c.ptr, c.prev, c.old) \in Bares(Here(mapped, FreshOf(pc[t], c, k)))
    BY <1>2, <2>1 DEF FreshOK, GrowParts
  <2>3. PICK m \in mapped : Bare(m) = Part(c.ptr, c.prev, c.old)
    BY <2>2 DEF Bares, Here
  <2>4. m.base = c.ptr /\ m.len = c.prev /\ m.h = c.old
    BY <2>3 DEF Bare, Part
  <2> QED
    BY <1>4, <2>4
<1>10. phys[h].len = v
  BY <1>9 DEF BInv, Whole
<1>11. i \in Nat /\ 1 <= i /\ i <= v
  BY <1>6, <1>8
<1>12. <<h, i - 1>> \in ct[i]
  BY <1>7, <1>10, <1>11
<1>13. a + i - 1 \in Cells(a, v)
  <2>1. PICK z \in Nat : z = a + i - 1 /\ a <= z /\ z < a + v
    BY <1>11
  <2> QED
    BY <2>1, CellsAre
<1>14. m \in Backing(a + i - 1)
  BY <1>9, <1>13 DEF Backing
<1>15. a + i - 1 - m.base = i - 1
  <2>1. a + i - 1 - a = i - 1
    BY <1>11
  <2> QED
    BY <1>9, <2>1
<1> QED
  BY <1>4, <1>9, <1>12, <1>14, <1>15

-----------------------------------------------------------------------------
(* What the driver refuses.                                                *)

\* A reservation that a Buffer owned is the whole of the range that its
\* deleter gives back.
LEMMA OwnedRange ==
  ASSUME IInv, BInv, NEW t \in Threads, NEW x, NEW n, Going(t, x, n),
         NEW r \in reserved, r.base = call[t].dptr, r.is = "owned"
  PROVE  r.len = n /\ Res(call[t].dptr, n, "owned") \in reserved
<1>1. RangesOK(reserved)
  BY TypeParts DEF IInv
<1>2. r.base \in Cells(r.base, r.len)
  BY <1>1, RangeHas
<1>3. Cells(r.base, r.len) \cap Own(Claim[<<t, "gone">>]) # {}
  BY <1>2 DEF Going
<1>4. r.len = n
  BY <1>3 DEF BInv, Geo, Tight, Going
<1>5. r = [base |-> r.base, len |-> r.len, is |-> r.is]
  BY <1>1 DEF RangesOK
<1> QED
  BY <1>4, <1>5 DEF Res

\* It consists of whole mappings, or of none.
LEMMA LegalToGive ==
  ASSUME IInv, BInv, NEW t \in Threads, NEW x, NEW n, Going(t, x, n),
         NEW r \in reserved, r.base = call[t].dptr, r.is = "owned"
  PROVE  /\ pc[t] \in {"d_retain", "d_unmap"} => FullyMapped(call[t].dptr, n) /\ Backing(call[t].dptr) # {}
         /\ pc[t] = "d_free" => Freeable(call[t].dptr, n)
<1>1. r.len = n /\ Res(call[t].dptr, n, "owned") \in reserved
  BY OwnedRange
<1>2. MappingsOK(mapped) /\ Claim \in [Claimants -> Ranges]
  BY TypeParts, ClaimsAreRanges DEF IInv
<1>3. Own(x) = Cells(call[t].dptr, n) /\ call[t].dptr \in Own(x) /\ n > 0 /\ <<t, "gone">> \in Claimants /\ Claim[<<t, "gone">>] = x
  BY DEF Going
<1>4. \A a \in Own(x) : \A m \in Backing(a) : m \in Here(mapped, x)
  <2>1. \A m \in mapped : Cells(m.base, m.len) \cap Own(x) # {} => m \in Here(mapped, x)
    BY <1>2, <1>3, Touching DEF BInv
  <2> QED
    BY <2>1 DEF Backing
<1>5. GoneOK(pc[t], call[t], Here(mapped, x), reserved)
  BY Was DEF GoneWas, Going
<1>6. ASSUME pc[t] \in {"d_retain", "d_unmap"} PROVE FullyMapped(call[t].dptr, n) /\ Backing(call[t].dptr) # {}
  <2>1. FullIn(Here(mapped, x), x)
    BY <1>1, <1>5, <1>6 DEF GoneOK, Going
  <2>2. \A a \in Own(x) : Backing(a) # {}
    BY <2>1 DEF FullIn, Here, Backing
  <2>3. Here(mapped, x) \subseteq Inside(call[t].dptr, n)
    BY <1>3 DEF Here, Inside
  <2> QED
    BY <1>3, <1>4, <2>2, <2>3 DEF FullyMapped
<1>7. ASSUME pc[t] = "d_free" PROVE Freeable(call[t].dptr, n)
  <2>1. Here(mapped, x) = {}
    BY <1>5, <1>7 DEF GoneOK
  <2> QED
    BY <1>1, <1>3, <1>4, <2>1 DEF Freeable
<1> QED
  BY <1>6, <1>7

\* Only a deleter's own steps end it.
LEMMA EndsItself ==
  ASSUME [Next]_vars, pc \in [Threads -> Steps], NEW t \in Threads, pc[t] \in {"d_retain", "d_unmap", "d_free"}, pc'[t] # pc[t]
  PROVE  DRetain(t) \/ DUnmap(t) \/ DFree(t)
<1>1. ASSUME NEW u \in Threads, NEW b \in Buffers, NEW n \in Sizes, Allocate(u, b, n) \/ Reaccess(u, b, n) PROVE FALSE
  BY <1>1 DEF Allocate, Reaccess, Begin, Goto
<1>2. ASSUME NEW u \in Threads, NEW b \in Buffers, NEW b2 \in Buffers, NEW n \in Sizes, Modify(u, b, b2, n) PROVE FALSE
  BY <1>2 DEF Modify, Begin, Goto
<1>3. ASSUME NEW u \in Threads, Probe(u) \/ ProbeFree(u) PROVE FALSE
  BY <1>3 DEF Probe, ProbeFree, Goto, Return
<1>4. ASSUME NEW u \in Threads, Reserve(u) \/ Retain(u) PROVE FALSE
  BY <1>4 DEF Reserve, Retain, Goto, Raise
<1>5. ASSUME NEW u \in Threads, UnmapOld(u) \/ MapOld(u) PROVE FALSE
  BY <1>5 DEF UnmapOld, MapOld, Goto, Raise
<1>6. ASSUME NEW u \in Threads, Create(u) \/ Map(u) PROVE FALSE
  BY <1>6 DEF Create, Map, Goto, Raise
<1>7. ASSUME NEW u \in Threads, Access(u) PROVE FALSE
  BY <1>7 DEF Access, Goto, Raise, Return
<1>8. ASSUME NEW u \in Threads, Rollback(u) \/ RolledBack(u) PROVE FALSE
  BY <1>8 DEF Rollback, RolledBack, Goto, Return
<1>9. ASSUME NEW u \in Threads, FreeOld(u) \/ Clear(u) \/ Moved(u) PROVE FALSE
  BY <1>9 DEF FreeOld, Clear, Moved, LetGo, Goto, Return
<1>10. ASSUME NEW u \in Threads, NEW b \in Buffers, Close(u, b) \/ DropGraph(u, b) PROVE FALSE
  BY <1>10 DEF Close, DropGraph, LetGo, Goto
<1>11. ASSUME NEW u \in Threads, DRetain(u) \/ DUnmap(u) \/ DFree(u) PROVE u = t
  BY <1>11 DEF DRetain, DUnmap, DFree, Refused, Deallocated, Goto, Return
<1>12. ASSUME NEW u \in Threads, DRelease(u) PROVE FALSE
  BY <1>12 DEF DRelease, Deallocated, Goto, Return
<1>13. ASSUME NEW b \in Buffers, Share(b) PROVE FALSE
  BY <1>13 DEF Share
<1>14. CASE UNCHANGED vars
  BY <1>14 DEF vars
<1> QED
  BY <1>1, <1>2, <1>3, <1>4, <1>5, <1>6, <1>7, <1>8, <1>9, <1>10, <1>11, <1>12, <1>13, <1>14 DEF Next

\* So the driver does not refuse it.
LEMMA NotRefused ==
  ASSUME IInv, BInv, [Next]_vars, NEW t \in Threads, pc[t] \in {"d_retain", "d_unmap", "d_free"}, ~Deallocating(t)',
         call[t].dsize % Gran = 0, NEW r \in reserved, r.base = call[t].dptr
  PROVE  r.is # "owned"
<1> SUFFICES ASSUME r.is = "owned" PROVE FALSE
  OBVIOUS
<1>1. pc \in [Threads -> Steps]
  BY Known
<1>2. pc'[t] # pc[t] /\ pc'[t] \notin {"d_retain", "d_unmap", "d_free", "d_release"}
  BY DEF Deallocating
<1>3. PICK x, n : Going(t, x, n)
  BY GoingRange
<1>4. n = Granules(call[t].dsize)
  BY <1>3 DEF Going
<1>5. CASE DRetain(t)
  <2>1. Backing(call[t].dptr) # {}
    BY <1>3, <1>5, LegalToGive DEF DRetain
  <2> QED
    BY <1>1, <1>2, <1>5, <2>1 DEF DRetain, Goto
<1>6. CASE DUnmap(t)
  <2>1. FullyMapped(call[t].dptr, n)
    BY <1>3, <1>6, LegalToGive DEF DUnmap
  <2> QED
    BY <1>1, <1>2, <1>4, <1>6, <2>1 DEF DUnmap, Goto
<1>7. CASE DFree(t)
  <2>1. Freeable(call[t].dptr, n)
    BY <1>3, <1>7, LegalToGive DEF DFree
  <2> QED
    BY <1>1, <1>2, <1>4, <1>7, <2>1 DEF DFree, Goto
<1> QED
  BY <1>1, <1>2, <1>5, <1>6, <1>7, EndsItself

-----------------------------------------------------------------------------
(* The theorems.                                                           *)

\* What holds of every place, in the terms of the properties.
LEMMA Consequences ==
  IInv /\ (recycled \/ BInv) => NothingStranded /\ OpenIsBacked /\ GrowthKeepsContents
<1>1. CASE recycled
  BY <1>1 DEF NothingStranded, OpenIsBacked, GrowthKeepsContents
<1>2. CASE IInv /\ BInv
  BY <1>2, Unstranded, OpenBacked, ContentsKept
<1> QED
  BY <1>1, <1>2

\* Transactions leave nothing behind, whatever fails: every reservation belongs
\* to a call or a box that will give it back, unless its loss was reported.
THEOREM StrandsNothing == Spec => []NothingStranded
  BY Places, Consequences, PTL

\* An open Buffer has all of its memory, mapped and accessible, unless its own
\* growth has got past unmapping it.
THEOREM BacksOpen == Spec => []OpenIsBacked
  BY Places, Consequences, PTL

\* A growth that has committed keeps what was written to the old Buffer.
THEOREM KeepsContents == Spec => []GrowthKeepsContents
  BY Places, Consequences, PTL

\* The driver never refuses to take back a range that a Buffer owned, of a size
\* that is a multiple of the granularity.
THEOREM RefusesNothing == Spec => NeverRefused
<1>1. IInv /\ (recycled \/ BInv) /\ [Next]_vars =>
        \/ recycled
        \/ \A t \in Threads :
             pc[t] \in {"d_retain", "d_unmap", "d_free"} /\ ~Deallocating(t)' =>
               \/ call[t].dsize % Gran # 0
               \/ \A r \in reserved : r.base = call[t].dptr => r.is # "owned"
  BY NotRefused
<1> QED
  BY <1>1, Places, PTL DEF Spec, NeverRefused

=============================================================================
