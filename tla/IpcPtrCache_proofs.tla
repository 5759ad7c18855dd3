-------------------------- MODULE IpcPtrCache_proofs --------------------------
(***************************************************************************)
(* Proofs about IpcPtrCache for any number of threads, descriptors and     *)
(* boxes, and for either driver: every import is freed exactly once, after *)
(* its last holder let go; and a held pointer is mapped unless it was      *)
(* imported while an earlier import of the allocation was not freed yet.   *)
(***************************************************************************)
EXTENDS IpcPtrCache, TLAPS

\* Types and ownership are inductive together: a thread's box is typed because
\* no other thread can dispose of it.
Inv == TypeOK /\ OneDeleterPerImport

\* No box exists at first.
LEMMA InvInit == Init => Inv
  BY NoneIsNothing DEF Init, Inv, TypeOK, OneDeleterPerImport, States, Steps

\* Every step keeps a box in the hands of one thread.
LEMMA InvNext == Inv /\ [Next]_vars => Inv'
<1> SUFFICES ASSUME Inv, [Next]_vars PROVE Inv'
  OBVIOUS
<1>n. None \notin Threads /\ None \notin Descriptors /\ None \notin Boxes
  BY NoneIsNothing
<1> USE DEF Inv, TypeOK, OneDeleterPerImport, BoxAt, States, Steps, Goto
<1>0. ASSUME NEW t \in Threads, box[t] # None
      PROVE  pc[t] \in {"bind", "dlock", "unregister", "free", "delete", "decref"}
  BY <1>0
<1>1. ASSUME NEW t \in Threads, TakeGil(t) PROVE Inv'
  BY <1>0, <1>1 DEF TakeGil
<1>2. ASSUME NEW t \in Threads, YieldGil(t) PROVE Inv'
  BY <1>2 DEF YieldGil
<1>3. ASSUME NEW t \in Threads, Lock(t) PROVE Inv'
  BY <1>3 DEF Lock
<1>4. ASSUME NEW t \in Threads, Unlock(t) PROVE Inv'
  BY <1>4 DEF Unlock
<1>5. ASSUME NEW t \in Threads, NEW d \in Descriptors, Import(t, d) PROVE Inv'
  BY <1>5 DEF Import, InPython, GilGuard
<1>6. ASSUME NEW t \in Threads, LookupHit(t) PROVE Inv'
  BY <1>6, <1>n DEF LookupHit, Hit, Alive
<1>7. ASSUME NEW t \in Threads, LookupMiss(t) PROVE Inv'
  BY <1>7 DEF LookupMiss
<1>8. ASSUME NEW t \in Threads, NEW b \in Boxes, DriverImport(t, b) PROVE Inv'
  BY SMTT(30), <1>8, <1>n DEF DriverImport
<1>9. ASSUME NEW t \in Threads, ImportFails(t) PROVE Inv'
  BY <1>9 DEF ImportFails, AfterFailure
<1>10. ASSUME NEW t \in Threads, NEW o \in BOOLEAN, Register(t, o) PROVE Inv'
  BY <1>10, <1>n DEF Register
<1>11. ASSUME NEW t \in Threads, BindFails(t) PROVE Inv'
  <2>1. /\ box[t] \in Boxes /\ state[box[t]] = "new" /\ holders[box[t]] = {}
        /\ \A u \in Threads : u # t => box[u] # box[t]
    BY <1>11, <1>n DEF BindFails
  <2>2. CASE DriverFree(box[t]) /\ state' = [state EXCEPT ![box[t]] = "none"]
             /\ key' = [key EXCEPT ![box[t]] = None]
    <3>1. TypeOK'
      BY <1>11, <2>1, <2>2, <1>n DEF BindFails, DriverFree
    <3>2. OneDeleterPerImport'
      BY <1>11, <2>1, <2>2, <1>n DEF BindFails
    <3> QED
      BY <3>1, <3>2
  <2>3. CASE state' = [state EXCEPT ![box[t]] = "leaked"] /\ UNCHANGED <<key, mapped>>
    <3>1. TypeOK'
      BY <1>11, <2>1, <2>3, <1>n DEF BindFails
    <3>2. OneDeleterPerImport'
      BY <1>11, <2>1, <2>3, <1>n DEF BindFails
    <3> QED
      BY <3>1, <3>2
  <2> QED
    BY <1>11, <2>2, <2>3 DEF BindFails
<1>12. ASSUME NEW t \in Threads, NEW b \in Boxes, Drop(t, b) PROVE Inv'
  <2>1. box[t] = None /\ \A u \in Threads : box[u] # b
    BY <1>12, <1>n DEF Drop, InPython
  <2>2. CASE holders[b] = {t}
    <3>1. TypeOK'
      <4>1. /\ state' = [state EXCEPT ![b] = "dying"]
            /\ holders' = [holders EXCEPT ![b] = @ \ {t}]
            /\ box' = [box EXCEPT ![t] = b]
            /\ pc' = [pc EXCEPT ![t] = "dlock"]
            /\ gil' = None
            /\ UNCHANGED <<mutex, cache, key, owned, mapped, again, arg>>
        BY <1>12, <2>2 DEF Drop
      <4>2. state[b] # "none"
        BY <2>2
      <4>3. /\ state' \in [Boxes -> States] /\ holders' \in [Boxes -> SUBSET Threads]
            /\ box' \in [Threads -> Boxes \cup {None}] /\ pc' \in [Threads -> Steps]
        BY <4>1
      <4> QED
        BY <4>1, <4>2, <4>3
    <3>2. state[b] = "live" /\ \A x \in Boxes :
             /\ state'[x] = IF x = b THEN "dying" ELSE state[x]
             /\ holders'[x] = IF x = b THEN {} ELSE holders[x]
      <4>1. holders[b] # {}
        BY <2>2
      <4>2. state' = [state EXCEPT ![b] = "dying"] /\ holders' = [holders EXCEPT ![b] = @ \ {t}]
        BY <1>12, <2>2 DEF Drop
      <4>3. state[b] = "live"
        BY <4>1
      <4>4. \A x \in Boxes : state'[x] = IF x = b THEN "dying" ELSE state[x]
        BY <4>2
      <4>5. \A x \in Boxes : holders'[x] = IF x = b THEN {} ELSE holders[x]
        <5>1. holders[b] \ {t} = {}
          BY <2>2
        <5>2. holders'[b] = holders[b] \ {t}
          BY <4>2
        <5>3. \A x \in Boxes : x # b => holders'[x] = holders[x]
          BY <4>2
        <5> QED
          BY <5>1, <5>2, <5>3
      <4> QED
        BY <4>3, <4>4, <4>5
    <3>3. \A u \in Threads :
             /\ pc'[u] = IF u = t THEN "dlock" ELSE pc[u]
             /\ box'[u] = IF u = t THEN b ELSE box[u]
      BY <1>12, <2>2 DEF Drop
    <3>4. \A u, v \in Threads : box'[u] # None /\ box'[u] = box'[v] => u = v
      BY <2>1, <3>3
    <3>5. \A u \in Threads : box'[u] # None => state'[box'[u]] \in BoxAt(u)'
      BY <2>1, <3>2, <3>3, <1>n
    <3>6. \A x \in Boxes :
             state'[x] \in {"new", "dying", "freed"} => \E u \in Threads : box'[u] = x
      BY <2>1, <3>2, <3>3, <1>n
    <3>7. \A x \in Boxes : holders'[x] # {} <=> state'[x] = "live"
      BY <3>2
    <3> QED
      BY <3>1, <3>4, <3>5, <3>6, <3>7
  <2>3. CASE holders[b] # {t}
    BY <1>12, <2>3 DEF Drop, InPython
  <2> QED
    BY <2>2, <2>3
<1>13. ASSUME NEW t \in Threads, NEW u \in Threads, NEW b \in Boxes, Share(t, u, b)
       PROVE  Inv'
  BY <1>13 DEF Share, InPython
<1>14. ASSUME NEW t \in Threads, Unregister(t) PROVE Inv'
  <2>1. box[t] \in Boxes /\ key[box[t]] \in Descriptors
    BY <1>14, <1>n DEF Unregister
  <2>2. /\ cache' = [cache EXCEPT ![key[box[t]]] = None]
        /\ pc' = [pc EXCEPT ![t] = "free"] /\ pc[t] = "unregister"
        /\ UNCHANGED <<gil, mutex, state, key, owned, holders, mapped, again, arg, box>>
    BY <1>14 DEF Unregister
  <2>3. TypeOK'
    BY <2>1, <2>2
  <2>4. OneDeleterPerImport'
    BY <2>1, <2>2
  <2> QED
    BY <2>3, <2>4
<1>15. ASSUME NEW t \in Threads, Free(t) PROVE Inv'
  <2>1. /\ box[t] \in Boxes /\ state[box[t]] = "dying" /\ holders[box[t]] = {}
        /\ key[box[t]] \in Descriptors
        /\ \A u \in Threads : u # t => box[u] # box[t]
    BY <1>15, <1>n DEF Free
  <2>2. TypeOK'
    BY <1>15, <2>1 DEF Free, DriverFree
  <2>3. \A u \in Threads : pc'[u] = IF u = t THEN "delete" ELSE pc[u]
    BY <1>15 DEF Free
  <2>4. \A b \in Boxes : state'[b] = IF b = box[t] THEN "freed" ELSE state[b]
    BY <1>15, <2>1 DEF Free
  <2>5. UNCHANGED <<box, holders>>
    BY <1>15 DEF Free
  <2>6. \A u \in Threads : box[u] # None => state'[box[u]] \in BoxAt(u)'
    BY <2>1, <2>3, <2>4, <2>5
  <2>7. \A b \in Boxes :
           state'[b] \in {"new", "dying", "freed"} => \E u \in Threads : box[u] = b
    BY <2>1, <2>4
  <2>8. \A b \in Boxes : holders[b] # {} <=> state'[b] = "live"
    BY <2>1, <2>4
  <2> QED
    BY <2>2, <2>5, <2>6, <2>7, <2>8
<1>16. ASSUME NEW t \in Threads, FreeFails(t) PROVE Inv'
  <2>1. /\ box[t] \in Boxes /\ state[box[t]] = "dying" /\ holders[box[t]] = {}
        /\ key[box[t]] \in Descriptors
        /\ \A u \in Threads : u # t => box[u] # box[t]
    BY <1>16, <1>n DEF FreeFails
  <2>2. TypeOK'
    BY <1>16, <2>1 DEF FreeFails
  <2>3. \A u \in Threads : pc'[u] = IF u = t THEN "delete" ELSE pc[u]
    BY <1>16 DEF FreeFails
  <2>4. \A b \in Boxes : state'[b] = IF b = box[t] THEN "leaked" ELSE state[b]
    BY <1>16, <2>1 DEF FreeFails
  <2>5. UNCHANGED <<box, holders>>
    BY <1>16 DEF FreeFails
  <2>6. \A u \in Threads : box[u] # None => state'[box[u]] \in BoxAt(u)'
    BY <2>1, <2>3, <2>4, <2>5
  <2>7. \A b \in Boxes :
           state'[b] \in {"new", "dying", "freed"} => \E u \in Threads : box[u] = b
    BY <2>1, <2>4
  <2>8. \A b \in Boxes : holders[b] # {} <=> state'[b] = "live"
    BY <2>1, <2>4
  <2> QED
    BY <2>2, <2>5, <2>6, <2>7, <2>8
<1>17. ASSUME NEW t \in Threads, Delete(t) PROVE Inv'
  BY <1>17, <1>n DEF Delete, Dispose
<1>18. ASSUME NEW t \in Threads, DeleteTakesGil(t) PROVE Inv'
  BY <1>18 DEF DeleteTakesGil
<1>19. ASSUME NEW t \in Threads, DecrefOwner(t) PROVE Inv'
  BY <1>19, <1>n DEF DecrefOwner, Dispose
<1>20. CASE UNCHANGED vars
  BY <1>20 DEF vars
<1> QED
  BY <1>1, <1>2, <1>3, <1>4, <1>5, <1>6, <1>7, <1>8, <1>9, <1>10, <1>11, <1>12,
     <1>13, <1>14, <1>15, <1>16, <1>17, <1>18, <1>19, <1>20
  DEF Next, ImportStep, DeleterStep

\* Types and ownership hold for any number of threads, descriptors and boxes:
\* every import is held, or in the hands of the one thread that builds or
\* deletes its box, and it is freed once, whatever calls fail.
THEOREM OneDeleter == Spec => [](TypeOK /\ OneDeleterPerImport)
  BY InvInit, InvNext, PTL DEF Spec, Inv

\* Every reachable state is well typed: a thread inside an import or a deleter
\* has the descriptor or the box it works on, and nobody else has its lock.
THEOREM TypeCorrect == Spec => []TypeOK
<1>1. TypeOK /\ OneDeleterPerImport => TypeOK
  OBVIOUS
<1> QED
  BY <1>1, OneDeleter, PTL

\* The critical section has one thread in it, and a thread that is about to
\* import has found no live handle of its descriptor.
Exclusive ==
    /\ \A t \in Threads : pc[t] \in Inside => mutex = t
    /\ \A t \in Threads : pc[t] = "import" =>
          \A b \in Boxes : key[b] = arg[t] => holders[b] = {} \/ again[b]

\* A box that was the only import of its descriptor is the only one for as long
\* as it lives: its entry stays in the cache, and nobody imports again.
Sole(b) ==
    /\ mapped[b]
    /\ state[b] = "live" => cache[key[b]] = b
    /\ \A c \in Boxes : c # b /\ key[c] = key[b] => state[c] \in {"none", "freed"}

SoleInv == \A b \in Boxes : state[b] \in {"new", "live"} /\ ~again[b] => Sole(b)

\* Every step keeps the critical section to one thread, and a miss shows that
\* no sole import of the descriptor is held.
LEMMA ExclusiveNext == Inv /\ Exclusive /\ SoleInv /\ [Next]_vars => Exclusive'
<1> SUFFICES ASSUME Inv, Exclusive, SoleInv, [Next]_vars PROVE Exclusive'
  OBVIOUS
<1>n. None \notin Threads /\ None \notin Descriptors /\ None \notin Boxes
  BY NoneIsNothing
<1> USE DEF Inv, TypeOK, Exclusive, Inside, Goto
<1>1. ASSUME NEW t \in Threads,
             TakeGil(t) \/ YieldGil(t) \/ Unlock(t) \/ DeleteTakesGil(t)
      PROVE  Exclusive'
  BY <1>1, <1>n DEF TakeGil, YieldGil, Unlock, DeleteTakesGil
<1>2. ASSUME NEW t \in Threads, Lock(t) PROVE Exclusive'
  BY <1>2, <1>n DEF Lock
<1>3. ASSUME NEW t \in Threads, NEW d \in Descriptors, Import(t, d) PROVE Exclusive'
  BY <1>3 DEF Import, InPython
<1>4. ASSUME NEW t \in Threads, LookupHit(t) \/ ImportFails(t) \/ Unregister(t)
      PROVE  Exclusive'
  BY <1>4, <1>n DEF LookupHit, ImportFails, AfterFailure, Unregister
<1>5. ASSUME NEW t \in Threads, LookupMiss(t) PROVE Exclusive'
  <2>1. \A b \in Boxes : key[b] = arg[t] => holders[b] = {} \/ again[b]
    BY <1>5, <1>n DEF LookupMiss, Hit, Alive, SoleInv, Sole, OneDeleterPerImport
  <2>2. /\ pc' = [pc EXCEPT ![t] = "import"] /\ pc[t] = "lookup"
        /\ UNCHANGED <<mutex, key, arg, holders, again>>
    BY <1>5 DEF LookupMiss
  <2>3. \A u \in Threads : pc'[u] \in Inside => mutex' = u
    BY <2>2
  <2>4. \A u \in Threads : pc'[u] = "import" => u = t
    BY <2>2, <2>3
  <2> QED
    BY <2>1, <2>2, <2>3, <2>4
<1>6. ASSUME NEW t \in Threads, NEW b \in Boxes, DriverImport(t, b) PROVE Exclusive'
  BY <1>6 DEF DriverImport
<1>7. ASSUME NEW t \in Threads, NEW o \in BOOLEAN, Register(t, o) PROVE Exclusive'
  BY <1>7, <1>n DEF Register
<1>8. ASSUME NEW t \in Threads, BindFails(t) PROVE Exclusive'
  BY <1>8, <1>n DEF BindFails
<1>9. ASSUME NEW t \in Threads, NEW b \in Boxes, Drop(t, b) PROVE Exclusive'
  BY <1>9 DEF Drop, InPython
<1>10. ASSUME NEW t \in Threads, NEW u \in Threads, NEW b \in Boxes, Share(t, u, b)
       PROVE  Exclusive'
  BY <1>10 DEF Share, InPython
<1>11. ASSUME NEW t \in Threads, Free(t) \/ FreeFails(t) PROVE Exclusive'
  BY <1>11 DEF Free, FreeFails
<1>12. ASSUME NEW t \in Threads, Delete(t) \/ DecrefOwner(t) PROVE Exclusive'
  BY <1>12, <1>n DEF Delete, DecrefOwner, Dispose
<1>13. CASE UNCHANGED vars
  BY <1>13 DEF vars
<1> QED
  BY <1>1, <1>2, <1>3, <1>4, <1>5, <1>6, <1>7, <1>8, <1>9, <1>10, <1>11, <1>12, <1>13
  DEF Next, ImportStep, DeleterStep

\* Every step leaves the only import of a descriptor alone and mapped.
LEMMA SoleNext == Inv /\ Inv' /\ Exclusive /\ SoleInv /\ [Next]_vars => SoleInv'
<1> SUFFICES ASSUME Inv, Inv', Exclusive, SoleInv, [Next]_vars PROVE SoleInv'
  OBVIOUS
<1>n. None \notin Threads /\ None \notin Descriptors /\ None \notin Boxes
  BY NoneIsNothing
<1> USE DEF Inv, TypeOK, SoleInv, Sole
<1>1. ASSUME NEW t \in Threads,
             TakeGil(t) \/ YieldGil(t) \/ Lock(t) \/ Unlock(t) \/ LookupHit(t)
               \/ ImportFails(t) \/ DeleteTakesGil(t)
      PROVE  SoleInv'
  BY <1>1 DEF TakeGil, YieldGil, Lock, Unlock, LookupHit, ImportFails, DeleteTakesGil
<1>2. ASSUME NEW t \in Threads,
             (\E d \in Descriptors : Import(t, d))
               \/ (\E b \in Boxes : \E u \in Threads : Share(t, u, b))
      PROVE  SoleInv'
  BY <1>2 DEF Import, Share
<1>3. ASSUME NEW t \in Threads, LookupMiss(t) PROVE SoleInv'
  \* The entry of a live box is never the one that expired.
  BY <1>3, <1>n DEF LookupMiss, Hit, Alive, OneDeleterPerImport
<1>4. ASSUME NEW t \in Threads, NEW b \in Boxes, DriverImport(t, b) PROVE SoleInv'
  <2>1. SUFFICES ASSUME NEW c \in Boxes, state'[c] \in {"new", "live"}, ~again'[c]
                 PROVE  Sole(c)'
    OBVIOUS
  <2>2. CASE c = b
    <3>1. Imported(arg[t]) = {}
      BY <1>4, <2>1, <2>2 DEF DriverImport
    <3> QED
      BY <1>4, <2>2, <3>1 DEF DriverImport, Imported, States
  <2>3. CASE c # b
    <3>1. Sole(c) /\ state[c] = state'[c] /\ ~again[c] /\ key[c] = key'[c]
      BY <1>4, <2>1, <2>3 DEF DriverImport
    <3>2. key[c] # arg[t]
      <4>1. CASE state[c] = "live"
        BY <1>4, <3>1, <4>1 DEF DriverImport, Exclusive, OneDeleterPerImport
      <4>2. CASE state[c] = "new"
        \* The thread that builds it would be in the critical section too.
        <5>1. PICK u \in Threads : box[u] = c
          BY <4>2 DEF OneDeleterPerImport
        <5>2. "new" \in BoxAt(u)
          BY <4>2, <5>1, <1>n DEF OneDeleterPerImport
        <5>3. pc[u] = "bind"
          BY <5>2 DEF BoxAt, Steps
        <5> QED
          BY <1>4, <5>3 DEF DriverImport, Exclusive, Inside
      <4> QED
        BY <2>1, <3>1, <4>1, <4>2
    <3> QED
      BY <1>4, <2>3, <3>1, <3>2 DEF DriverImport
  <2> QED
    BY <2>2, <2>3
<1>5. ASSUME NEW t \in Threads, NEW o \in BOOLEAN, Register(t, o) PROVE SoleInv'
  <2>1. box[t] \in Boxes /\ state[box[t]] = "new" /\ key[box[t]] \in Descriptors
    BY <1>5, <1>n DEF Register, OneDeleterPerImport, BoxAt
  <2> QED
    BY <1>5, <2>1 DEF Register
<1>6. ASSUME NEW t \in Threads, BindFails(t) PROVE SoleInv'
  <2>1. box[t] \in Boxes /\ state[box[t]] = "new" /\ key[box[t]] \in Descriptors
    BY <1>6, <1>n DEF BindFails, OneDeleterPerImport, BoxAt
  <2> QED
    BY <1>6, <1>n, <2>1 DEF BindFails, DriverFree
<1>7. ASSUME NEW t \in Threads, NEW b \in Boxes, Drop(t, b) PROVE SoleInv'
  BY <1>7 DEF Drop, OneDeleterPerImport
<1>8. ASSUME NEW t \in Threads, Unregister(t) PROVE SoleInv'
  <2>1. box[t] \in Boxes /\ state[box[t]] = "dying" /\ key[box[t]] \in Descriptors
    BY <1>8, <1>n DEF Unregister, OneDeleterPerImport, BoxAt
  <2> QED
    BY <1>8, <2>1 DEF Unregister
<1>9. ASSUME NEW t \in Threads, Free(t) \/ FreeFails(t) PROVE SoleInv'
  <2>1. box[t] \in Boxes /\ state[box[t]] = "dying" /\ key[box[t]] \in Descriptors
    BY <1>9, <1>n DEF Free, FreeFails, OneDeleterPerImport, BoxAt
  <2> QED
    BY <1>9, <2>1 DEF Free, FreeFails, DriverFree
<1>10. ASSUME NEW t \in Threads, Delete(t) \/ DecrefOwner(t) PROVE SoleInv'
  <2>1. box[t] \in Boxes /\ state[box[t]] \in {"freed", "leaked"}
    BY <1>10, <1>n DEF Delete, DecrefOwner, OneDeleterPerImport, BoxAt
  <2> QED
    BY <1>10, <1>n, <2>1 DEF Delete, DecrefOwner, Dispose
<1>11. CASE UNCHANGED vars
  BY <1>11 DEF vars
<1> QED
  BY <1>1, <1>2, <1>3, <1>4, <1>5, <1>6, <1>7, <1>8, <1>9, <1>10, <1>11
  DEF Next, ImportStep, DeleterStep

\* For any number of threads, descriptors and boxes, and whether or not one
\* free unmaps every import of the allocation (nvbug 5570902): a held pointer is
\* mapped unless it was imported while an earlier import was not freed yet.
THEOREM SoleImportIsMapped == Spec => []MappedUnlessImportedAgain
<1>1. Init => Inv /\ Exclusive /\ SoleInv
  BY InvInit DEF Init, Exclusive, Inside, SoleInv
<1>2. Inv /\ Exclusive /\ SoleInv /\ [Next]_vars => (Inv /\ Exclusive /\ SoleInv)'
  BY InvNext, ExclusiveNext, SoleNext
<1>3. Inv /\ Exclusive /\ SoleInv => MappedUnlessImportedAgain
  BY DEF Inv, OneDeleterPerImport, SoleInv, Sole, MappedUnlessImportedAgain
<1> QED
  BY <1>1, <1>2, <1>3, PTL DEF Spec
=============================================================================
