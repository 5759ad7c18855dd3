---------------------- MODULE GraphBuilderCapture_proofs ----------------------
(***************************************************************************)
(* Proofs about GraphBuilderCapture for any number of builders, streams    *)
(* and graphs, whatever calls fail.  Whether or not builders share a       *)
(* stream, none is left in a capture that no builder can end, and no graph *)
(* leaks; where they do not, handles, states and captures agree.           *)
(***************************************************************************)
EXTENDS GraphBuilderCapture, TLAPS

\* Everything is well typed at first.
LEMMA TypeInit == Init => TypeOK
  BY DEF Init, TypeOK, Kinds, States

\* What Release does to the types, whatever capture ends.
LEMMA ReleaseTypes ==
  ASSUME TypeOK, NEW e, e.dead \subseteq Graphs, NEW h \in [Builders -> Graphs \cup {None}],
         NEW v \in SUBSET Graphs, NEW rch \in [Streams -> SUBSET Streams],
         Release(e, h, v, rch)
  PROVE  /\ handle' = h /\ view' = v
         /\ graph' \in [Graphs -> {"unused", "exists", "destroyed"}]
         /\ top' \in [Graphs -> Graphs]
         /\ capture' \in [Streams -> Graphs \cup {None}]
         /\ origin' \in [Graphs -> Streams \cup {None}]
         /\ reach' \in [Streams -> SUBSET Streams]
         /\ invalid' \subseteq Graphs /\ tied' \subseteq Graphs /\ unread' \subseteq Graphs
         /\ broken' \subseteq Graphs /\ again' \subseteq Graphs
<1>1. /\ handle' = h /\ view' = v
      /\ top' = top /\ origin' = origin /\ invalid' = invalid /\ tied' = tied /\ unread' = unread
  BY DEF Release
<1>2. graph' \in [Graphs -> {"unused", "exists", "destroyed"}]
  <2> DEFINE hit(g) == g \in e.dead \/ (top[g] \in Held(handle, view) \ Held(h, v)
                                         /\ graph[g] = "exists" /\ g \notin e.dead)
  <2>1. graph' = [g \in Graphs |-> IF hit(g) THEN "destroyed" ELSE graph[g]]
    BY DEF Release
  <2> QED
    BY <2>1 DEF TypeOK
<1>3. capture' \in [Streams -> Graphs \cup {None}]
  BY DEF Release, TypeOK
<1>4. reach' \in [Streams -> SUBSET Streams]
  BY DEF Release
<1>5. broken' \subseteq Graphs
  BY DEF Release, TypeOK
<1>6. again' \subseteq Graphs
  <2>1. Held(handle, view) \subseteq Graphs
    BY NoneIsNothing DEF Held, TypeOK
  <2>2. again' \subseteq again \cup Held(handle, view)
    BY DEF Release
  <2> QED
    BY <2>1, <2>2 DEF TypeOK
<1> QED
  BY <1>1, <1>2, <1>3, <1>4, <1>5, <1>6 DEF TypeOK

\* Ending a capture kills graphs only.
LEMMA EndCaptureDead == ASSUME NEW s PROVE EndCapture(s).dead \subseteq Graphs
  BY DEF EndCapture

\* Ending no capture kills nothing.
LEMMA NoEndDead == NoEnd.dead \subseteq Graphs
  BY DEF NoEnd

\* The part of TypeOK that Release does not touch.
BuilderTypes ==
    /\ kind \in [Builders -> Kinds] /\ state \in [Builders -> States]
    /\ stream \in [Builders -> Streams \cup {None}]
    /\ failed \subseteq Builders /\ stranded \subseteq Graphs
    /\ \A b \in Builders : stream[b] # None <=> state[b] \in {"not_started", "capturing", "ended"}

\* Types of what a released builder leaves.
LEMMA TypesOfRelease ==
  ASSUME TypeOK, NEW e, e.dead \subseteq Graphs, NEW h \in [Builders -> Graphs \cup {None}],
         NEW v \in SUBSET Graphs, NEW rch \in [Streams -> SUBSET Streams],
         Release(e, h, v, rch), BuilderTypes'
  PROVE  TypeOK'
<1>1. /\ handle' = h /\ view' = v
      /\ graph' \in [Graphs -> {"unused", "exists", "destroyed"}]
      /\ top' \in [Graphs -> Graphs]
      /\ capture' \in [Streams -> Graphs \cup {None}]
      /\ origin' \in [Graphs -> Streams \cup {None}]
      /\ reach' \in [Streams -> SUBSET Streams]
      /\ invalid' \subseteq Graphs /\ tied' \subseteq Graphs /\ unread' \subseteq Graphs
      /\ broken' \subseteq Graphs /\ again' \subseteq Graphs
  BY ReleaseTypes
<1> QED
  BY <1>1 DEF TypeOK, BuilderTypes

\* Every step keeps the types.
LEMMA TypeNext == TypeOK /\ [Next]_vars => TypeOK'
<1> SUFFICES ASSUME TypeOK, [Next]_vars PROVE TypeOK'
  OBVIOUS
<1>n. None \notin Streams /\ None \notin Graphs
  BY NoneIsNothing
<1>h. ASSUME NEW b \in Builders
      PROVE  [handle EXCEPT ![b] = None] \in [Builders -> Graphs \cup {None}]
  BY DEF TypeOK
<1>d. ASSUME NEW b \in Builders PROVE EndIfNeeded(b).dead \subseteq Graphs
  BY EndCaptureDead, NoEndDead DEF EndIfNeeded
<1>c. ASSUME NEW s \in Streams PROVE Captured(s) \in [Streams -> SUBSET Streams]
  BY DEF Captured, TypeOK
<1>b. ASSUME NEW f \in Builders, NEW k \in Kinds, NEW st \in {"not_started", "capturing"},
             NEW s \in Streams, NEW g \in Graphs \cup {None}, Born(f, k, st, s, g), UNCHANGED <<failed, stranded>>
      PROVE  BuilderTypes' /\ handle' \in [Builders -> Graphs \cup {None}]
  BY <1>n, <1>b DEF Born, TypeOK, BuilderTypes, States
<1>v. ASSUME NEW b \in Builders, NEW st \in {"closed", "dropped"},
             state' = [state EXCEPT ![b] = st], stream' = [stream EXCEPT ![b] = None],
             UNCHANGED <<kind, failed>>, stranded' \subseteq Graphs
      PROVE  BuilderTypes'
  BY <1>v DEF TypeOK, BuilderTypes, States
<1>1. ASSUME NEW b \in Builders, NEW s \in Streams, Create(b, s) PROVE TypeOK'
  <2>1. BuilderTypes' /\ handle' \in [Builders -> Graphs \cup {None}]
    BY <1>1, <1>b DEF Create, Kinds, history
  <2> QED
    BY <2>1, <1>1 DEF Create, TypeOK, BuilderTypes, driver, history
<1>2. ASSUME NEW b \in Builders, NEW f \in Builders, NEW s \in Streams, Split(b, f, s) PROVE TypeOK'
  <2>1. stream[b] \in Streams
    BY <1>2 DEF Split, TypeOK
  <2>2. BuilderTypes' /\ handle' \in [Builders -> Graphs \cup {None}]
    BY <1>2, <1>b DEF Split, Kinds, history, TypeOK
  <2>3. capture' \in [Streams -> Graphs \cup {None}] /\ reach' \in [Streams -> SUBSET Streams]
    BY <1>2, <2>1 DEF Split, TypeOK
  <2> QED
    BY <2>2, <2>3, <1>2 DEF Split, TypeOK, BuilderTypes, history
<1>3. ASSUME NEW b \in Builders, NEW f \in Builders, NEW s \in Streams, NEW g \in Graphs,
             Conditional(b, f, s, g)
      PROVE  TypeOK'
  <2>1. stream[b] \in Streams
    BY <1>3 DEF Conditional, Open, TypeOK, States
  <2>2. capture[stream[b]] \in Graphs
    BY <1>3, <2>1 DEF Conditional, Active, TypeOK
  <2>3. BuilderTypes' /\ handle' \in [Builders -> Graphs \cup {None}]
    BY <1>3, <1>b DEF Conditional, Kinds, history
  <2>4. /\ top' \in [Graphs -> Graphs] /\ reach' \in [Streams -> SUBSET Streams]
        /\ graph' \in [Graphs -> {"unused", "exists", "destroyed"}]
    BY <1>3, <2>1, <2>2, <1>c DEF Conditional, TypeOK
  <2> QED
    BY <2>3, <2>4, <1>3 DEF Conditional, TypeOK, BuilderTypes, history
<1>4. ASSUME NEW b \in Builders, NEW g \in Graphs, NEW ok \in BOOLEAN, Begin(b, g, ok) PROVE TypeOK'
  <2>1. stream[b] \in Streams
    BY <1>4 DEF Begin, BeginCapture, TypeOK
  <2>2. /\ state' = [state EXCEPT ![b] = "capturing"]
        /\ handle' \in [Builders -> Graphs \cup {None}]
    BY <1>4 DEF Begin, Begun, Adopted, TypeOK
  <2> QED
    BY <2>1, <2>2, <1>4 DEF Begin, BeginCapture, TypeOK, States
<1>5. ASSUME NEW b \in Builders, BeginBody(b) PROVE TypeOK'
  <2>1. stream[b] \in Streams /\ handle[b] \in Graphs
    BY <1>5 DEF BeginBody, BeginCapture, TypeOK
  <2> QED
    BY <2>1, <1>5 DEF BeginBody, BeginCapture, TypeOK, States
<1>6. ASSUME NEW b \in Builders, Record(b) PROVE TypeOK'
  <2>1. stream[b] \in Streams
    BY <1>6 DEF Record, Open, TypeOK, States
  <2> QED
    BY <2>1, <1>6, <1>c DEF Record, TypeOK, builder, history
<1>7. ASSUME NEW g \in Graphs, Invalidate(g) PROVE TypeOK'
  BY <1>7 DEF Invalidate, TypeOK, builder, history
<1>8. ASSUME NEW b \in Builders, End(b) PROVE TypeOK'
  <2>1. state[b] \in {"not_started", "capturing", "ended"}
    BY <1>8 DEF End, Open, TypeOK, States
  <2>2. state' = [state EXCEPT ![b] = AfterEnd(b, EndCapture(stream[b]).ok)]
    BY <1>8 DEF End
  <2>3. AfterEnd(b, EndCapture(stream[b]).ok) \in {"not_started", "capturing", "ended"}
    BY <2>1 DEF AfterEnd
  <2>4. BuilderTypes'
    BY <1>8, <2>1, <2>2, <2>3 DEF End, BuilderTypes, TypeOK, States
  <2>5. Release(EndCapture(stream[b]), handle, view, reach)
    BY <1>8 DEF End
  <2> QED
    BY <2>4, <2>5, EndCaptureDead, TypesOfRelease DEF TypeOK
<1>9. ASSUME NEW b \in Builders, Close(b) PROVE TypeOK'
  <2>1. CASE EndIfNeeded(b).ok /\ Dispose(b, "closed", EndIfNeeded(b))
    <3>1. BuilderTypes'
      BY <1>9, <2>1, <1>v DEF Close, Dispose, TypeOK
    <3>2. Release(EndIfNeeded(b), [handle EXCEPT ![b] = None], view, reach)
      BY <2>1 DEF Dispose
    <3> QED
      BY <3>1, <3>2, <1>d, <1>h, TypesOfRelease DEF TypeOK
  <2>2. CASE /\ failed' = failed \cup {b}
             /\ Release(EndIfNeeded(b), handle, view, reach)
             /\ UNCHANGED <<kind, state, stream>>
    <3>1. BuilderTypes'
      BY <1>9, <2>2 DEF Close, BuilderTypes, TypeOK
    <3> QED
      BY <3>1, <2>2, <1>d, TypesOfRelease DEF TypeOK
  <2> QED
    BY <2>1, <2>2, <1>9 DEF Close
<1>10. ASSUME NEW b \in Builders, Dealloc(b) PROVE TypeOK'
  <2>1. Dispose(b, "dropped", EndIfNeeded(b))
    BY <1>10 DEF Dealloc, EndsOnDealloc
  <2>2. BuilderTypes'
    BY <1>10, <2>1, <1>v DEF Dealloc, Dispose, TypeOK
  <2>3. Release(EndIfNeeded(b), [handle EXCEPT ![b] = None], view, reach)
    BY <2>1 DEF Dispose
  <2> QED
    BY <2>2, <2>3, <1>d, <1>h, TypesOfRelease DEF TypeOK
<1>15. ASSUME NEW b \in Builders, Strand(b) PROVE TypeOK'
  <2>1. Dispose(b, "dropped", NoEnd) /\ stranded' \subseteq Graphs
    BY <1>15 DEF Strand, TypeOK
  <2>2. BuilderTypes'
    BY <2>1, <1>v DEF Dispose
  <2>3. Release(NoEnd, [handle EXCEPT ![b] = None], view, reach)
    BY <2>1 DEF Dispose
  <2> QED
    BY <2>2, <2>3, <1>h, NoEndDead, TypesOfRelease DEF TypeOK
<1>11. ASSUME NEW r \in Builders, NEW b \in Builders, Join(r, b) PROVE TypeOK'
  <2>1. stream[r] \in Streams /\ stream[b] \in Streams
    BY <1>11 DEF Join, Open, TypeOK, States
  <2>2. Joined(r, b) \in [Streams -> SUBSET Streams]
    BY <2>1 DEF Joined, TypeOK
  <2>3. BuilderTypes'
    BY <1>11, <1>v DEF Join, TypeOK
  <2>4. Release(NoEnd, [handle EXCEPT ![b] = None], view, Joined(r, b))
    BY <1>11 DEF Join
  <2> QED
    BY <2>2, <2>3, <2>4, <1>h, NoEndDead, TypesOfRelease DEF TypeOK
<1>12. ASSUME NEW b \in Builders, View(b) PROVE TypeOK'
  BY <1>12 DEF View, TypeOK, builder, driver, history
<1>13. ASSUME NEW g \in Graphs, DropView(g) PROVE TypeOK'
  <2>1. BuilderTypes'
    BY <1>13 DEF DropView, BuilderTypes, TypeOK
  <2>2. Release(NoEnd, handle, view \ {g}, reach)
    BY <1>13 DEF DropView
  <2> QED
    BY <2>1, <2>2, NoEndDead, TypesOfRelease DEF TypeOK
<1>14. CASE UNCHANGED vars
  BY <1>14 DEF vars, builder, driver, history, TypeOK
<1> QED
  BY <1>1, <1>2, <1>3, <1>4, <1>5, <1>6, <1>7, <1>8, <1>9, <1>10, <1>11, <1>12, <1>13, <1>14, <1>15 DEF Next

\* Type correctness of the builders' and the driver's state; among it that
\* exactly the open builders have a stream.
THEOREM TypeCorrect == Spec => []TypeOK
  BY TypeInit, TypeNext, PTL DEF Spec

-----------------------------------------------------------------------------
(* NoPoisonedStream is not inductive: a conditional body that begins its   *)
(* capture must not take over the graph of another.  So the invariant also *)
(* says that bodies have graphs of their own, that nobody captures into    *)
(* the graph of a body yet to begin, and that a graph in use is not new.   *)
(* The owner of a capture has a handle to the graph or could not read it;  *)
(* only a stranded one has no owner.                                       *)

Owns(b, g) == stream[b] = origin[g] /\ OwnsCapture(b) /\ (handle[b] = g \/ g \in unread)

Owned ==
    \A s \in Streams : capture[s] # None =>
        /\ origin[capture[s]] \in Streams
        /\ capture[origin[capture[s]]] = capture[s]
        /\ capture[s] \in stranded \/ \E b \in Builders : Owns(b, capture[s])

BodiesApart ==
    \A b, c \in Builders :
        kind[b] = "conditional_body" /\ kind[c] = "conditional_body" /\ handle[b] = handle[c] /\ handle[b] # None
        => b = c

BodiesWait ==
    \A b \in Builders : kind[b] = "conditional_body" /\ state[b] = "not_started" /\ handle[b] # None =>
        \A s \in Streams : capture[s] # handle[b]

NotNew ==
    /\ \A s \in Streams : capture[s] # None => graph[capture[s]] # "unused"
    /\ \A b \in Builders : handle[b] # None => graph[handle[b]] # "unused"

Inv == Owned /\ BodiesApart /\ BodiesWait /\ NotNew

\* A stream that cuStreamEndCapture leaves in a capture is not in one that
\* began on s.
LEMMA EndLeaves ==
  ASSUME TypeOK, Owned, NEW s \in Streams, NEW t \in Streams,
         capture[t] # None, t \notin EndCapture(s).left
  PROVE  origin[capture[t]] # s
<1> SUFFICES ASSUME origin[capture[t]] = s PROVE FALSE
  OBVIOUS
<1>1. capture[s] = capture[t]
  BY DEF Owned
<1>2. EndCapture(s).left = Members(capture[t])
  BY <1>1 DEF EndCapture
<1> QED
  BY <1>2 DEF Members

\* Steps that end whole captures and let go of handles: a builder may stop
\* owning a capture if none that began on its stream goes on, or is stranded.
LEMMA ReleaseInv ==
  ASSUME TypeOK, Inv, NEW b \in Builders,
         NEW e, NEW h \in [Builders -> Graphs \cup {None}], NEW v, NEW rch, Release(e, h, v, rch),
         \A x \in Builders : h[x] \in {handle[x], None},
         kind' = kind, stranded \subseteq stranded',
         \A x \in Builders \ {b} : state'[x] = state[x] /\ stream'[x] = stream[x] /\ h[x] = handle[x],
         state'[b] = "not_started" => state[b] = "not_started",
         e.left = {} \/ \E g \in Graphs : e.left = Members(g),
         \/ state'[b] = state[b] /\ stream'[b] = stream[b] /\ h[b] = handle[b]
         \/ ~OwnsCapture(b)
         \/ \A t \in Streams \ e.left : capture[t] # None => origin[capture[t]] # stream[b]
         \/ \A t \in Streams : capture[t] # None /\ origin[capture[t]] = stream[b] => capture[t] \in stranded'
  PROVE  Inv'
<1>1. /\ handle' = h /\ origin' = origin /\ unread' = unread
      /\ capture' = [t \in Streams |-> IF t \in e.left THEN None ELSE capture[t]]
  BY DEF Release
<1>2. \A g \in Graphs : graph[g] # "unused" => graph'[g] # "unused"
  <2> DEFINE hit(g) == g \in e.dead \/ (top[g] \in Held(handle, view) \ Held(h, v)
                                         /\ graph[g] = "exists" /\ g \notin e.dead)
  <2>1. graph' = [g \in Graphs |-> IF hit(g) THEN "destroyed" ELSE graph[g]]
    BY DEF Release
  <2> QED
    BY <2>1
<1>3. \A s \in Streams : capture'[s] # None => s \notin e.left /\ capture'[s] = capture[s] /\ capture[s] \in Graphs
  BY <1>1 DEF TypeOK
<1>4. NotNew'
  BY <1>1, <1>2, <1>3 DEF NotNew, Inv, TypeOK
<1>5. BodiesApart'
  BY <1>1 DEF BodiesApart, Inv
<1>6. BodiesWait'
  <2> SUFFICES ASSUME NEW x \in Builders, kind[x] = "conditional_body", state'[x] = "not_started",
                      h[x] # None, NEW s \in Streams
               PROVE  capture'[s] # h[x]
    BY <1>1 DEF BodiesWait
  <2>1. state[x] = "not_started" /\ h[x] = handle[x]
    OBVIOUS
  <2> QED
    BY <2>1, <1>3 DEF BodiesWait, Inv
<1>7. Owned'
  <2> SUFFICES ASSUME NEW s \in Streams, capture'[s] # None
               PROVE  /\ origin[capture[s]] \in Streams
                      /\ capture'[origin[capture[s]]] = capture[s]
                      /\ capture[s] \in stranded' \/ \E x \in Builders : Owns(x, capture[s])'
    BY <1>1, <1>3 DEF Owned, Owns
  <2> DEFINE g == capture[s]
             o == origin[g]
  <2>1. /\ s \notin e.left /\ g \in Graphs /\ o \in Streams /\ capture[o] = g
    BY <1>3 DEF Owned, Inv
  <2>2. o \notin e.left
    BY <2>1 DEF Members
  <2>3. capture'[o] = g
    BY <1>1, <2>1, <2>2
  <2>4. g \in stranded \/ \E x \in Builders : Owns(x, g)
    BY <1>3 DEF Owned, Inv
  <2>5. ASSUME NEW x \in Builders, Owns(x, g), g \notin stranded' PROVE Owns(x, capture[s])'
    <3>1. state'[x] = state[x] /\ stream'[x] = stream[x] /\ h[x] = handle[x]
      BY <2>1, <2>5, <1>3 DEF Owns
    <3> QED
      BY <1>1, <1>3, <2>5, <3>1 DEF Owns, OwnsCapture
  <2> QED
    BY <2>1, <2>3, <2>4, <2>5
<1> QED
  BY <1>4, <1>5, <1>6, <1>7 DEF Inv

\* What cuStreamEndCapture leaves is a whole capture, or nothing.
LEMMA EndsWhole ==
  ASSUME TypeOK, NEW s \in Streams
  PROVE  EndCapture(s).left = {} \/ \E g \in Graphs : EndCapture(s).left = Members(g)
  BY DEF EndCapture, TypeOK

\* Nothing captures at first.
LEMMA InvInit == Init => Inv
  BY DEF Init, Inv, Owned, BodiesApart, BodiesWait, NotNew

\* Every step keeps an open builder for every capture.
LEMMA InvNext == TypeOK /\ Inv /\ [Next]_vars => Inv'
<1> SUFFICES ASSUME TypeOK, Inv, [Next]_vars PROVE Inv'
  OBVIOUS
<1>n. None \notin Streams /\ None \notin Graphs
  BY NoneIsNothing
<1>o. ASSUME NEW b \in Builders, Open(b) PROVE stream[b] \in Streams
  BY <1>o DEF Open, TypeOK, States
<1>h. ASSUME NEW b \in Builders
      PROVE  /\ [handle EXCEPT ![b] = None] \in [Builders -> Graphs \cup {None}]
             /\ \A x \in Builders : [handle EXCEPT ![b] = None][x] \in {handle[x], None}
             /\ \A x \in Builders \ {b} : [handle EXCEPT ![b] = None][x] = handle[x]
             /\ handle \in [Builders -> Graphs \cup {None}]
             /\ \A x \in Builders : handle[x] \in {handle[x], None}
  BY DEF TypeOK
\* A builder that is disposed of ends what it owns.
<1>e. ASSUME NEW b \in Builders, Open(b)
      PROVE  /\ EndIfNeeded(b).left = {} \/ \E g \in Graphs : EndIfNeeded(b).left = Members(g)
             /\ \/ ~OwnsCapture(b)
                \/ \A t \in Streams \ EndIfNeeded(b).left : capture[t] # None => origin[capture[t]] # stream[b]
  <2>1. CASE OwnsCapture(b)
    <3>1. EndIfNeeded(b) = EndCapture(stream[b]) /\ stream[b] \in Streams
      BY <2>1, <1>o, <1>e DEF EndIfNeeded
    <3> QED
      BY <3>1, EndsWhole, EndLeaves DEF Inv
  <2>2. CASE ~OwnsCapture(b)
    BY <2>2 DEF EndIfNeeded, NoEnd
  <2> QED
    BY <2>1, <2>2
<1>d. ASSUME NEW b \in Builders, NEW st \in {"closed", "dropped"},
             state' = [state EXCEPT ![b] = st], stream' = [stream EXCEPT ![b] = None]
      PROVE  /\ \A x \in Builders \ {b} : state'[x] = state[x] /\ stream'[x] = stream[x]
             /\ state'[b] = st
  BY <1>d DEF TypeOK
<1>1. ASSUME NEW b \in Builders, NEW s \in Streams, Create(b, s) PROVE Inv'
  <2>1. /\ state[b] = "unborn" /\ kind'[b] = "primary" /\ handle'[b] = None
        /\ \A x \in Builders \ {b} : kind'[x] = kind[x] /\ handle'[x] = handle[x] /\ state'[x] = state[x]
                                    /\ stream'[x] = stream[x]
        /\ UNCHANGED <<capture, origin, graph, unread, stranded>>
    BY <1>1 DEF Create, Born, driver, history, TypeOK
  <2>2. Owned'
    BY <2>1 DEF Owned, Owns, Inv, OwnsCapture
  <2> QED
    BY <2>1, <2>2 DEF Inv, BodiesApart, BodiesWait, NotNew
<1>2. ASSUME NEW b \in Builders, NEW f \in Builders, NEW s \in Streams, Split(b, f, s) PROVE Inv'
  <2>1. /\ state[f] = "unborn" /\ kind'[f] = "forked" /\ handle'[f] = handle[b] /\ state'[f] = "capturing"
        /\ \A x \in Builders \ {f} : kind'[x] = kind[x] /\ handle'[x] = handle[x] /\ state'[x] = state[x]
                                    /\ stream'[x] = stream[x]
        /\ UNCHANGED <<origin, graph, unread, stranded>>
    BY <1>2 DEF Split, Born, history, TypeOK
  <2>2. /\ stream[b] \in Streams /\ capture[s] = None
        /\ \A t \in Streams : capture'[t] = IF t = s THEN capture[stream[b]] ELSE capture[t]
    BY <1>2 DEF Split, Idle, TypeOK
  <2>3. Owned'
    <3> SUFFICES ASSUME NEW t \in Streams, capture'[t] # None
                 PROVE  /\ origin[capture'[t]] \in Streams
                        /\ capture'[origin[capture'[t]]] = capture'[t]
                        /\ capture'[t] \in stranded \/ \E x \in Builders : Owns(x, capture[t])'
      BY <2>1 DEF Owned, Owns
    <3>1. PICK u \in Streams : capture[u] = capture'[t] /\ capture[u] # None
      BY <2>2
    <3>2. /\ origin[capture[u]] \in Streams /\ capture[origin[capture[u]]] = capture[u]
          /\ capture[u] \in stranded \/ \E x \in Builders : Owns(x, capture[u])
      BY <3>1 DEF Owned, Inv
    <3>5. origin[capture[u]] # s
      BY <3>1, <3>2, <2>2
    <3>6. ASSUME NEW x \in Builders, Owns(x, capture[u]) PROVE Owns(x, capture[t])'
      <4>1. x # f
        BY <3>6, <2>1 DEF Owns, OwnsCapture
      <4> QED
        BY <3>1, <3>6, <4>1, <2>1 DEF Owns, OwnsCapture
    <3> QED
      BY <3>1, <3>2, <3>5, <3>6, <2>1, <2>2
  <2>4. NotNew'
    BY <2>1, <2>2 DEF NotNew, Inv
  <2>5. BodiesApart'
    BY <2>1 DEF BodiesApart, Inv
  <2>6. BodiesWait'
    BY <2>1, <2>2 DEF BodiesWait, Inv
  <2> QED
    BY <2>3, <2>4, <2>5, <2>6 DEF Inv
<1>3. ASSUME NEW b \in Builders, NEW f \in Builders, NEW s \in Streams, NEW g \in Graphs,
             Conditional(b, f, s, g)
      PROVE  Inv'
  <2>1. /\ state[f] = "unborn" /\ kind'[f] = "conditional_body" /\ handle'[f] \in {g, None}
        /\ \A x \in Builders \ {f} : kind'[x] = kind[x] /\ handle'[x] = handle[x] /\ state'[x] = state[x]
                                    /\ stream'[x] = stream[x]
        /\ UNCHANGED <<origin, capture, unread, stranded>>
        /\ graph[g] = "unused"
        /\ \A x \in Graphs : graph'[x] = IF x = g THEN "exists" ELSE graph[x]
    BY <1>3 DEF Conditional, Born, history, TypeOK
  <2>2. /\ \A t \in Streams : capture[t] # g
        /\ \A x \in Builders : handle[x] # g
    BY <2>1, <1>n DEF NotNew, Inv
  <2>3. Owned'
    BY <2>1 DEF Owned, Owns, Inv, OwnsCapture
  <2>4. NotNew'
    BY <2>1 DEF NotNew, Inv, TypeOK
  <2>5. BodiesApart'
    BY <2>1, <2>2 DEF BodiesApart, Inv
  <2>6. BodiesWait'
    BY <2>1, <2>2 DEF BodiesWait, Inv
  <2> QED
    BY <2>3, <2>4, <2>5, <2>6 DEF Inv
\* A capture that begins takes over nobody's graph.
<1>b. ASSUME NEW b \in Builders, NEW g \in Graphs, BeginCapture(b, g), state'[b] = "capturing",
             \A x \in Builders \ {b} : state'[x] = state[x] /\ handle'[x] = handle[x],
             handle'[b] = g \/ g \in unread', unread \subseteq unread',
             kind[b] # "forked", \A t \in Streams : capture[t] # g
      PROVE  Owned'
  <2>1. /\ stream[b] \in Streams /\ capture[stream[b]] = None
        /\ \A t \in Streams : capture'[t] = IF t = stream[b] THEN g ELSE capture[t]
        /\ \A x \in Graphs : origin'[x] = IF x = g THEN stream[b] ELSE origin[x]
        /\ stream' = stream /\ kind' = kind /\ stranded' = stranded
    BY <1>b DEF BeginCapture, TypeOK
  <2> SUFFICES ASSUME NEW t \in Streams, capture'[t] # None
               PROVE  /\ origin'[capture'[t]] \in Streams
                      /\ capture'[origin'[capture'[t]]] = capture'[t]
                      /\ capture'[t] \in stranded' \/ \E x \in Builders : Owns(x, capture[t])'
    BY DEF Owned, Owns
  <2>2. CASE t = stream[b]
    BY <2>1, <2>2, <1>b DEF Owns, OwnsCapture
  <2>3. CASE t # stream[b]
    <3>1. capture'[t] = capture[t] /\ capture[t] \in Graphs /\ capture[t] # g
      BY <2>1, <2>3, <1>b DEF TypeOK
    <3>2. /\ origin[capture[t]] \in Streams /\ capture[origin[capture[t]]] = capture[t]
          /\ capture[t] \in stranded \/ \E x \in Builders : Owns(x, capture[t])
      BY <3>1, <1>n DEF Owned, Inv
    <3>6. ASSUME NEW x \in Builders, Owns(x, capture[t]) PROVE Owns(x, capture[t])'
      <4>1. x # b
        BY <3>6, <1>b DEF Owns, OwnsCapture, BeginCapture
      <4> QED
        BY <3>1, <3>6, <4>1, <2>1, <1>b DEF Owns, OwnsCapture
    <3>5. origin[capture[t]] # stream[b]
      BY <3>1, <3>2, <2>1, <1>n
    <3> QED
      BY <3>1, <3>2, <3>5, <3>6, <2>1
  <2> QED
    BY <2>2, <2>3
<1>4. ASSUME NEW b \in Builders, NEW g \in Graphs, NEW ok \in BOOLEAN, Begin(b, g, ok) PROVE Inv'
  <2>1. /\ BeginCapture(b, g) /\ kind[b] = "primary" /\ kind' = kind
        /\ state' = [state EXCEPT ![b] = "capturing"]
        /\ graph[g] = "unused"
        /\ \A x \in Graphs : graph'[x] = IF x = g THEN "exists" ELSE graph[x]
        /\ handle'[b] \in {g, None}
        /\ \A x \in Builders \ {b} : handle'[x] = handle[x]
        /\ (handle'[b] = g \/ g \in unread') /\ unread \subseteq unread'
    BY <1>4 DEF Begin, BeginCapture, Begun, Adopted, TypeOK
  <2>2. /\ \A t \in Streams : capture[t] # g
        /\ \A x \in Builders : handle[x] # g
    BY <2>1, <1>n DEF NotNew, Inv
  <2>3. \A t \in Streams : capture'[t] = IF t = stream[b] THEN g ELSE capture[t]
    BY <2>1 DEF BeginCapture, TypeOK
  <2>4. state'[b] = "capturing" /\ \A x \in Builders \ {b} : state'[x] = state[x]
    BY <2>1 DEF TypeOK
  <2>5. Owned'
    BY <2>1, <2>2, <2>4, <1>b
  <2>6. NotNew'
    BY <2>1, <2>3, <1>n DEF NotNew, Inv, TypeOK
  <2>7. BodiesApart'
    BY <2>1 DEF BodiesApart, Inv
  <2>8. BodiesWait'
    BY <2>1, <2>2, <2>3, <2>4 DEF BodiesWait, Inv
  <2> QED
    BY <2>5, <2>6, <2>7, <2>8 DEF Inv
<1>5. ASSUME NEW b \in Builders, BeginBody(b) PROVE Inv'
  <2>1. /\ BeginCapture(b, handle[b]) /\ kind[b] = "conditional_body" /\ kind' = kind
        /\ state[b] = "not_started" /\ state' = [state EXCEPT ![b] = "capturing"]
        /\ handle[b] \in Graphs /\ graph[handle[b]] = "exists" /\ UNCHANGED <<handle, graph, unread>>
    BY <1>5 DEF BeginBody, BeginCapture, TypeOK
  <2>2. \A t \in Streams : capture[t] # handle[b]
    BY <2>1, <1>n DEF BodiesWait, Inv
  <2>3. \A t \in Streams : capture'[t] = IF t = stream[b] THEN handle[b] ELSE capture[t]
    BY <2>1 DEF BeginCapture, TypeOK
  <2>4. state'[b] = "capturing" /\ \A x \in Builders \ {b} : state'[x] = state[x]
    BY <2>1 DEF TypeOK
  <2>5. Owned'
    BY <2>1, <2>2, <2>4, <1>b
  <2>6. NotNew'
    BY <2>1, <2>3 DEF NotNew, Inv
  <2>7. BodiesApart'
    BY <2>1 DEF BodiesApart, Inv
  <2>8. BodiesWait'
    BY <2>1, <2>3, <2>4 DEF BodiesWait, BodiesApart, Inv
  <2> QED
    BY <2>5, <2>6, <2>7, <2>8 DEF Inv
<1>6. ASSUME NEW b \in Builders, Record(b) PROVE Inv'
  BY <1>6 DEF Record, builder, history, Inv, Owned, Owns, OwnsCapture, BodiesApart, BodiesWait, NotNew
<1>7. ASSUME NEW g \in Graphs, Invalidate(g) PROVE Inv'
  BY <1>7 DEF Invalidate, builder, history, Inv, Owned, Owns, OwnsCapture, BodiesApart, BodiesWait, NotNew
<1>8. ASSUME NEW b \in Builders, End(b) PROVE Inv'
  <2> DEFINE e == EndCapture(stream[b])
  <2>1. /\ Open(b) /\ stream[b] \in Streams /\ kind' = kind /\ stream' = stream
        /\ state' = [state EXCEPT ![b] = IF e.ok THEN "ended" ELSE state[b]]
        /\ Release(e, handle, view, reach) /\ stranded' = stranded
    BY <1>8, <1>o DEF End, AfterEnd
  <2>2. /\ \A x \in Builders \ {b} : state'[x] = state[x] /\ stream'[x] = stream[x]
        /\ state'[b] = "not_started" => state[b] = "not_started"
    BY <2>1 DEF TypeOK
  <2>3. \A t \in Streams \ e.left : capture[t] # None => origin[capture[t]] # stream[b]
    BY <2>1, EndLeaves DEF Inv
  <2>4. e.left = {} \/ \E g \in Graphs : e.left = Members(g)
    BY <2>1, EndsWhole
  <2> HIDE DEF e
  <2> QED
    BY <2>1, <2>2, <2>3, <2>4, <1>h, ReleaseInv
<1>9. ASSUME NEW b \in Builders, Close(b) PROVE Inv'
  <2>0. Open(b) /\ stranded' = stranded
    BY <1>9 DEF Close
  <2>1. CASE EndIfNeeded(b).ok /\ Dispose(b, "closed", EndIfNeeded(b))
    <3>1. /\ Release(EndIfNeeded(b), [handle EXCEPT ![b] = None], view, reach) /\ kind' = kind
          /\ \A x \in Builders \ {b} : state'[x] = state[x] /\ stream'[x] = stream[x]
          /\ state'[b] = "closed"
      BY <2>1, <1>d DEF Dispose
    <3> QED
      BY <3>1, <2>0, <1>e, <1>h, ReleaseInv
  <2>2. CASE Release(EndIfNeeded(b), handle, view, reach) /\ UNCHANGED <<kind, state, stream>>
    BY <2>2, <2>0, <1>e, <1>h, ReleaseInv
  <2> QED
    BY <2>1, <2>2, <1>9 DEF Close
<1>10. ASSUME NEW b \in Builders, Dealloc(b) PROVE Inv'
  <2>1. /\ Release(EndIfNeeded(b), [handle EXCEPT ![b] = None], view, reach) /\ kind' = kind
        /\ \A x \in Builders \ {b} : state'[x] = state[x] /\ stream'[x] = stream[x]
        /\ state'[b] = "dropped" /\ stranded' = stranded
    BY <1>10, <1>d DEF Dealloc, Dispose, EndsOnDealloc
  <2>2. CASE Open(b)
    BY <2>1, <2>2, <1>e, <1>h, ReleaseInv
  <2>3. CASE ~Open(b)
    <3>1. ~OwnsCapture(b) /\ EndIfNeeded(b).left = {}
      BY <2>3 DEF Open, OwnsCapture, EndIfNeeded, NoEnd
    <3> QED
      BY <2>1, <3>1, <1>h, ReleaseInv
  <2> QED
    BY <2>2, <2>3
<1>15. ASSUME NEW b \in Builders, Strand(b) PROVE Inv'
  <2>1. /\ Release(NoEnd, [handle EXCEPT ![b] = None], view, reach) /\ kind' = kind
        /\ \A x \in Builders \ {b} : state'[x] = state[x] /\ stream'[x] = stream[x]
        /\ state'[b] = "dropped" /\ stranded' = stranded \cup {capture[stream[b]]} /\ NoEnd.left = {}
    BY <1>15, <1>d DEF Strand, Dispose, NoEnd
  <2>2. \A t \in Streams : capture[t] # None /\ origin[capture[t]] = stream[b] => capture[t] \in stranded'
    BY <2>1 DEF Inv, Owned
  <2> QED
    BY <2>1, <2>2, <1>h, ReleaseInv
<1>11. ASSUME NEW r \in Builders, NEW b \in Builders, Join(r, b) PROVE Inv'
  <2>1. /\ Release(NoEnd, [handle EXCEPT ![b] = None], view, Joined(r, b)) /\ kind' = kind
        /\ \A x \in Builders \ {b} : state'[x] = state[x] /\ stream'[x] = stream[x]
        /\ state'[b] = "closed" /\ stranded' = stranded
    BY <1>11, <1>d DEF Join
  <2>2. ~OwnsCapture(b) /\ NoEnd.left = {}
    BY <1>11 DEF Join, OwnsCapture, NoEnd
  <2> QED
    BY <2>1, <2>2, <1>h, ReleaseInv
<1>12. ASSUME NEW b \in Builders, View(b) PROVE Inv'
  BY <1>12 DEF View, builder, driver, history, Inv, Owned, Owns, OwnsCapture, BodiesApart, BodiesWait, NotNew
<1>13. ASSUME NEW g \in Graphs, DropView(g) PROVE Inv'
  <2>1. Release(NoEnd, handle, view \ {g}, reach) /\ UNCHANGED <<kind, state, stream, stranded>> /\ NoEnd.left = {}
    BY <1>13 DEF DropView, NoEnd
  <2>2. CASE Builders = {}
    BY <2>1, <2>2 DEF Release, Inv, Owned, Owns, BodiesApart, BodiesWait, NotNew, NoEnd, TypeOK
  <2>3. ASSUME NEW b \in Builders PROVE Inv'
    BY <2>1, <1>h, ReleaseInv
  <2> QED
    BY <2>2, <2>3
<1>14. CASE UNCHANGED vars
  BY <1>14 DEF vars, builder, driver, history, Inv, Owned, Owns, OwnsCapture, BodiesApart, BodiesWait, NotNew
<1> QED
  BY <1>1, <1>2, <1>3, <1>4, <1>5, <1>6, <1>7, <1>8, <1>9, <1>10, <1>11, <1>12, <1>13, <1>14, <1>15 DEF Next

\* No stream is ever left in a capture that no open builder knows it has to
\* end, whatever fails and in whatever order builders are closed, dropped,
\* joined and ended, unless the builder that owned a capture tied to a thread
\* was dropped on another.
THEOREM CapturesCanBeEnded == Spec => []NoPoisonedStream
<1>1. Inv => NoPoisonedStream
  BY DEF Inv, Owned, Owns, NoPoisonedStream
<1> QED
  BY TypeInit, TypeNext, InvInit, InvNext, <1>1, PTL DEF Spec

-----------------------------------------------------------------------------
(* No graph leaks.  A graph that exists is in a hierarchy that is held; a  *)
(* body joins the hierarchy of the graph its parent's stream captures into,*)
(* which the owner of that capture holds, whoever else uses the stream.    *)

\* A builder yet to be born, or yet to begin, has no handle.
Bare == \A b \in Builders :
            state[b] = "unborn" \/ (kind[b] = "primary" /\ state[b] = "not_started") => handle[b] = None

\* A graph that could not be read, or is yet to be created, is in no other's
\* hierarchy; what is viewed or stranded was created.
Rooted ==
    /\ \A g \in unread : top[g] = g /\ graph[g] # "unused"
    /\ \A g \in Graphs : graph[g] = "unused" => top[g] = g
    /\ \A g \in view \cup stranded : graph[g] # "unused"

Kept == Bare /\ Rooted /\ NoGraphLeaks

\* A hierarchy is held through something that is named.
LEMMA HeldByUse ==
  ASSUME NEW x
  PROVE  x \in Held(handle, view) <=> \E g \in InUse : top[g] = x
  BY DEF Held, InUse

\* What Release does to the graphs.
LEMMA ReleaseGraphs ==
  ASSUME TypeOK, NEW e, NEW h, NEW v, NEW rch, Release(e, h, v, rch)
  PROVE  /\ handle' = h /\ view' = v
         /\ \A g \in Graphs :
               graph'[g] = IF g \in e.dead \/ (graph[g] = "exists" /\ top[g] \in Held(handle, view) /\ top[g] \notin Held(h, v))
                           THEN "destroyed" ELSE graph[g]
         /\ \A g \in again' \ again : g \in Held(handle, view) /\ g \notin Held(h, v) /\ (graph[g] = "exists" => g \in e.dead)
         /\ \A g : g \in broken' <=> g \in broken \/ (g \in e.dead /\ top[g] = g)
         /\ \A t \in Streams : capture'[t] = IF t \in e.left THEN None ELSE capture[t]
         /\ UNCHANGED <<top, origin, invalid, unread>>
<1>1. /\ handle' = h /\ view' = v
      /\ \A g : g \in broken' <=> g \in broken \/ (g \in e.dead /\ top[g] = g)
      /\ \A t \in Streams : capture'[t] = IF t \in e.left THEN None ELSE capture[t]
      /\ UNCHANGED <<top, origin, invalid, unread>>
  BY DEF Release
<1>2. \A g \in again' \ again : g \in Held(handle, view) /\ g \notin Held(h, v) /\ (graph[g] = "exists" => g \in e.dead)
  BY DEF Release
<1>3. graph' = [g \in Graphs |-> IF g \in e.dead \/ (top[g] \in (Held(handle, view) \ Held(h, v)) /\ graph[g] = "exists" /\ g \notin e.dead)
                                 THEN "destroyed" ELSE graph[g]]
  BY DEF Release
<1> QED
  BY <1>1, <1>2, <1>3

\* Steps that end captures and let go of handles.
LEMMA ReleaseKept ==
  ASSUME TypeOK, Kept, \A g \in stranded' \ stranded : g \in Graphs /\ graph[g] # "unused",
         NEW e, NEW h \in [Builders -> Graphs \cup {None}], NEW v \in SUBSET view, NEW rch, Release(e, h, v, rch),
         kind' = kind, stranded \subseteq stranded',
         \A x \in Builders : h[x] \in {handle[x], None},
         \A x \in Builders : state'[x] = state[x] \/ state'[x] \notin {"unborn", "not_started"}
  PROVE  Kept'
<1>1. /\ handle' = h /\ view' = v
      /\ \A g \in Graphs :
            graph'[g] = IF g \in e.dead \/ (graph[g] = "exists" /\ top[g] \in Held(handle, view) /\ top[g] \notin Held(h, v))
                        THEN "destroyed" ELSE graph[g]
      /\ UNCHANGED <<top, unread>>
  BY ReleaseGraphs
<1>2. Bare'
  BY <1>1 DEF Kept, Bare
<1>3. Rooted'
  BY <1>1 DEF Kept, Rooted, TypeOK
<1>4. Held(handle, view)' = Held(h, v)
  BY <1>1 DEF Held
<1>5. {top[x] : x \in stranded} \subseteq {top'[x] : x \in stranded'}
  BY <1>1
<1>6. NoGraphLeaks'
  BY <1>1, <1>4, <1>5 DEF Kept, NoGraphLeaks
<1> QED
  BY <1>2, <1>3, <1>6 DEF Kept

\* Steps that create and destroy no graph, and keep the handles.
LEMMA SameKept ==
  ASSUME Kept, UNCHANGED <<handle, graph, top, unread, stranded>>, view' = view \/ \E b \in Builders : handle[b] # None /\ view' = view \cup {handle[b]},
         NotNew,
         \A x \in Builders : (state'[x] = state[x] /\ kind'[x] = kind[x]) \/ handle[x] = None
                             \/ state'[x] \notin {"unborn", "not_started"}
  PROVE  Kept'
<1>1. Bare'
  BY DEF Kept, Bare
<1>2. Rooted'
  BY DEF Kept, Rooted, NotNew
<1>3. Held(handle, view) \subseteq Held(handle, view)'
  BY DEF Held
<1>4. NoGraphLeaks'
  BY <1>3 DEF Kept, NoGraphLeaks
<1> QED
  BY <1>1, <1>2, <1>4 DEF Kept

\* A builder that had no handle gets one, perhaps to a new graph g.
LEMMA NewKept ==
  ASSUME TypeOK, Kept, NotNew, NEW f \in Builders, handle[f] = None, view' = view,
         \A x \in Builders \ {f} : handle'[x] = handle[x] /\ state'[x] = state[x] /\ kind'[x] = kind[x],
         (state'[f] = "unborn" \/ (kind'[f] = "primary" /\ state'[f] = "not_started")) => handle'[f] = None,
         NEW g \in Graphs, graph[g] = "unused", graph' = [graph EXCEPT ![g] = "exists"],
         \A x \in Graphs \ {g} : top'[x] = top[x],
         unread \subseteq unread', unread' \subseteq unread \cup {g}, g \in unread' => top'[g] = g,
         stranded' = stranded, top'[g] \in Held(handle, view)' \cup unread' \cup {top[x] : x \in stranded}
  PROVE  Kept'
<1>1. Bare'
  BY DEF Kept, Bare
<1>2. \A x \in Graphs : graph'[x] = IF x = g THEN "exists" ELSE graph[x]
  BY DEF TypeOK
<1>3. Rooted'
  BY <1>2 DEF Kept, Rooted, TypeOK
<1>4. Held(handle, view) \subseteq Held(handle, view)'
  <2>1. \A x \in Builders : handle[x] # None => x # f /\ handle[x] \in Graphs \ {g}
    BY DEF NotNew, TypeOK
  <2>2. view \subseteq Graphs \ {g}
    BY DEF Kept, Rooted, TypeOK
  <2>3. \A x \in Builders : handle[x] # None => handle'[x] = handle[x] /\ top'[handle'[x]] = top[handle[x]]
    BY <2>1
  <2>4. \A x \in view : top'[x] = top[x]
    BY <2>2
  <2> QED
    BY <2>3, <2>4 DEF Held
<1>5. \A x \in stranded : x \in Graphs \ {g} /\ top'[x] = top[x]
  BY DEF Kept, Rooted, TypeOK
<1>6. {top[x] : x \in stranded} = {top'[x] : x \in stranded'}
  BY <1>5
<1>7. NoGraphLeaks'
  BY <1>2, <1>4, <1>6 DEF Kept, NoGraphLeaks
<1> QED
  BY <1>1, <1>3, <1>7 DEF Kept

\* The hierarchy of a captured graph is held by the owner of the capture, or is
\* that of a stranded one.
LEMMA CaptureHeld ==
  ASSUME TypeOK, Inv, Kept, NEW s \in Streams, capture[s] # None
  PROVE  top[capture[s]] \in Held(handle, view) \cup unread \cup {top[x] : x \in stranded}
<1>1. \/ capture[s] \in stranded
      \/ \E b \in Builders : handle[b] = capture[s]
      \/ capture[s] \in unread
  BY DEF Inv, Owned, Owns
<1>2. CASE \E b \in Builders : handle[b] = capture[s]
  BY <1>2 DEF Held
<1>3. CASE capture[s] \in unread
  BY <1>3 DEF Kept, Rooted
<1> QED
  BY <1>1, <1>2, <1>3

LEMMA KeptInit == Init => Kept
  BY DEF Init, Kept, Bare, Rooted, NoGraphLeaks

LEMMA KeptNext == TypeOK /\ Inv /\ Kept /\ [Next]_vars => Kept'
<1> SUFFICES ASSUME TypeOK, Inv, Kept, [Next]_vars PROVE Kept'
  OBVIOUS
<1>i. NotNew
  BY DEF Inv
<1>h. ASSUME NEW b \in Builders
      PROVE  /\ [handle EXCEPT ![b] = None] \in [Builders -> Graphs \cup {None}]
             /\ \A x \in Builders : [handle EXCEPT ![b] = None][x] \in {handle[x], None}
             /\ handle \in [Builders -> Graphs \cup {None}]
             /\ \A x \in Builders : handle[x] \in {handle[x], None}
             /\ view \in SUBSET view
  BY DEF TypeOK
<1>n. None \notin Streams /\ None \notin Graphs
  BY NoneIsNothing
<1>1. ASSUME NEW b \in Builders, NEW s \in Streams, Create(b, s) PROVE Kept'
  <2>1. /\ handle[b] = None /\ handle'[b] = None
        /\ \A x \in Builders \ {b} : handle'[x] = handle[x] /\ state'[x] = state[x] /\ kind'[x] = kind[x]
        /\ UNCHANGED <<view, graph, top, unread, stranded>>
    BY <1>1 DEF Create, Born, TypeOK, Kept, Bare, history
  <2>2. handle' = handle
    BY <1>1, <2>1 DEF Create, Born, TypeOK
  <2> QED
    BY <1>i, <2>1, <2>2, SameKept
<1>2. ASSUME NEW b \in Builders, NEW f \in Builders, NEW s \in Streams, Split(b, f, s) PROVE Kept'
  <2>1. /\ state[f] = "unborn" /\ state'[f] = "capturing" /\ handle'[f] = handle[b] /\ handle[f] = None
        /\ \A x \in Builders \ {f} : handle'[x] = handle[x] /\ state'[x] = state[x] /\ kind'[x] = kind[x]
        /\ UNCHANGED <<view, graph, top, unread, stranded>>
    BY <1>2 DEF Split, Born, TypeOK, Kept, Bare, history
  <2>2. Bare'
    BY <2>1 DEF Kept, Bare
  <2>3. Rooted'
    BY <2>1 DEF Kept, Rooted
  <2>4. Held(handle, view) \subseteq Held(handle, view)'
    BY <2>1 DEF Held
  <2>5. NoGraphLeaks'
    BY <2>1, <2>4 DEF Kept, NoGraphLeaks
  <2> QED
    BY <2>2, <2>3, <2>5 DEF Kept
<1>3. ASSUME NEW b \in Builders, NEW f \in Builders, NEW s \in Streams, NEW g \in Graphs, Conditional(b, f, s, g)
      PROVE  Kept'
  <2>1. /\ state[f] = "unborn" /\ state'[f] = "not_started" /\ kind'[f] = "conditional_body" /\ handle[f] = None
        /\ \A x \in Builders \ {f} : handle'[x] = handle[x] /\ state'[x] = state[x] /\ kind'[x] = kind[x]
        /\ UNCHANGED <<view, unread, stranded>>
        /\ graph[g] = "unused" /\ graph' = [graph EXCEPT ![g] = "exists"]
        /\ stream[b] \in Streams /\ capture[stream[b]] # None
        /\ handle'[f] \in {g, None}
        /\ top' = [top EXCEPT ![g] = top[capture[stream[b]]]]
    BY <1>3 DEF Conditional, Born, TypeOK, Kept, Bare, history, Open, Active, States
  <2>2. top'[g] = top[capture[stream[b]]] /\ \A x \in Graphs \ {g} : top'[x] = top[x]
    BY <2>1 DEF TypeOK
  <2>3. top[capture[stream[b]]] \in Held(handle, view) \cup unread \cup {top[x] : x \in stranded}
    BY <2>1, CaptureHeld
  <2>4. g \notin unread
    BY <2>1 DEF Kept, Rooted
  <2>5. Held(handle, view) \subseteq Held(handle, view)'
    <3>1. \A x \in Builders : handle[x] # None => x # f /\ handle[x] \in Graphs \ {g}
      BY <1>i, <2>1 DEF NotNew, TypeOK
    <3>2. \A x \in view : x \in Graphs \ {g}
      BY <2>1 DEF Kept, Rooted, TypeOK
    <3>3. \A x \in Builders : handle[x] # None => handle'[x] = handle[x] /\ top'[handle'[x]] = top[handle[x]]
      BY <2>1, <2>2, <3>1
    <3> QED
      BY <2>1, <2>2, <3>2, <3>3 DEF Held
  <2>6. top'[g] \in Held(handle, view)' \cup unread' \cup {top[x] : x \in stranded}
    BY <2>1, <2>2, <2>3, <2>5
  <2>7. unread \subseteq unread' /\ unread' \subseteq unread \cup {g} /\ g \notin unread'
    BY <2>1, <2>4
  <2> QED
    BY <1>i, <2>1, <2>2, <2>6, <2>7, NewKept
<1>4. ASSUME NEW b \in Builders, NEW g \in Graphs, NEW ok \in BOOLEAN, Begin(b, g, ok) PROVE Kept'
  <2>1. /\ state[b] = "not_started" /\ state'[b] = "capturing" /\ handle[b] = None
        /\ \A x \in Builders \ {b} : handle'[x] = handle[x] /\ state'[x] = state[x] /\ kind'[x] = kind[x]
        /\ UNCHANGED <<view, top, stranded>>
        /\ graph[g] = "unused" /\ graph' = [graph EXCEPT ![g] = "exists"]
        /\ handle'[b] = g \/ g \in unread'
        /\ unread \subseteq unread' /\ unread' \subseteq unread \cup {g}
    BY <1>4 DEF Begin, BeginCapture, Begun, Adopted, TypeOK, Kept, Bare
  <2>2. top[g] = g
    BY <2>1 DEF Kept, Rooted
  <2>3. top'[g] \in Held(handle, view)' \cup unread' \cup {top[x] : x \in stranded}
    <3>1. CASE handle'[b] = g
      BY <1>n, <2>1, <2>2, <3>1 DEF Held
    <3> QED
      BY <2>1, <2>2, <3>1
  <2> QED
    BY <1>i, <2>1, <2>2, <2>3, NewKept
<1>5. ASSUME NEW b \in Builders, BeginBody(b) PROVE Kept'
  <2>1. /\ UNCHANGED <<handle, graph, top, unread, stranded, view, kind>>
        /\ \A x \in Builders : state'[x] = state[x] \/ state'[x] \notin {"unborn", "not_started"}
    BY <1>5 DEF BeginBody, BeginCapture, TypeOK
  <2> QED
    BY <1>i, <2>1, SameKept
<1>6. ASSUME NEW b \in Builders, Record(b) \/ View(b) PROVE Kept'
  <2>1. /\ UNCHANGED <<handle, graph, top, unread, stranded, state, kind>>
        /\ view' = view \/ \E x \in Builders : handle[x] # None /\ view' = view \cup {handle[x]}
    BY <1>6 DEF Record, View, builder, history
  <2> QED
    BY <1>i, <2>1, SameKept
<1>7. ASSUME NEW b \in Builders, End(b) PROVE Kept'
  <2>1. /\ Release(EndCapture(stream[b]), handle, view, reach) /\ kind' = kind /\ stranded' = stranded
        /\ \A x \in Builders : state'[x] = state[x] \/ state'[x] \notin {"unborn", "not_started"}
    BY <1>7 DEF End, AfterEnd, TypeOK
  <2> QED
    BY <1>h, <2>1, ReleaseKept
<1>8. ASSUME NEW b \in Builders, NEW st \in {"closed", "dropped"}, NEW e, Dispose(b, st, e),
             stranded \subseteq stranded', \A g \in stranded' \ stranded : g \in Graphs /\ graph[g] # "unused"
      PROVE  Kept'
  <2>1. /\ Release(e, [handle EXCEPT ![b] = None], view, reach) /\ kind' = kind
        /\ \A x \in Builders : state'[x] = state[x] \/ state'[x] \notin {"unborn", "not_started"}
    BY <1>8 DEF Dispose, TypeOK
  <2> QED
    BY <1>8, <1>h, <2>1, ReleaseKept
<1>9. ASSUME NEW b \in Builders, Close(b) PROVE Kept'
  <2>1. CASE Release(EndIfNeeded(b), handle, view, reach) /\ UNCHANGED <<kind, state, stream, stranded>>
    BY <1>h, <2>1, ReleaseKept
  <2> QED
    BY <1>8, <1>9, <2>1 DEF Close
<1>10. ASSUME NEW b \in Builders, Dealloc(b) PROVE Kept'
  BY <1>8, <1>10 DEF Dealloc
<1>15. ASSUME NEW b \in Builders, Strand(b) PROVE Kept'
  <2>1. Dispose(b, "dropped", NoEnd) /\ stranded' = stranded \cup {capture[stream[b]]}
    BY <1>15 DEF Strand
  <2>2. stream[b] \in Streams /\ capture[stream[b]] \in Graphs
    BY <1>15 DEF Strand, OwnsCapture, TypeOK
  <2>3. graph[capture[stream[b]]] # "unused"
    BY <1>i, <1>n, <2>2 DEF NotNew
  <2> QED
    BY <1>8, <2>1, <2>2, <2>3
<1>11. ASSUME NEW r \in Builders, NEW b \in Builders, Join(r, b) PROVE Kept'
  <2>1. /\ Release(NoEnd, [handle EXCEPT ![b] = None], view, Joined(r, b)) /\ kind' = kind /\ stranded' = stranded
        /\ \A x \in Builders : state'[x] = state[x] \/ state'[x] \notin {"unborn", "not_started"}
    BY <1>11 DEF Join, TypeOK
  <2> QED
    BY <1>h, <2>1, ReleaseKept
<1>12. ASSUME NEW g \in Graphs, Invalidate(g) PROVE Kept'
  <2>1. UNCHANGED <<handle, graph, top, unread, stranded, view, kind, state>>
    BY <1>12 DEF Invalidate, builder, history
  <2> QED
    BY <1>i, <2>1, SameKept
<1>13. ASSUME NEW g \in Graphs, DropView(g) PROVE Kept'
  <2>1. Release(NoEnd, handle, view \ {g}, reach) /\ UNCHANGED <<kind, state, stranded>>
    BY <1>13 DEF DropView
  <2>2. handle \in [Builders -> Graphs \cup {None}] /\ view \ {g} \in SUBSET view
    BY DEF TypeOK
  <2> QED
    BY <2>1, <2>2, ReleaseKept
<1>14. CASE UNCHANGED vars
  <2>1. UNCHANGED <<handle, graph, top, unread, stranded, view, kind, state>>
    BY <1>14 DEF vars, builder, history
  <2> QED
    BY <1>i, <2>1, SameKept
<1> QED
  BY <1>1, <1>2, <1>3, <1>4, <1>5, <1>6, <1>7, <1>9, <1>10, <1>11, <1>12, <1>13, <1>14, <1>15 DEF Next

\* Whatever closes, drops, fails or is joined, and whoever shares a stream, no
\* graph stays without a builder or a view that will destroy it, unless its
\* builder could not read it, or a capture of its hierarchy was stranded.
THEOREM GraphsAreHeld == Spec => []NoGraphLeaks
<1>1. Kept => NoGraphLeaks
  BY DEF Kept
<1> QED
  BY TypeInit, TypeNext, InvInit, InvNext, KeptInit, KeptNext, <1>1, PTL DEF Spec

-----------------------------------------------------------------------------
(* Where no two builders share a stream, more is true.  A capture is its   *)
(* owner's: the owner has a handle to the graph, or could not read it; and *)
(* the hierarchy of a graph that anybody can name is there, unless ending  *)
(* a capture broke it.                                                     *)

\* A stream belongs to one builder; one without a stream has no handle, and a
\* primary builder gets its handle when it begins.
Streamed ==
    /\ \A b, c \in Builders : stream[b] # None /\ stream[b] = stream[c] => b = c
    /\ \A b \in Builders : stream[b] = None => handle[b] = None
    /\ \A b \in Builders : kind[b] = "primary" /\ state[b] = "not_started" => handle[b] = None

\* Hierarchies have one top, and nothing is in the hierarchy of a graph that
\* is yet to be created.
Hierarchies ==
    \A g \in Graphs :
        /\ top[top[g]] = top[g]
        /\ top[g] # g => graph[g] # "unused" /\ graph[top[g]] # "unused"

\* A graph that could not be read is nobody's, and stays while it is captured.
Unread ==
    \A g \in unread :
        /\ top[g] = g /\ graph[g] # "unused"
        /\ \A x \in InUse : top[x] # g
        /\ \A s \in Streams : capture[s] = g => graph[g] = "exists"

\* What a builder or a view names is there, and so is the top of its hierarchy.
Alive(g) == graph[g] = "exists" /\ graph[top[g]] = "exists"
Used == \A g \in InUse : graph[g] # "unused" /\ (top[g] \in broken \/ Alive(g))

\* What a builder whose stream is in a capture knows of it.
Knows(b) ==
    stream[b] # None /\ capture[stream[b]] # None =>
        /\ state[b] = "capturing"
        /\ kind[b] # "forked" => origin[capture[stream[b]]] = stream[b]
        /\ handle[b] = capture[stream[b]] \/ (handle[b] = None /\ capture[stream[b]] \in unread)
Known == \A b \in Builders : Knows(b)

\* An owner of a capture has one, unless ending it failed.
Begins == \A b \in Builders : OwnsCapture(b) /\ b \notin failed => capture[stream[b]] # None

\* The graph of a body yet to begin is named by its builder alone.
BodiesAlone ==
    \A b, c \in Builders :
        kind[b] = "conditional_body" /\ state[b] = "not_started" /\ handle[b] # None /\ handle[c] = handle[b]
        => c = b

\* Who has begun without a handle could not read the graph; who has ended is
\* not captured into.
Finished ==
    \A b \in Builders :
        /\ state[b] \in {"capturing", "ended"} /\ handle[b] = None => unread # {}
        /\ state[b] = "ended" /\ handle[b] # None => \A s \in Streams : capture[s] # handle[b]

Sole == /\ Streamed /\ Hierarchies /\ Unread /\ Used /\ Known /\ Begins /\ BodiesAlone
        /\ Finished /\ again \subseteq broken

LEMMA SameUse ==
  ASSUME InUse' = InUse, top' = top
  PROVE  Held(handle, view)' = Held(handle, view)
<1>1. \A x : x \in Held(handle, view)' <=> \E g \in InUse' : top'[g] = x
  BY DEF Held, InUse
<1> QED
  BY <1>1, HeldByUse

LEMMA UseTyped == TypeOK => InUse \subseteq Graphs
  BY DEF TypeOK, InUse

\* The end of a capture on s takes all of it, and destroys the hierarchy of its
\* graph or nothing.
LEMMA EndTakes ==
  ASSUME TypeOK, NEW s \in Streams
  PROVE  /\ EndCapture(s).left # {} => /\ capture[s] # None /\ origin[capture[s]] = s
                                       /\ EndCapture(s).left = Members(capture[s])
         /\ EndCapture(s).dead # {} =>
                /\ capture[s] \in Graphs /\ top[capture[s]] = capture[s]
                /\ EndCapture(s).dead = {x \in Graphs : top[x] = capture[s]}
                /\ EndCapture(s).left = Members(capture[s])
         /\ EndCapture(s).ok => s \in EndCapture(s).left
  BY DEF EndCapture, TypeOK, Members

\* What an end of a capture by builder b may be.
Ends(b, e) ==
    /\ e.left \subseteq Streams /\ e.dead \subseteq Graphs
    /\ e.left # {} => /\ stream[b] \in Streams /\ capture[stream[b]] # None
                      /\ origin[capture[stream[b]]] = stream[b]
                      /\ e.left = Members(capture[stream[b]])
    /\ e.dead # {} => /\ stream[b] \in Streams /\ capture[stream[b]] \in Graphs
                      /\ top[capture[stream[b]]] = capture[stream[b]]
                      /\ e.dead = {x \in Graphs : top[x] = capture[stream[b]]}
                      /\ e.left = Members(capture[stream[b]])

LEMMA EndsEnd ==
  ASSUME TypeOK, NEW b \in Builders, stream[b] \in Streams
  PROVE  /\ Ends(b, EndCapture(stream[b]))
         /\ EndCapture(stream[b]).ok => stream[b] \in EndCapture(stream[b]).left
<1>1. EndCapture(stream[b]).left \subseteq Streams /\ EndCapture(stream[b]).dead \subseteq Graphs
  BY DEF EndCapture, Members
<1> QED
  BY <1>1, EndTakes DEF Ends

LEMMA EndsNothing == ASSUME NEW b PROVE Ends(b, NoEnd)
  BY DEF Ends, NoEnd

\* Ending captures and letting go of handles keep all of it.  Builder b, which
\* may have ended its capture, keeps its stream and its handle or loses both.
LEMMA ReleaseSole ==
  ASSUME TypeOK, Sole, NEW b, NEW e, Ends(b, e),
         NEW h \in [Builders -> Graphs \cup {None}], NEW v \in SUBSET view, NEW rch, Release(e, h, v, rch),
         kind' = kind, failed \subseteq failed',
         \A x \in Builders : x # b => h[x] = handle[x] /\ state'[x] = state[x] /\ stream'[x] = stream[x],
         b \in Builders =>
            \/ state'[b] \in {"closed", "dropped"} /\ stream'[b] = None /\ h[b] = None
            \/ /\ h[b] = handle[b] /\ stream'[b] = stream[b]
               /\ state'[b] = state[b] \/ (state'[b] = "ended" /\ stream[b] \in e.left),
         e.left # {} => b \in Builders,
         b \in Builders /\ e.left # {} => state'[b] \in {"closed", "dropped", "ended"} \/ b \in failed'
  PROVE  Sole'
<1> USE DEF Sole
<1>1. /\ handle' = h /\ view' = v
      /\ \A g \in Graphs :
            graph'[g] = IF g \in e.dead \/ (graph[g] = "exists" /\ top[g] \in Held(handle, view) /\ top[g] \notin Held(h, v))
                        THEN "destroyed" ELSE graph[g]
      /\ \A g \in again' \ again : g \in Held(handle, view) /\ g \notin Held(h, v) /\ (graph[g] = "exists" => g \in e.dead)
      /\ \A g : g \in broken' <=> g \in broken \/ (g \in e.dead /\ top[g] = g)
      /\ \A t \in Streams : capture'[t] = IF t \in e.left THEN None ELSE capture[t]
      /\ UNCHANGED <<top, origin, invalid, unread>>
  BY ReleaseGraphs
<1>2. /\ InUse \subseteq Graphs /\ InUse' \subseteq InUse
      /\ \A g \in InUse' : top[g] \in Held(h, v)
      /\ \A g \in InUse : top[g] \in Held(handle, view)
  <2>1. \A x \in Builders : h[x] \in {handle[x], None}
    OBVIOUS
  <2>2. InUse' \subseteq InUse
    BY <1>1, <2>1 DEF InUse
  <2>3. \A g \in InUse' : top[g] \in Held(h, v)
    BY <1>1 DEF InUse, Held
  <2> QED
    BY <2>2, <2>3, UseTyped, HeldByUse
<1>3. \A g \in Graphs : /\ graph[g] # "unused" => graph'[g] # "unused"
                        /\ graph'[g] = "exists" => graph[g] = "exists" /\ g \notin e.dead
  BY <1>1
<1>4. /\ \A g \in e.dead : g \in Graphs /\ top[g] \in e.dead /\ top[top[g]] = top[g]
      /\ \A g \in Graphs : g \in e.dead /\ top[g] = g => \A s \in Streams : capture'[s] # g
      /\ \A g \in Graphs : top[g] \in e.dead => top[g] \in broken'
  <2>1. CASE e.dead = {}
    BY <2>1
  <2>2. CASE e.dead # {}
    <3> DEFINE c == capture[stream[b]]
    <3>1. /\ c \in Graphs /\ top[c] = c /\ e.dead = {x \in Graphs : top[x] = c} /\ e.left = Members(c)
      BY <2>2 DEF Ends
    <3>2. \A s \in Streams : capture'[s] # c
      BY <1>1, <3>1, NoneIsNothing DEF Members
    <3>3. \A g \in Graphs : top[top[g]] = top[g]
      BY DEF Hierarchies
    <3> HIDE DEF c
    <3> QED
      BY <1>1, <3>1, <3>2, <3>3
  <2> QED
    BY <2>1, <2>2
<1>5. Streamed'
  BY <1>1, NoneIsNothing DEF Streamed
<1>6. Hierarchies'
  BY <1>1, <1>3, NoneIsNothing DEF Hierarchies, TypeOK
<1>7. Unread'
  <2> SUFFICES ASSUME NEW g \in unread
               PROVE  /\ top[g] = g /\ graph'[g] # "unused"
                      /\ \A x \in InUse' : top[x] # g
                      /\ \A s \in Streams : capture'[s] = g => graph'[g] = "exists"
    BY <1>1 DEF Unread
  <2>1. /\ g \in Graphs /\ top[g] = g /\ graph[g] # "unused" /\ \A x \in InUse : top[x] # g
        /\ \A s \in Streams : capture[s] = g => graph[g] = "exists"
    BY DEF Unread, TypeOK
  <2>2. g \notin Held(handle, view)
    BY <2>1, HeldByUse
  <2>3. ASSUME NEW s \in Streams, capture'[s] = g PROVE graph'[g] = "exists"
    <3>1. capture[s] = g /\ g # None
      BY <1>1, <2>1, <2>3, NoneIsNothing
    <3>2. g \notin e.dead
      BY <1>4, <2>1, <2>3
    <3> QED
      BY <1>1, <2>1, <2>2, <3>1, <3>2
  <2> QED
    BY <1>2, <1>3, <2>1, <2>3
<1>8. Used'
  <2> SUFFICES ASSUME NEW g \in InUse'
               PROVE  graph'[g] # "unused" /\ (top[g] \in broken' \/ (graph'[g] = "exists" /\ graph'[top[g]] = "exists"))
    BY <1>1 DEF Used, Alive
  <2>1. /\ g \in Graphs /\ top[g] \in Graphs /\ top[top[g]] = top[g]
        /\ graph[g] # "unused" /\ (top[g] \in broken \/ (graph[g] = "exists" /\ graph[top[g]] = "exists"))
    BY <1>2 DEF Used, Alive, Hierarchies, TypeOK
  <2>2. CASE top[g] \in broken
    BY <1>1, <1>3, <2>1, <2>2
  <2>3. CASE top[g] \in e.dead
    BY <1>3, <1>4, <2>1, <2>3
  <2>4. CASE /\ graph[g] = "exists" /\ graph[top[g]] = "exists" /\ top[g] \notin e.dead
    <3>1. g \notin e.dead
      BY <1>4, <2>4
    <3>2. top[g] \in Held(h, v)
      BY <1>2
    <3> QED
      BY <1>1, <2>1, <2>4, <3>1, <3>2
  <2> QED
    BY <2>1, <2>2, <2>3, <2>4
<1>9. Known'
  <2> SUFFICES ASSUME NEW x \in Builders, stream'[x] # None, capture'[stream'[x]] # None
               PROVE  /\ state'[x] = "capturing"
                      /\ kind[x] # "forked" => origin[capture'[stream'[x]]] = stream'[x]
                      /\ h[x] = capture'[stream'[x]] \/ (h[x] = None /\ capture'[stream'[x]] \in unread)
    BY <1>1 DEF Known, Knows
  <2>1. stream'[x] = stream[x] /\ stream[x] \in Streams /\ h[x] = handle[x]
    BY DEF TypeOK
  <2>2. capture'[stream[x]] = capture[stream[x]] /\ stream[x] \notin e.left
    BY <1>1, <2>1
  <2>3. Knows(x)
    BY DEF Known
  <2>4. state'[x] = state[x]
    BY <2>1, <2>2
  <2> QED
    BY <2>1, <2>2, <2>3, <2>4 DEF Knows
<1>10. Begins'
  <2> SUFFICES ASSUME NEW x \in Builders, OwnsCapture(x)', x \notin failed'
               PROVE  capture'[stream'[x]] # None
    BY DEF Begins
  <2>1. OwnsCapture(x) /\ stream'[x] = stream[x] /\ x \notin failed
    BY DEF OwnsCapture
  <2>2. stream[x] \in Streams /\ capture[stream[x]] # None
    BY <2>1 DEF Begins, OwnsCapture, TypeOK
  <2>3. origin[capture[stream[x]]] = stream[x]
    BY <2>1, <2>2, NoneIsNothing DEF Known, Knows, OwnsCapture
  <2>4. ASSUME stream[x] \in e.left PROVE FALSE
    <3>1. /\ b \in Builders /\ stream[b] \in Streams
          /\ origin[capture[stream[b]]] = stream[b] /\ e.left = Members(capture[stream[b]])
      BY <2>4 DEF Ends
    <3>2. stream[x] = stream[b]
      BY <2>3, <2>4, <3>1 DEF Members
    <3>3. x = b
      BY <2>2, <3>1, <3>2, NoneIsNothing DEF Streamed
    <3> QED
      BY <2>4, <3>3 DEF OwnsCapture
  <2> QED
    BY <1>1, <2>1, <2>2, <2>4
<1>11. BodiesAlone'
  BY <1>1 DEF BodiesAlone
<1>12. Finished'
  <2> SUFFICES ASSUME NEW x \in Builders
               PROVE  /\ state'[x] \in {"capturing", "ended"} /\ h[x] = None => unread # {}
                      /\ state'[x] = "ended" /\ h[x] # None => \A s \in Streams : capture'[s] # h[x]
    BY <1>1 DEF Finished
  <2>1. CASE state'[x] \notin {"capturing", "ended"}
    BY <2>1
  <2>2. CASE state'[x] = state[x] /\ h[x] = handle[x]
    BY <1>1, <2>2, NoneIsNothing DEF Finished, TypeOK
  <2>3. CASE x = b /\ state'[b] = "ended" /\ h[b] = handle[b] /\ stream[b] \in e.left
    <3>1. /\ stream[b] \in Streams /\ capture[stream[b]] # None /\ e.left = Members(capture[stream[b]])
      BY <2>3 DEF Ends
    <3>2. Knows(b) /\ stream[b] # None
      BY <2>3, <3>1, NoneIsNothing DEF Known
    <3>3. handle[b] = capture[stream[b]] \/ (handle[b] = None /\ unread # {})
      BY <3>1, <3>2 DEF Knows
    <3>4. \A s \in Streams : capture'[s] # capture[stream[b]]
      BY <1>1, <3>1 DEF Members
    <3> QED
      BY <2>3, <3>1, <3>3, <3>4
  <2>4. CASE x # b
    BY <2>2, <2>4
  <2>5. CASE x = b
    BY <2>1, <2>2, <2>3, <2>5
  <2> QED
    BY <2>4, <2>5
<1>14. (again \subseteq broken)'
  <2> SUFFICES ASSUME NEW g \in again', g \notin again PROVE g \in broken'
    BY <1>1
  <2>1. g \in Held(handle, view) /\ (graph[g] = "exists" => g \in e.dead)
    BY <1>1
  <2>2. PICK x \in InUse : top[x] = g
    BY <2>1, HeldByUse
  <2>3. /\ g \in Graphs /\ top[g] = g /\ (g \in broken \/ graph[g] = "exists")
    BY <1>2, <2>2 DEF Used, Alive, Hierarchies, TypeOK
  <2> QED
    BY <1>1, <2>1, <2>3
<1> QED
  BY <1>5, <1>6, <1>7, <1>8, <1>9, <1>10, <1>11, <1>12, <1>14

LEMMA SoleInit == Init => Sole
<1> SUFFICES ASSUME Init PROVE Sole
  OBVIOUS
<1>1. InUse = {}
  BY DEF Init, InUse
<1>2. Streamed /\ Hierarchies /\ Known /\ Begins /\ BodiesAlone /\ Finished /\ again \subseteq broken
  BY DEF Init, Streamed, Hierarchies, Known, Knows, Begins, BodiesAlone, Finished, OwnsCapture
<1>3. Unread /\ Used
  BY <1>1 DEF Init, Unread, Used
<1> QED
  BY <1>2, <1>3 DEF Sole

\* A new graph is in nobody's hierarchy, captured by nobody and named by nobody.
LEMMA NewGraph ==
  ASSUME TypeOK, Inv, Sole, NEW g \in Graphs, graph[g] = "unused"
  PROVE  /\ top[g] = g /\ g \notin InUse /\ g \notin unread
         /\ \A x \in Graphs : x # g => top[x] # g
         /\ \A s \in Streams : capture[s] # g
         /\ \A x \in Builders : handle[x] # g
         /\ \A x \in InUse : top[x] # g
<1>1. top[g] = g /\ g \notin InUse /\ g \notin unread
  BY DEF Sole, Hierarchies, Used, Unread
<1>2. \A x \in Graphs : x # g => top[x] # g
  BY DEF Sole, Hierarchies
<1>3. (\A s \in Streams : capture[s] # g) /\ \A x \in Builders : handle[x] # g
  BY NoneIsNothing DEF Inv, NotNew
<1> QED
  BY <1>1, <1>2, <1>3, UseTyped

\* A capture's graph, seen from a builder on whose stream it is: its hierarchy
\* is held, or it could not be read.
LEMMA CapturedGraph ==
  ASSUME TypeOK, Inv, Sole, NEW b \in Builders, stream[b] \in Streams, capture[stream[b]] # None
  PROVE  /\ capture[stream[b]] \in Graphs /\ graph[capture[stream[b]]] # "unused"
         /\ state[b] = "capturing"
         /\ \/ handle[b] = capture[stream[b]] /\ capture[stream[b]] \in InUse
            \/ /\ handle[b] = None /\ capture[stream[b]] \in unread
               /\ top[capture[stream[b]]] = capture[stream[b]] /\ graph[capture[stream[b]]] = "exists"
<1>1. capture[stream[b]] \in Graphs /\ graph[capture[stream[b]]] # "unused" /\ stream[b] # None
  BY NoneIsNothing DEF TypeOK, Inv, NotNew
<1>2. Knows(b)
  BY DEF Sole, Known
<1>3. handle[b] = capture[stream[b]] => capture[stream[b]] \in InUse
  BY <1>1, NoneIsNothing DEF InUse
<1>4. capture[stream[b]] \in unread =>
        top[capture[stream[b]]] = capture[stream[b]] /\ graph[capture[stream[b]]] = "exists"
  BY <1>1 DEF Sole, Unread
<1> QED
  BY <1>1, <1>2, <1>3, <1>4 DEF Knows

LEMMA CreateSole ==
  ASSUME TypeOK, Sole, ~SharedStreams, NEW b \in Builders, NEW s \in Streams, Create(b, s)
  PROVE  Sole'
<1> USE DEF Sole
<1>1. /\ state[b] = "unborn" /\ capture[s] = None /\ \A x \in Builders : stream[x] # s
      /\ kind'[b] = "primary" /\ state'[b] = "not_started" /\ stream'[b] = s /\ handle'[b] = None
      /\ \A x \in Builders \ {b} : /\ kind'[x] = kind[x] /\ state'[x] = state[x]
                                   /\ stream'[x] = stream[x] /\ handle'[x] = handle[x]
      /\ UNCHANGED <<view, graph, top, capture, origin, invalid, reach, failed, broken, unread, again>>
  BY DEF Create, Idle, Born, TypeOK, driver, history
<1>2. stream[b] = None /\ handle[b] = None
  BY <1>1 DEF TypeOK, Streamed
<1>3. handle' = handle /\ InUse' = InUse /\ Held(handle, view)' = Held(handle, view)
  <2>1. \A x \in Builders : handle'[x] = handle[x]
    BY <1>1, <1>2
  <2>2. handle' = handle
    BY <1>1, <1>2 DEF Create, Born, TypeOK
  <2> QED
    BY <1>1, <2>2 DEF InUse, Held
<1>4. Streamed'
  BY <1>1, <1>3, NoneIsNothing DEF Streamed
<1>5. Hierarchies' /\ Unread' /\ Used'
  BY <1>1, <1>3 DEF Hierarchies, Unread, Used, Alive
<1>6. Known'
  BY <1>1 DEF Known, Knows
<1>7. Begins' /\ BodiesAlone' /\ Finished'
  BY <1>1, <1>3 DEF Begins, OwnsCapture, BodiesAlone, Finished
<1>8. again' \subseteq broken'
  BY <1>1, <1>3
<1> QED
  BY <1>4, <1>5, <1>6, <1>7, <1>8

LEMMA SplitSole ==
  ASSUME TypeOK, Inv, Sole, NEW b \in Builders, NEW f \in Builders, NEW s \in Streams, Split(b, f, s)
  PROVE  Sole'
<1> USE DEF Sole
<1>1. /\ state[f] = "unborn" /\ capture[s] = None /\ \A x \in Builders : stream[x] # s
      /\ state[b] = "capturing"
      /\ kind'[f] = "forked" /\ state'[f] = "capturing" /\ stream'[f] = s /\ handle'[f] = handle[b]
      /\ \A x \in Builders \ {f} : /\ kind'[x] = kind[x] /\ state'[x] = state[x]
                                   /\ stream'[x] = stream[x] /\ handle'[x] = handle[x]
      /\ \A t \in Streams : capture'[t] = IF t = s THEN capture[stream[b]] ELSE capture[t]
      /\ UNCHANGED <<view, graph, top, origin, invalid, failed, broken, unread, again>>
  BY DEF Split, Idle, Born, TypeOK, driver, history
<1>2. stream[f] = None /\ handle[f] = None /\ stream[b] \in Streams /\ b # f /\ stream[b] # None
  BY <1>1, NoneIsNothing DEF TypeOK, Streamed
<1>3. InUse' = InUse /\ Held(handle, view)' = Held(handle, view)
  <2>1. InUse' = InUse
    BY <1>1, <1>2 DEF InUse
  <2> QED
    BY <1>1, <2>1, SameUse
<1>4. Streamed'
  BY <1>1, <1>2, NoneIsNothing DEF Streamed
<1>5. Hierarchies' /\ Used'
  BY <1>1, <1>3 DEF Hierarchies, Used, Alive
<1>6. Unread'
  <2>1. \A t \in Streams : \E u \in Streams : capture'[t] = capture[u]
    BY <1>1, <1>2
  <2> QED
    BY <1>1, <1>3, <2>1 DEF Unread
<1>7. Known'
  <2>1. Knows(b) /\ \A x \in Builders : Knows(x)
    BY DEF Known
  <2>2. ASSUME NEW x \in Builders, x # f PROVE Knows(x)'
    <3>1. stream[x] # None => stream[x] \in Streams /\ stream[x] # s
      BY <1>1 DEF TypeOK
    <3> QED
      BY <1>1, <2>1, <2>2, <3>1 DEF Knows
  <2>3. Knows(f)'
    BY <1>1, <1>2, <2>1 DEF Knows
  <2> QED
    BY <2>2, <2>3 DEF Known
<1>8. Begins'
  <2> SUFFICES ASSUME NEW x \in Builders, OwnsCapture(x)', x \notin failed'
               PROVE  capture'[stream'[x]] # None
    BY DEF Begins
  <2>1. x # f /\ OwnsCapture(x) /\ x \notin failed
    BY <1>1 DEF OwnsCapture
  <2>2. stream[x] \in Streams /\ stream[x] # s /\ capture[stream[x]] # None
    BY <1>1, <2>1, NoneIsNothing DEF Begins, OwnsCapture, TypeOK
  <2> QED
    BY <1>1, <2>1, <2>2
<1>9. BodiesAlone'
  BY <1>1, <1>2 DEF BodiesAlone
<1>10. Finished'
  <2>1. \A t \in Streams : \E u \in Streams : capture'[t] = capture[u]
    BY <1>1, <1>2
  <2>2. handle[b] = None => unread # {}
    BY <1>1 DEF Finished
  <2> QED
    BY <1>1, <2>1, <2>2 DEF Finished
<1>11. again' \subseteq broken'
  BY <1>1, <1>3
<1> QED
  BY <1>4, <1>5, <1>6, <1>7, <1>8, <1>9, <1>10, <1>11

LEMMA ConditionalSole ==
  ASSUME TypeOK, Inv, Sole, NEW b \in Builders, NEW f \in Builders, NEW s \in Streams, NEW g \in Graphs,
         Conditional(b, f, s, g)
  PROVE  Sole'
<1> USE DEF Sole
<1> DEFINE c == capture[stream[b]]
<1>1. /\ Open(b) /\ c # None
      /\ state[f] = "unborn" /\ capture[s] = None /\ \A x \in Builders : stream[x] # s
      /\ graph[g] = "unused"
      /\ kind'[f] = "conditional_body" /\ state'[f] = "not_started" /\ stream'[f] = s
      /\ handle'[f] = IF handle[b] = None THEN None ELSE g
      /\ \A x \in Builders \ {f} : /\ kind'[x] = kind[x] /\ state'[x] = state[x]
                                   /\ stream'[x] = stream[x] /\ handle'[x] = handle[x]
      /\ \A x \in Graphs : /\ graph'[x] = IF x = g THEN "exists" ELSE graph[x]
                           /\ top'[x] = IF x = g THEN top[c] ELSE top[x]
      /\ UNCHANGED <<view, capture, origin, invalid, failed, broken, unread, again>>
  BY DEF Conditional, Active, Idle, Born, TypeOK, driver, history
<1>2. /\ stream[f] = None /\ handle[f] = None /\ stream[b] \in Streams /\ b # f
  BY <1>1 DEF TypeOK, Streamed, Open, States
<1>3. /\ c \in Graphs /\ graph[c] # "unused" /\ state[b] = "capturing"
      /\ \/ handle[b] = c /\ c \in InUse
         \/ handle[b] = None /\ c \in unread /\ top[c] = c /\ graph[c] = "exists"
  BY <1>1, <1>2, CapturedGraph
<1> HIDE DEF c
<1>4. /\ top[g] = g /\ g \notin InUse /\ g \notin unread /\ c # g
      /\ \A x \in Graphs : x # g => top[x] # g
      /\ \A t \in Streams : capture[t] # g
      /\ \A x \in Builders : handle[x] # g
      /\ \A x \in InUse : top[x] # g
  BY <1>1, <1>3, NewGraph
<1>5. top[c] \in Graphs /\ top[c] # g /\ top[top[c]] = top[c] /\ graph[top[c]] # "unused"
  BY <1>3, <1>4 DEF Hierarchies, TypeOK
<1>6. /\ InUse' = IF handle[b] = None THEN InUse ELSE InUse \cup {g}
      /\ \A x \in InUse : x \in Graphs /\ x # g /\ top'[x] = top[x]
  <2>1. \A x \in InUse : x \in Graphs /\ x # g /\ top'[x] = top[x]
    BY <1>1, <1>4, UseTyped
  <2>2. CASE handle[b] = None
    <3>1. \A x \in Builders : handle'[x] = handle[x]
      BY <1>1, <1>2, <2>2
    <3> QED
      BY <1>1, <2>1, <2>2, <3>1 DEF InUse
  <2>3. CASE handle[b] # None
    <3>1. \A x \in Builders : handle'[x] = IF x = f THEN g ELSE handle[x]
      BY <1>1, <2>3
    <3> QED
      BY <1>1, <1>2, <2>1, <2>3, <3>1, NoneIsNothing DEF InUse
  <2> QED
    BY <2>1, <2>2, <2>3
<1>7. Held(handle, view) \subseteq Held(handle, view)' /\ (handle[b] # None => top[c] \in Held(handle, view))
  <2>1. \A x : x \in Held(handle, view)' <=> \E y \in InUse' : top'[y] = x
    BY DEF Held, InUse
  <2>2. Held(handle, view) \subseteq Held(handle, view)'
    BY <1>6, <2>1, HeldByUse
  <2> QED
    BY <1>3, <2>2, HeldByUse
<1>8. Streamed'
  BY <1>1, <1>2, NoneIsNothing DEF Streamed
<1>9. Hierarchies'
  BY <1>1, <1>3, <1>4, <1>5 DEF Hierarchies, TypeOK
<1>10. Unread'
  <2> SUFFICES ASSUME NEW x \in unread
               PROVE  /\ top'[x] = x /\ graph'[x] # "unused"
                      /\ \A y \in InUse' : top'[y] # x
                      /\ \A t \in Streams : capture[t] = x => graph'[x] = "exists"
    BY <1>1 DEF Unread
  <2>1. /\ x \in Graphs /\ x # g /\ top[x] = x /\ graph[x] # "unused" /\ \A y \in InUse : top[y] # x
        /\ \A t \in Streams : capture[t] = x => graph[x] = "exists"
    BY <1>4 DEF Unread, TypeOK
  <2>2. handle[b] # None => top'[g] # x
    BY <1>1, <1>3, <2>1
  <2> QED
    BY <1>1, <1>6, <2>1, <2>2
<1>11. Used'
  <2> SUFFICES ASSUME NEW x \in InUse'
               PROVE  graph'[x] # "unused" /\ (top'[x] \in broken \/ (graph'[x] = "exists" /\ graph'[top'[x]] = "exists"))
    BY <1>1 DEF Used, Alive
  <2>1. CASE x \in InUse
    <3>1. /\ x \in Graphs /\ x # g /\ top'[x] = top[x] /\ top[x] \in Graphs /\ top[x] # g
          /\ graph[x] # "unused" /\ (top[x] \in broken \/ (graph[x] = "exists" /\ graph[top[x]] = "exists"))
      BY <1>4, <1>6, <2>1 DEF Used, Alive, TypeOK
    <3> QED
      BY <1>1, <3>1
  <2>2. CASE x = g /\ handle[b] # None
    <3>1. c \in InUse /\ (top[c] \in broken \/ graph[top[c]] = "exists")
      BY <1>3, <2>2 DEF Used, Alive
    <3> QED
      BY <1>1, <1>5, <2>2, <3>1
  <2> QED
    BY <1>6, <2>1, <2>2
<1>12. Known'
  BY <1>1 DEF Known, Knows
<1>13. Begins'
  BY <1>1 DEF Begins, OwnsCapture
<1>14. BodiesAlone'
  BY <1>1, <1>2, <1>4 DEF BodiesAlone
<1>15. Finished'
  BY <1>1 DEF Finished
<1> QED
  BY <1>1, <1>8, <1>9, <1>10, <1>11, <1>12, <1>13, <1>14, <1>15

LEMMA BeginSole ==
  ASSUME TypeOK, Inv, Sole, NEW b \in Builders, NEW g \in Graphs, NEW ok \in BOOLEAN, Begin(b, g, ok)
  PROVE  Sole'
<1> USE DEF Sole
<1>1. /\ kind[b] = "primary" /\ state[b] = "not_started" /\ graph[g] = "unused" /\ capture[stream[b]] = None
      /\ state'[b] = "capturing" /\ handle'[b] = IF ok THEN g ELSE None
      /\ \A x \in Builders \ {b} : state'[x] = state[x] /\ handle'[x] = handle[x]
      /\ \A t \in Streams : capture'[t] = IF t = stream[b] THEN g ELSE capture[t]
      /\ \A x \in Graphs : /\ graph'[x] = IF x = g THEN "exists" ELSE graph[x]
                           /\ origin'[x] = IF x = g THEN stream[b] ELSE origin[x]
      /\ unread' = IF ok THEN unread ELSE unread \cup {g}
      /\ UNCHANGED <<kind, stream, view, top, invalid, failed, broken, again>>
  BY DEF Begin, BeginCapture, Begun, Adopted, TypeOK
<1>2. stream[b] \in Streams /\ stream[b] # None /\ handle[b] = None
  BY <1>1, NoneIsNothing DEF TypeOK, Streamed
<1>3. /\ top[g] = g /\ g \notin InUse /\ g \notin unread
      /\ \A x \in Graphs : x # g => top[x] # g
      /\ \A t \in Streams : capture[t] # g
      /\ \A x \in Builders : handle[x] # g
      /\ \A x \in InUse : top[x] # g
  BY <1>1, NewGraph
<1>4. InUse' = (IF ok THEN InUse \cup {g} ELSE InUse) /\ InUse \subseteq Graphs
  <2>1. CASE ok
    <3>1. \A x \in Builders : handle'[x] = IF x = b THEN g ELSE handle[x]
      BY <1>1, <2>1
    <3> QED
      BY <1>1, <1>2, <2>1, <3>1, UseTyped, NoneIsNothing DEF InUse
  <2>2. CASE ~ok
    <3>1. \A x \in Builders : handle'[x] = handle[x]
      BY <1>1, <1>2, <2>2
    <3> QED
      BY <1>1, <2>2, <3>1, UseTyped DEF InUse
  <2> QED
    BY <2>1, <2>2
<1>5. \A x : x \in Held(handle, view)' <=> \E y \in InUse' : top[y] = x
  BY <1>1 DEF Held, InUse
<1>6. Streamed' /\ Hierarchies'
  BY <1>1, <1>2, <1>3 DEF Streamed, Hierarchies, TypeOK
<1>7. Unread'
  <2> SUFFICES ASSUME NEW x \in unread'
               PROVE  /\ top[x] = x /\ graph'[x] # "unused"
                      /\ \A y \in InUse' : top[y] # x
                      /\ \A t \in Streams : capture'[t] = x => graph'[x] = "exists"
    BY <1>1 DEF Unread
  <2>1. CASE x = g
    BY <1>1, <1>3, <1>4, <2>1
  <2>2. CASE x # g
    <3>1. /\ x \in unread /\ x \in Graphs /\ top[x] = x /\ graph[x] # "unused" /\ \A y \in InUse : top[y] # x
          /\ \A t \in Streams : capture[t] = x => graph[x] = "exists"
      BY <1>1, <2>2 DEF Unread, TypeOK
    <3> QED
      BY <1>1, <1>3, <1>4, <2>2, <3>1
  <2> QED
    BY <2>1, <2>2
<1>8. Used'
  <2> SUFFICES ASSUME NEW x \in InUse'
               PROVE  graph'[x] # "unused" /\ (top[x] \in broken \/ (graph'[x] = "exists" /\ graph'[top[x]] = "exists"))
    BY <1>1 DEF Used, Alive
  <2>1. CASE x = g
    BY <1>1, <1>3, <2>1
  <2>2. CASE x # g
    BY <1>1, <1>4, <2>2 DEF Used, Alive, TypeOK
  <2> QED
    BY <2>1, <2>2
<1>9. Known'
  <2> SUFFICES ASSUME NEW x \in Builders PROVE Knows(x)'
    BY DEF Known
  <2>1. CASE x = b
    BY <1>1, <1>2, <2>1 DEF Knows
  <2>2. CASE x # b
    <3>1. stream[x] # None => stream[x] \in Streams /\ stream[x] # stream[b]
      BY <1>2, <2>2 DEF Streamed, TypeOK
    <3>2. Knows(x)
      BY DEF Known
    <3>3. stream[x] # None /\ capture[stream[x]] # None => capture[stream[x]] \in Graphs /\ capture[stream[x]] # g
      BY <1>3, <3>1 DEF TypeOK
    <3> QED
      BY <1>1, <2>2, <3>1, <3>2, <3>3 DEF Knows
  <2> QED
    BY <2>1, <2>2
<1>10. Begins'
  <2> SUFFICES ASSUME NEW x \in Builders, OwnsCapture(x)', x \notin failed
               PROVE  capture'[stream[x]] # None
    BY <1>1 DEF Begins
  <2>1. CASE x = b
    BY <1>1, <1>2, <2>1, NoneIsNothing
  <2>2. CASE x # b
    <3>1. OwnsCapture(x) /\ stream[x] \in Streams /\ capture[stream[x]] # None
      BY <1>1, <2>2, NoneIsNothing DEF OwnsCapture, Begins, TypeOK
    <3> QED
      BY <1>1, <3>1, NoneIsNothing
  <2> QED
    BY <2>1, <2>2
<1>11. BodiesAlone'
  BY <1>1, <1>3 DEF BodiesAlone
<1>12. Finished'
  <2> SUFFICES ASSUME NEW x \in Builders
               PROVE  /\ state'[x] \in {"capturing", "ended"} /\ handle'[x] = None => unread' # {}
                      /\ state'[x] = "ended" /\ handle'[x] # None => \A t \in Streams : capture'[t] # handle'[x]
    BY DEF Finished
  <2>1. CASE x = b
    BY <1>1, <2>1, NoneIsNothing
  <2>2. CASE x # b
    BY <1>1, <1>3, <2>2 DEF Finished
  <2> QED
    BY <2>1, <2>2
<1> QED
  BY <1>1, <1>6, <1>7, <1>8, <1>9, <1>10, <1>11, <1>12

LEMMA BeginBodySole ==
  ASSUME TypeOK, Inv, Sole, NEW b \in Builders, BeginBody(b)
  PROVE  Sole'
<1> USE DEF Sole
<1> DEFINE g == handle[b]
<1>1. /\ kind[b] = "conditional_body" /\ state[b] = "not_started" /\ capture[stream[b]] = None
      /\ g \in Graphs /\ graph[g] = "exists"
      /\ state'[b] = "capturing"
      /\ \A x \in Builders \ {b} : state'[x] = state[x]
      /\ \A t \in Streams : capture'[t] = IF t = stream[b] THEN g ELSE capture[t]
      /\ \A x \in Graphs : origin'[x] = IF x = g THEN stream[b] ELSE origin[x]
      /\ UNCHANGED <<kind, handle, stream, view, graph, top, invalid, failed, broken, unread, again>>
  BY DEF BeginBody, BeginCapture, TypeOK
<1>2. stream[b] \in Streams /\ stream[b] # None /\ g # None /\ g \in InUse
  BY <1>1, NoneIsNothing DEF TypeOK, InUse
<1>3. (\A t \in Streams : capture[t] # g) /\ \A x \in Builders : handle[x] = g => x = b
  BY <1>1, <1>2 DEF Inv, BodiesWait, BodiesAlone
<1>4. InUse' = InUse /\ Held(handle, view)' = Held(handle, view)
  BY <1>1 DEF InUse, Held
<1> HIDE DEF g
<1>5. Streamed' /\ Hierarchies' /\ Used'
  BY <1>1, <1>4 DEF Streamed, Hierarchies, Used, Alive
<1>6. Unread'
  BY <1>1, <1>2, <1>4 DEF Unread
<1>7. Known'
  <2> SUFFICES ASSUME NEW x \in Builders PROVE Knows(x)'
    BY DEF Known
  <2>1. CASE x = b
    BY <1>1, <1>2, <2>1 DEF Knows, g
  <2>2. CASE x # b
    <3>1. stream[x] # None => stream[x] \in Streams /\ stream[x] # stream[b]
      BY <1>2, <2>2 DEF Streamed, TypeOK
    <3>2. Knows(x)
      BY DEF Known
    <3>3. stream[x] # None /\ capture[stream[x]] # None => capture[stream[x]] \in Graphs /\ capture[stream[x]] # g
      BY <1>3, <3>1 DEF TypeOK
    <3> QED
      BY <1>1, <2>2, <3>1, <3>2, <3>3 DEF Knows
  <2> QED
    BY <2>1, <2>2
<1>8. Begins'
  <2> SUFFICES ASSUME NEW x \in Builders, OwnsCapture(x)', x \notin failed
               PROVE  capture'[stream[x]] # None
    BY <1>1 DEF Begins
  <2>1. CASE x = b
    BY <1>1, <1>2, <2>1
  <2>2. CASE x # b
    <3>1. OwnsCapture(x) /\ stream[x] \in Streams /\ capture[stream[x]] # None
      BY <1>1, <2>2, NoneIsNothing DEF OwnsCapture, Begins, TypeOK
    <3> QED
      BY <1>1, <1>2, <3>1
  <2> QED
    BY <2>1, <2>2
<1>9. BodiesAlone'
  BY <1>1 DEF BodiesAlone
<1>10. Finished'
  <2> SUFFICES ASSUME NEW x \in Builders
               PROVE  /\ state'[x] \in {"capturing", "ended"} /\ handle[x] = None => unread # {}
                      /\ state'[x] = "ended" /\ handle[x] # None => \A t \in Streams : capture'[t] # handle[x]
    BY <1>1 DEF Finished
  <2>1. CASE x = b
    BY <1>1, <1>2, <2>1 DEF g
  <2>2. CASE x # b
    BY <1>1, <1>3, <2>2 DEF Finished
  <2> QED
    BY <2>1, <2>2
<1>11. again' \subseteq broken'
  BY <1>1, <1>4
<1> QED
  BY <1>5, <1>6, <1>7, <1>8, <1>9, <1>10, <1>11

LEMMA EndSole ==
  ASSUME TypeOK, Sole, NEW b \in Builders, End(b)
  PROVE  Sole'
<1> DEFINE e == EndCapture(stream[b])
<1>1. stream[b] \in Streams
  BY DEF End, Open, TypeOK, States
<1>2. /\ kind' = kind /\ stream' = stream /\ Release(e, handle, view, reach)
      /\ state' = [state EXCEPT ![b] = IF e.ok THEN "ended" ELSE state[b]]
      /\ failed' = IF e.ok THEN failed ELSE failed \cup {b}
  BY DEF End, AfterEnd
<1>3. Ends(b, e) /\ (e.ok => stream[b] \in e.left)
  BY <1>1, EndsEnd
<1> HIDE DEF e
<1>4. /\ state'[b] = IF e.ok THEN "ended" ELSE state[b]
      /\ \A x \in Builders : x # b => handle[x] = handle[x] /\ state'[x] = state[x] /\ stream'[x] = stream[x]
      /\ failed \subseteq failed' /\ handle \in [Builders -> Graphs \cup {None}]
      /\ e.ok \/ b \in failed'
  BY <1>2 DEF TypeOK
<1>5. \/ state'[b] \in {"closed", "dropped"} /\ stream'[b] = None /\ handle[b] = None
      \/ /\ handle[b] = handle[b] /\ stream'[b] = stream[b]
         /\ state'[b] = state[b] \/ (state'[b] = "ended" /\ stream[b] \in e.left)
  BY <1>2, <1>3, <1>4
<1>6. state'[b] \in {"closed", "dropped", "ended"} \/ b \in failed'
  BY <1>4
<1> QED
  BY <1>2, <1>3, <1>4, <1>5, <1>6, ReleaseSole

\* What close and __dealloc__ may end.
LEMMA EndsIfNeeded ==
  ASSUME TypeOK, NEW b \in Builders
  PROVE  Ends(b, EndIfNeeded(b))
<1>1. CASE OwnsCapture(b)
  <2>1. stream[b] \in Streams
    BY <1>1 DEF OwnsCapture, TypeOK
  <2> QED
    BY <1>1, <2>1, EndsEnd DEF EndIfNeeded
<1>2. CASE ~OwnsCapture(b)
  BY <1>2, EndsNothing DEF EndIfNeeded
<1> QED
  BY <1>1, <1>2

LEMMA DisposeSole ==
  ASSUME TypeOK, Sole, NEW b \in Builders, NEW e, Ends(b, e), NEW st \in {"closed", "dropped"}, NEW rch,
         state' = [state EXCEPT ![b] = st], stream' = [stream EXCEPT ![b] = None],
         Release(e, [handle EXCEPT ![b] = None], view, rch), kind' = kind, failed' = failed
  PROVE  Sole'
<1> DEFINE h == [handle EXCEPT ![b] = None]
<1>1. /\ h \in [Builders -> Graphs \cup {None}]
      /\ \A x \in Builders : x # b => h[x] = handle[x] /\ state'[x] = state[x] /\ stream'[x] = stream[x]
      /\ state'[b] \in {"closed", "dropped"} /\ stream'[b] = None /\ h[b] = None
  BY DEF TypeOK
<1> HIDE DEF h
<1>2. Release(e, h, view, rch)
  BY DEF h
<1> QED
  BY <1>1, <1>2, ReleaseSole

LEMMA CloseSole ==
  ASSUME TypeOK, Sole, NEW b \in Builders, Close(b)
  PROVE  Sole'
<1> DEFINE e == EndIfNeeded(b)
<1>1. Ends(b, e)
  BY EndsIfNeeded
<1>2. \/ Dispose(b, "closed", e)
      \/ failed' = failed \cup {b} /\ Release(e, handle, view, reach) /\ UNCHANGED <<kind, state, stream>>
  BY DEF Close
<1> HIDE DEF e
<1>3. CASE Dispose(b, "closed", e)
  BY <1>1, <1>3, DisposeSole DEF Dispose
<1>4. CASE failed' = failed \cup {b} /\ Release(e, handle, view, reach) /\ UNCHANGED <<kind, state, stream>>
  <2>1. handle \in [Builders -> Graphs \cup {None}]
    BY DEF TypeOK
  <2> QED
    BY <1>1, <1>4, <2>1, ReleaseSole
<1> QED
  BY <1>2, <1>3, <1>4

LEMMA DeallocSole ==
  ASSUME TypeOK, Sole, NEW b \in Builders, Dealloc(b)
  PROVE  Sole'
<1>1. Ends(b, EndIfNeeded(b))
  BY EndsIfNeeded
<1>2. Dispose(b, "dropped", EndIfNeeded(b))
  BY DEF Dealloc, EndsOnDealloc
<1> QED
  BY <1>1, <1>2, DisposeSole DEF Dispose

LEMMA StrandSole ==
  ASSUME TypeOK, Sole, NEW b \in Builders, Strand(b)
  PROVE  Sole'
  BY EndsNothing, DisposeSole DEF Strand, Dispose

LEMMA JoinSole ==
  ASSUME TypeOK, Sole, NEW r \in Builders, NEW b \in Builders, Join(r, b)
  PROVE  Sole'
<1>1. Ends(b, NoEnd)
  BY EndsNothing
<1> QED
  BY <1>1, DisposeSole DEF Join

LEMMA ViewSole ==
  ASSUME TypeOK, Sole, NEW b \in Builders, View(b)
  PROVE  Sole'
<1>1. /\ handle[b] # None /\ view' = view \cup {handle[b]}
      /\ UNCHANGED <<kind, state, stream, handle, graph, top, capture, origin, failed, broken, unread, again>>
  BY DEF View, builder, driver, history
<1>2. InUse' = InUse
  BY <1>1 DEF InUse
<1>3. Held(handle, view)' = Held(handle, view)
  BY <1>1, <1>2, SameUse
<1>4. Streamed' /\ Hierarchies' /\ Unread' /\ Used'
  BY <1>1, <1>2 DEF Sole, Streamed, Hierarchies, Unread, Used, Alive
<1>5. Known' /\ Begins' /\ BodiesAlone' /\ Finished' /\ again' \subseteq broken'
  BY <1>1, <1>3 DEF Sole, Known, Knows, Begins, OwnsCapture, BodiesAlone, Finished
<1> QED
  BY <1>4, <1>5 DEF Sole

LEMMA DropViewSole ==
  ASSUME TypeOK, Sole, NEW g \in Graphs, DropView(g)
  PROVE  Sole'
<1>1. /\ Release(NoEnd, handle, view \ {g}, reach) /\ UNCHANGED <<kind, state, stream, failed>>
      /\ handle \in [Builders -> Graphs \cup {None}] /\ view \ {g} \in SUBSET view
  BY DEF DropView, TypeOK
<1>2. Ends(None, NoEnd) /\ NoEnd.left = {} /\ None \notin Builders
  BY EndsNothing, NoneIsNothing DEF NoEnd
<1> QED
  BY <1>1, <1>2, ReleaseSole

\* Steps that leave builders and captures as they are.
LEMMA QuietSole ==
  ASSUME Sole, UNCHANGED <<kind, state, stream, handle, view, graph, top, capture, origin, failed, broken, unread, again>>
  PROVE  Sole'
<1>1. InUse' = InUse /\ Held(handle, view)' = Held(handle, view)
  BY DEF InUse, Held
<1>2. Streamed' /\ Hierarchies' /\ Unread' /\ Used'
  BY <1>1 DEF Sole, Streamed, Hierarchies, Unread, Used, Alive
<1>3. Known' /\ Begins' /\ BodiesAlone' /\ Finished' /\ again' \subseteq broken'
  BY <1>1 DEF Sole, Known, Knows, Begins, OwnsCapture, BodiesAlone, Finished
<1> QED
  BY <1>2, <1>3 DEF Sole

LEMMA SoleNext == TypeOK /\ Inv /\ Sole /\ ~SharedStreams /\ [Next]_vars => Sole'
<1> SUFFICES ASSUME TypeOK, Inv, Sole, ~SharedStreams, [Next]_vars PROVE Sole'
  OBVIOUS
<1>1. ASSUME NEW b \in Builders, NEW s \in Streams, Create(b, s) PROVE Sole'
  BY <1>1, CreateSole
<1>2. ASSUME NEW b \in Builders, NEW f \in Builders, NEW s \in Streams, Split(b, f, s) PROVE Sole'
  BY <1>2, SplitSole
<1>3. ASSUME NEW b \in Builders, NEW f \in Builders, NEW s \in Streams, NEW g \in Graphs, Conditional(b, f, s, g)
      PROVE  Sole'
  BY <1>3, ConditionalSole
<1>4. ASSUME NEW b \in Builders, NEW g \in Graphs, NEW ok \in BOOLEAN, Begin(b, g, ok) PROVE Sole'
  BY <1>4, BeginSole
<1>5. ASSUME NEW b \in Builders, BeginBody(b) \/ End(b) \/ Close(b) \/ Dealloc(b) \/ Strand(b) \/ View(b)
      PROVE  Sole'
  BY <1>5, BeginBodySole, EndSole, CloseSole, DeallocSole, StrandSole, ViewSole
<1>6. ASSUME NEW b \in Builders, Record(b) PROVE Sole'
  BY <1>6, QuietSole DEF Record, builder, history
<1>7. ASSUME NEW r \in Builders, NEW b \in Builders, Join(r, b) PROVE Sole'
  BY <1>7, JoinSole
<1>8. ASSUME NEW g \in Graphs, Invalidate(g) PROVE Sole'
  BY <1>8, QuietSole DEF Invalidate, builder, history
<1>9. ASSUME NEW g \in Graphs, DropView(g) PROVE Sole'
  BY <1>9, DropViewSole
<1>10. CASE UNCHANGED vars
  BY <1>10, QuietSole DEF vars, builder, driver, history
<1> QED
  BY <1>1, <1>2, <1>3, <1>4, <1>5, <1>6, <1>7, <1>8, <1>9, <1>10 DEF Next

\* What holds where no two builders share a stream.
LEMMA SoleAlways ==
    ASSUME SharedStreams = FALSE
    PROVE  Spec => [](TypeOK /\ Sole)
<1>1. Init => TypeOK /\ Inv /\ Sole
  BY TypeInit, InvInit, SoleInit
<1>2. TypeOK /\ Inv /\ Sole /\ [Next]_vars => (TypeOK /\ Inv /\ Sole)'
  BY TypeNext, InvNext, SoleNext
<1> QED
  BY <1>1, <1>2, PTL DEF Spec

\* No order of closing builders, dropping views and ending captures leaves a
\* handle to a destroyed graph, or destroys one twice, unless the capture of
\* that graph could not be ended.
THEOREM HandlesDangleOnlyIfBroken ==
    ASSUME SharedStreams = FALSE
    PROVE  Spec => []DanglesOnlyIfBroken
<1>1. Sole => DanglesOnlyIfBroken
  BY DEF Sole, Used, Alive, DanglesOnlyIfBroken
<1> QED
  BY <1>1, SoleAlways, PTL

\* A builder in state ended is not being captured into, and has its graph
\* unless the driver could not give it or broke it.
THEOREM EndedHasItsGraph ==
    ASSUME SharedStreams = FALSE
    PROVE  Spec => []EndedIsFinished
<1>1. TypeOK /\ Sole => EndedIsFinished
  <2> SUFFICES ASSUME TypeOK, Sole, NEW b \in Builders, state[b] = "ended"
               PROVE  \/ /\ handle[b] # None /\ graph[handle[b]] = "exists" /\ Members(handle[b]) = {}
                      \/ handle[b] # None /\ top[handle[b]] \in broken
                      \/ handle[b] = None /\ unread # {}
    BY DEF EndedIsFinished
  <2>1. CASE handle[b] = None
    BY <2>1 DEF Sole, Finished
  <2>2. CASE handle[b] # None
    <3>1. Members(handle[b]) = {}
      BY <2>2 DEF Sole, Finished, Members
    <3>2. handle[b] \in InUse
      BY <2>2 DEF InUse
    <3> QED
      BY <2>2, <3>1, <3>2 DEF Sole, Used, Alive
  <2> QED
    BY <2>1, <2>2
<1> QED
  BY <1>1, SoleAlways, PTL

\* An open builder that means to be capturing is, unless ending its capture
\* failed, and what it records goes to the graph it has a handle to.
THEOREM RecordingIsOwn ==
    ASSUME SharedStreams = FALSE
    PROVE  Spec => []RecordsIntoItsGraph
<1>1. TypeOK /\ Sole => RecordsIntoItsGraph
  <2> SUFFICES ASSUME TypeOK, Sole, NEW b \in Builders, Open(b)
               PROVE  /\ OwnsCapture(b) /\ b \notin failed => capture[stream[b]] # None
                      /\ capture[stream[b]] # None /\ handle[b] # None => handle[b] = capture[stream[b]]
    BY DEF RecordsIntoItsGraph
  <2>1. stream[b] # None
    BY DEF TypeOK, Open, States
  <2>2. Knows(b)
    BY DEF Sole, Known
  <2>3. OwnsCapture(b) /\ b \notin failed => capture[stream[b]] # None
    BY DEF Sole, Begins
  <2> QED
    BY <2>1, <2>2, <2>3 DEF Knows
<1> QED
  BY <1>1, SoleAlways, PTL
=============================================================================
