-------------------------- MODULE GraphBuilderCapture --------------------------
(***************************************************************************)
(* GraphBuilder (graph/_graph_builder.pyx): building a CUDA graph by       *)
(* capturing streams.  A primary builder begins and ends a capture and     *)
(* owns the graph it produces; split forks further streams into the        *)
(* capture, join brings them back; a conditional node has bodies, each     *)
(* with a builder that captures into the body graph.                       *)
(*                                                                         *)
(* Two states have to agree: the builder's own (its _state and _h_graph)   *)
(* and the driver's (which stream is in which capture, and which graph     *)
(* exists).  The driver's side is modelled as its documentation in         *)
(* cuda_bindings describes it: a capture must be ended on the stream that  *)
(* began it, with every fork joined, and its graph is transferred then, or *)
(* destroyed.  A body graph belongs to its parent graph, not to a capture. *)
(*                                                                         *)
(* A capture begun in the global or thread_local mode is tied to the       *)
(* thread that began it: cuStreamEndCapture fails on another, and nothing  *)
(* changes.  end_building and close raise then, which is no step here;     *)
(* __dealloc__, which the garbage collector runs on any thread, ignores    *)
(* it (Strand).                                                            *)
(*                                                                         *)
(* A builder object has one thread at a time.  Builders, streams and       *)
(* graphs are bounded by their sets; a graph and a builder are used once.  *)
(* split and join are modelled for two builders: more than two are the     *)
(* same steps in a row, and a failure on the way leaves what they did.     *)
(* Joining builders of different captures is left out.                     *)
(***************************************************************************)
EXTENDS FiniteSets

CONSTANTS
    Builders, Streams, Graphs,
    SharedStreams,  \* callers may create two builders on one stream
    Faults,         \* "info": reading the new capture's graph fails;
                    \* "invalidate": an operation invalidates a capture
    None

ASSUME FaultsAreKnown == Faults \subseteq {"info", "invalidate"}
ASSUME SharedIsBoolean == SharedStreams \in BOOLEAN
ASSUME NoneIsNothing == None \notin Builders \cup Streams \cup Graphs

VARIABLES
    kind, state,    \* _kind and _state; "unborn" before, "dropped" after
    stream, handle, \* _h_stream and _h_graph, or None
    view,           \* graphs some GraphDefinition refers to
    graph,          \* the driver's graphs: "unused", "exists", "destroyed"
    top,            \* top[g]: the graph whose hierarchy g belongs to
    capture,        \* capture[s]: the graph s is being captured into, or None
    origin,         \* origin[g]: the stream on which the capture of g began
    invalid,        \* graphs whose capture is invalidated
    tied,           \* graphs captured in a mode that ties them to a thread
    reach,          \* reach[s]: streams whose captured work s depends on
    failed,         \* history: builders on which cuStreamEndCapture failed
    broken,         \* history: graphs destroyed by the end of their capture
    unread,         \* history: graphs a failing begin_building did not see
    again,          \* history: graphs destroyed although they were already
    stranded        \* history: graphs whose builder went on another thread

builder == <<kind, state, stream, handle>>
driver == <<capture, origin, invalid, tied, reach>>
history == <<failed, broken, unread, again, stranded>>
vars == <<builder, view, graph, top, driver, history>>

Kinds == {"primary", "forked", "conditional_body"}
States == {"unborn", "not_started", "capturing", "ended", "closed", "dropped"}

TypeOK ==
    /\ kind \in [Builders -> Kinds] /\ state \in [Builders -> States]
    /\ stream \in [Builders -> Streams \cup {None}]
    /\ handle \in [Builders -> Graphs \cup {None}]
    /\ view \subseteq Graphs
    /\ graph \in [Graphs -> {"unused", "exists", "destroyed"}]
    /\ top \in [Graphs -> Graphs]
    /\ capture \in [Streams -> Graphs \cup {None}]
    /\ origin \in [Graphs -> Streams \cup {None}]
    /\ reach \in [Streams -> SUBSET Streams]
    /\ invalid \subseteq Graphs /\ broken \subseteq Graphs
    /\ unread \subseteq Graphs /\ again \subseteq Graphs
    /\ tied \subseteq Graphs /\ stranded \subseteq Graphs
    /\ failed \subseteq Builders
    \* An open builder has its stream; GB_check_open guards what would read NULL.
    /\ \A b \in Builders : stream[b] # None <=> state[b] \in {"not_started", "capturing", "ended"}

Init ==
    /\ kind = [b \in Builders |-> "primary"] /\ state = [b \in Builders |-> "unborn"]
    /\ stream = [b \in Builders |-> None] /\ handle = [b \in Builders |-> None]
    /\ view = {}
    /\ graph = [g \in Graphs |-> "unused"] /\ top = [g \in Graphs |-> g]
    /\ capture = [s \in Streams |-> None] /\ origin = [g \in Graphs |-> None]
    /\ invalid = {} /\ tied = {} /\ reach = [s \in Streams |-> {s}]
    /\ failed = {} /\ broken = {} /\ unread = {} /\ again = {} /\ stranded = {}

-----------------------------------------------------------------------------
(* The driver.                                                             *)

Open(b) == state[b] \notin {"unborn", "closed", "dropped"}
Active(s) == capture[s] # None /\ capture[s] \notin invalid
Members(g) == {t \in Streams : capture[t] = g}

\* Work captured on s depends on what s depends on, and nobody depends on it.
Captured(s) == [t \in Streams |-> IF t # s /\ capture[t] = capture[s] THEN reach[t] \ {s} ELSE reach[t]]

\* A stream nobody uses: create_stream.
Idle(s) == capture[s] = None /\ \A b \in Builders : stream[b] # s

\* cuStreamEndCapture on s: whether it succeeds, whether it ends the capture
\* all the same, and the graphs it destroys.
EndCapture(s) ==
    LET g == capture[s]
        mine == g # None /\ origin[g] = s
        clean == mine /\ Active(s) /\ Members(g) \subseteq reach[s] IN
    [ok |-> clean,
     left |-> IF mine THEN Members(g) ELSE {},
     dead |-> IF mine /\ ~clean /\ top[g] = g THEN {x \in Graphs : top[x] = g} ELSE {}]

NoEnd == [ok |-> TRUE, left |-> {}, dead |-> {}]

\* The graph hierarchies that handles h and views v keep: create_graph_handle.
Held_ByBuilders(h, v) == {top[h[b]] : b \in {b \in Builders : h[b] # None}}

Held(h, v) == {top[h[b]] : b \in {b \in Builders : h[b] # None}} \cup {top[g] : g \in v}

\* The effect of e = EndCapture(s), and of dropping all but h and v: the
\* deleter of a hierarchy destroys its top graph.  What is left of a capture
\* depends on itself, all else on rch.
Release(e, h, v, rch) ==
    LET gone == Held(handle, view) \ Held(h, v)
        lives(g) == graph[g] = "exists" /\ g \notin e.dead IN
    /\ handle' = h /\ view' = v
    /\ graph' = [g \in Graphs |-> IF g \in e.dead \/ (top[g] \in gone /\ lives(g)) THEN "destroyed" ELSE graph[g]]
    /\ again' = again \cup {g \in gone : ~lives(g)}
    /\ broken' = broken \cup {g \in e.dead : top[g] = g}
    /\ capture' = [t \in Streams |-> IF t \in e.left THEN None ELSE capture[t]]
    /\ reach' = [t \in Streams |-> IF t \in e.left THEN {t} ELSE rch[t]]
    /\ UNCHANGED <<top, origin, invalid, tied, unread>>

-----------------------------------------------------------------------------
(* Builders are born.                                                      *)

Born(b, k, st, s, g) ==
    /\ state[b] = "unborn"
    /\ kind' = [kind EXCEPT ![b] = k] /\ state' = [state EXCEPT ![b] = st]
    /\ stream' = [stream EXCEPT ![b] = s] /\ handle' = [handle EXCEPT ![b] = g]

\* Stream.create_graph_builder, Device.create_graph_builder.
Create(b, s) ==
    /\ Idle(s) \/ SharedStreams
    /\ Born(b, "primary", "not_started", s, None)
    /\ UNCHANGED <<view, graph, top, driver, history>>

\* split: the event recorded on b's stream takes the new stream into the capture.
Split(b, f, s) ==
    /\ state[b] = "capturing"
    /\ capture[stream[b]] \notin invalid
    /\ Idle(s)
    /\ Born(f, "forked", "capturing", s, handle[b])
    /\ capture' = [capture EXCEPT ![s] = capture[stream[b]]]
    /\ reach' = [reach EXCEPT ![s] = {s} \cup reach[stream[b]]]
    /\ UNCHANGED <<view, graph, top, origin, invalid, tied, history>>

\* GB_cond_with_params: a node with a body graph, and a builder for the body,
\* whose handle is in the hierarchy of b's.
Conditional(b, f, s, g) ==
    /\ Open(b) /\ Active(stream[b])
    /\ Idle(s) /\ graph[g] = "unused"
    /\ graph' = [graph EXCEPT ![g] = "exists"]
    /\ top' = [top EXCEPT ![g] = top[capture[stream[b]]]]
    /\ Born(f, "conditional_body", "not_started", s, IF handle[b] = None THEN None ELSE g)
    /\ reach' = Captured(stream[b])
    /\ UNCHANGED <<view, capture, origin, invalid, tied, history>>

-----------------------------------------------------------------------------
(* Building.                                                               *)

BeginCapture(b, g) ==
    LET s == stream[b] IN
    /\ state[b] = "not_started"
    /\ capture[s] = None
    /\ capture' = [capture EXCEPT ![s] = g]
    /\ origin' = [origin EXCEPT ![g] = s]
    /\ reach' = [reach EXCEPT ![s] = {s}]
    /\ tied' = tied \/ tied' = tied \cup {g}
    /\ UNCHANGED <<kind, stream, view, top, invalid, failed, broken, again, stranded>>

\* The state says so as soon as the capture is active.
Begun_Late(b, ok) == IF ok THEN "capturing" ELSE "not_started"

Begun(b, ok) == "capturing"

\* create_graph_handle.
Adopted_Forgotten(g, ok) == None

Adopted(g, ok) == IF ok THEN g ELSE None

\* begin_building of a primary builder; the call after cuStreamBeginCapture may
\* fail, and then there is no handle.
Begin(b, g, ok) ==
    /\ kind[b] = "primary" /\ graph[g] = "unused"
    /\ ok \/ "info" \in Faults
    /\ BeginCapture(b, g)
    /\ graph' = [graph EXCEPT ![g] = "exists"]
    /\ state' = [state EXCEPT ![b] = Begun(b, ok)]
    /\ handle' = [handle EXCEPT ![b] = Adopted(g, ok)]
    /\ unread' = IF ok THEN unread ELSE unread \cup {g}

\* ... and of a conditional body, into the graph there is.
BeginBody(b) ==
    /\ kind[b] = "conditional_body"
    /\ handle[b] # None /\ graph[handle[b]] = "exists"
    /\ BeginCapture(b, handle[b])
    /\ state' = [state EXCEPT ![b] = "capturing"]
    /\ UNCHANGED <<handle, graph, unread>>

\* callback, a launch on the builder, embed, create_condition: they ask the
\* driver whether the stream is being captured.
Record(b) ==
    /\ Open(b) /\ Active(stream[b])
    /\ reach' = Captured(stream[b])
    /\ UNCHANGED <<builder, view, graph, top, capture, origin, invalid, tied, history>>

\* An operation the capture mode prohibits.
Invalidate(g) ==
    /\ "invalidate" \in Faults
    /\ Members(g) # {}
    /\ invalid' = invalid \cup {g}
    /\ UNCHANGED <<builder, view, graph, top, capture, origin, tied, reach, history>>

AfterEnd_Always(b, ok) == "ended"
AfterEnd_Never(b, ok) == state[b]

AfterEnd(b, ok) == IF ok THEN "ended" ELSE state[b]

\* end_building: is_building raises unless the driver says active; the call
\* that ends the capture raises if it fails, and the state stays.
End(b) ==
    LET e == EndCapture(stream[b]) IN
    /\ Open(b) /\ Active(stream[b])
    /\ state' = [state EXCEPT ![b] = AfterEnd(b, e.ok)]
    /\ failed' = IF e.ok THEN failed ELSE failed \cup {b}
    /\ Release(e, handle, view, reach)
    /\ UNCHANGED <<kind, stream, stranded>>

-----------------------------------------------------------------------------
(* Closing.                                                                *)

\* GB_end_capture_if_needed: a forked builder must not end the capture.
OwnsCapture(b) == state[b] = "capturing" /\ kind[b] # "forked"

EndIfNeeded(b) == IF OwnsCapture(b) THEN EndCapture(stream[b]) ELSE NoEnd

\* b goes to state st; with it go its handles.
Dispose(b, st, e) ==
    /\ state' = [state EXCEPT ![b] = st]
    /\ stream' = [stream EXCEPT ![b] = None]
    /\ Release(e, [handle EXCEPT ![b] = None], view, reach)
    /\ UNCHANGED <<kind, failed>>

\* close raises before it resets anything if the capture cannot be ended.
Close(b) ==
    LET e == EndIfNeeded(b) IN
    /\ Open(b)
    /\ \/ e.ok /\ Dispose(b, "closed", e)
       \/ /\ ~e.ok
          /\ failed' = failed \cup {b}
          /\ Release(e, handle, view, reach)
          /\ UNCHANGED <<kind, state, stream>>
    /\ UNCHANGED stranded

\* __dealloc__ ignores the error.
EndsOnDealloc(b) == EndIfNeeded(b)

Dealloc(b) ==
    /\ state[b] \notin {"unborn", "dropped"}
    /\ Dispose(b, "dropped", EndsOnDealloc(b))
    /\ UNCHANGED stranded

\* ... also that of the wrong thread, and the stream stays in the capture.  The
\* last handle destroys the graph all the same, which driver.pyx (on
\* cuStreamGetCaptureInfo) does not permit before the capture ends.
Strand(b) ==
    /\ OwnsCapture(b) /\ capture[stream[b]] \in tied
    /\ Dispose(b, "dropped", NoEnd)
    /\ stranded' = stranded \cup {capture[stream[b]]}

\* join: the root's stream waits for b's, and b is closed.  The root is not
\* forked, or both are.
Joined(r, b) == [reach EXCEPT ![stream[r]] = @ \cup reach[stream[b]]]

Join(r, b) ==
    LET g == capture[stream[b]] IN
    /\ Open(r) /\ Open(b) /\ stream[r] # stream[b]
    /\ kind[b] = "forked" \/ (kind[r] # "forked" /\ ~OwnsCapture(b))
    /\ capture[stream[r]] = g /\ g \notin invalid
    /\ state' = [state EXCEPT ![b] = "closed"]
    /\ stream' = [stream EXCEPT ![b] = None]
    /\ Release(NoEnd, [handle EXCEPT ![b] = None], view, Joined(r, b))
    /\ UNCHANGED <<kind, failed, stranded>>

\* graph_definition: a view that outlives the builder.
MayView(b) ==
    /\ Open(b) /\ kind[b] # "forked" /\ state[b] # "capturing"
    /\ kind[b] = "primary" => state[b] # "not_started"

View(b) ==
    /\ MayView(b) /\ handle[b] # None
    /\ view' = view \cup {handle[b]}
    /\ UNCHANGED <<builder, graph, top, driver, history>>

DropView(g) ==
    /\ g \in view
    /\ Release(NoEnd, handle, view \ {g}, reach)
    /\ UNCHANGED <<kind, state, stream, failed, stranded>>

-----------------------------------------------------------------------------
Next ==
    \/ \E b \in Builders, s \in Streams : Create(b, s)
    \/ \E b, f \in Builders, s \in Streams :
          Split(b, f, s) \/ \E g \in Graphs : Conditional(b, f, s, g)
    \/ \E b \in Builders, g \in Graphs, ok \in BOOLEAN : Begin(b, g, ok)
    \/ \E b \in Builders : BeginBody(b) \/ Record(b) \/ End(b) \/ Close(b) \/ Dealloc(b) \/ Strand(b) \/ View(b)
    \/ \E r, b \in Builders : Join(r, b)
    \/ \E g \in Graphs : Invalidate(g) \/ DropView(g)

Spec == Init /\ [][Next]_vars

-----------------------------------------------------------------------------
(* Properties.                                                             *)

InUse == ({handle[b] : b \in Builders} \ {None}) \cup view

\* begin_building owns a graph that cuStreamEndCapture transfers or destroys.
\* Unless the capture of that graph could not be ended, no order of closing
\* builders, dropping views and ending captures leaves a handle to a destroyed
\* graph, or destroys one twice.
DanglesOnlyIfBroken ==
    /\ \A g \in InUse : graph[g] = "exists" \/ top[g] \in broken
    /\ again \subseteq broken

\* No stream is left in a capture nobody can end: one of its builders, which
\* close and __dealloc__ rely on, still knows that it is capturing; unless the
\* one builder that knew was dropped on a thread that cannot end the capture.
NoPoisonedStream ==
    \A s \in Streams : capture[s] # None =>
        \/ capture[s] \in stranded
        \/ \E b \in Builders : stream[b] = origin[capture[s]] /\ OwnsCapture(b)

\* "CAPTURE_ENDED: finished, valid handle": no stream records into the graph
\* of a builder that has ended, and the graph is there.
EndedIsFinished ==
    \A b \in Builders : state[b] = "ended" =>
        \/ /\ handle[b] # None /\ graph[handle[b]] = "exists" /\ Members(handle[b]) = {}
        \/ handle[b] # None /\ top[handle[b]] \in broken
        \/ handle[b] = None /\ unread # {}

\* A builder that means to be capturing is, unless ending its capture failed;
\* and what its operations record goes to the graph its handle is for, where
\* callback attaches the owners of what it recorded.
RecordsIntoItsGraph ==
    \A b \in Builders : Open(b) =>
        /\ OwnsCapture(b) /\ b \notin failed => capture[stream[b]] # None
        /\ capture[stream[b]] # None /\ handle[b] # None => handle[b] = capture[stream[b]]

\* Every graph that exists, being captured or not, is held by a builder or a
\* view; only one whose builder could not read it leaks, or a body added to a
\* capture whose builder left it behind.
NoGraphLeaks ==
    \A g \in Graphs : graph[g] = "exists" => top[g] \in Held(handle, view) \cup unread \cup {top[x] : x \in stranded}
=============================================================================
