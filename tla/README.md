# A verification project for cuda-python

cuda-python is NVIDIA's Python access to CUDA.  This project models, checks and
proves parts of it in TLA+: those where the answer to "is this right?" depends
on the order of steps that several actors take, or on which of several driver
calls fails.  It reads the repository at one commit; every definition that
models code is listed in `PROJECT.json` ("map") with the lines it stands for.

Contents: [the system](#1-the-system), [plan](#2-plan),
[modules](#3-the-modules), [runs](#4-the-runs), [bounds](#5-bounds-and-why-they-are-enough),
[fairness](#6-fairness), [proofs](#7-the-proofs), [divergences](#8-where-code-and-documentation-disagree),
[what is left out](#9-what-is-not-modelled).

## 1. The system

| distribution | what it is | here |
|---|---|---|
| `cuda_bindings` | one Cython wrapper per CUDA function, generated from the headers | left aside |
| `cuda_core` | the Pythonic layer: devices, streams, memory, graphs, programs, caches; Cython and Python over a C++ resource layer (`_cpp/resource_handles.cpp`) | the subject |
| `cuda_pathfinder` | finds and loads NVIDIA libraries | planned |
| `cuda_python`, `benchmarks`, `ci`, `toolshed` | metapackage, measurements, automation | left aside |

All of `cuda_core` rests on one idea (`_cpp/DESIGN.md`): a CUDA object is held
by a `shared_ptr` whose deleter destroys it, Python objects hold such handles,
and a handle holds the handles it depends on.  So the hard questions are about
*lifetime*: who holds what, who runs the last deleter, on which thread, with
which locks, and what a failing call leaves behind.

### Components

For every component: its state, its operations, whom it works with, what is hard
about it, and what makes it correct.  Those in bold are modelled.

* **Deferred cleanup queue** (`_cpp/resource_handles.cpp:440`).  State: a
  lock-free stack of retired payloads, the flag `scheduled_`, the flag
  `accepting_`.  Operations: `enqueue` from a CUDA-internal thread that may call
  neither CUDA nor Python; `schedule` asks CPython for a pending call, whose
  queue is bounded; `drain` on the main thread deletes payloads, which may
  reach `schedule` again.  Hard: memory ordering, reuse of addresses, a refused
  pending call, interpreter shutdown.  Correct if every payload is destroyed
  once, never during finalization, and eventually, unless a request was refused.
* **IPC pointer cache** (`_cpp/resource_handles.cpp:1492`).  State: a weak map
  from export data to handles, a mutex, the driver's imports.  Operations: import,
  share, drop; the deleter unregisters and frees.  Hard: the window between the
  last reference and the deleter's lock, the GIL against the mutex, every
  failure path, and a driver bug the code works around.  Correct if a held
  pointer stays mapped, an import is freed once, and nobody waits for ever.
* **Graph node attachments** (`_cpp/resource_handles.cpp:1700`,
  `_cpp/GRAPH_ATTACHMENTS.md`, the callers in `graph/`).  State: per graph a
  non-owning map from nodes to attachments, whose owners CUDA keeps alive by user
  objects that graphs, clones, executables and launches reference.  Operations:
  prepare, CUDA mutation, commit or roll back; embedding and replacing child
  graphs.  It retires payloads to the deferred cleanup queue.  Hard: two
  book-keepings, CUDA's and cuda.core's, changed one after the other with a
  failure possible in between.  Correct if what a node refers to is alive, and
  what nobody refers to is reclaimed.
* **Graph builder** (`graph/_graph_builder.pyx`).  State: kind and state of each
  builder, its stream, its graph handle; the driver's capture.  Operations:
  begin, split, join, record, conditional bodies, end, close, garbage
  collection, views.  It creates the graphs that attachments belong to.  Hard:
  two state machines, the builder's and the driver's, that only meet in calls that
  may fail; ownership of a graph that is still being captured.  Correct if a
  builder's graph exists, and no stream is left in a capture that nobody can end.
* **File program cache** (`utils/_program_cache/_file_stream.py`).  State: files
  of a directory, shared by processes without a lock; per process a tracker of
  their size.  Operations: get, set, delete, clear, open, eviction.  Hard: every
  check of the file system is stale when it is used, writers crash, threads of
  a process share the tracker.  Correct if drift repairs itself, eviction takes
  the least recently used, and no write or read spoils another's entry.
* **Virtual memory resource** (`_memory/_virtual_memory_resource.py`).  State:
  the driver's address ranges, mappings and physical memory, the Buffers that
  Python holds, the box whose deleter deallocates.  Operations: allocate, grow,
  deallocate, each a series of driver calls under a `Transaction`
  (`_utils/cuda_utils.pyx`) that undoes them in reverse.  A graph node may hold the
  same box.  Hard: a failure between any two calls; the old range is given back
  before the Buffer knows its new one; other threads' calls in between.  Correct
  if an open Buffer is mapped and accessible, and nothing is left behind.
* **Executable-graph attachments** (`_cpp/resource_handles.cpp:2315`).  State: an
  accumulator of owners per executable, staged on the source graph so that
  instantiation or a whole-graph update propagates it, a pointer to it in the
  executable's box, owners appended by updates of single nodes.  It retires
  accumulators to the deferred cleanup queue.  Hard: the reference travels through
  CUDA, which destroys the old accumulator when it likes; rejected updates;
  two executables of one source.  Correct if the pointer is never stale, what
  nodes use stays, and no accumulator stays for ever.
* **Context helpers** and **handle registries** (`_cpp/resource_handles.cpp:200`,
  `:586`, `:679`, `_context.pyx`, `_device.pyx`).  State: a weak map from raw
  contexts to boxes under a mutex, a thread-local cache of the primary context,
  the current context of each thread.  Operations: look up, register, retain the
  primary context, create a green one, set current, close; enter a context,
  operate, restore the caller's; undo or leak when that fails.  Hard: look-up and
  registration are separate critical sections, deleters erase by key, raw
  contexts are reused.  Correct if a handle's context exists, operations run where
  they asked to, and callers get their context back.  The registries of streams,
  events, kernels and nodes follow the same pattern and are not modelled again.
* **Deallocation ordering** of streams and events: in which context a free runs is
  part of the context helpers; the stream that orders it is not modelled.
* Graph hierarchy and node handles: boxes of nested graphs and nodes, retired
  parent before child.
* Buffers, memory pools, managed memory: thin layers over driver calls.
* IPC pool registry (`_memory/_ipc.pyx`): a weak map from uuid to memory resource, looked up and
  registered without a lock: a second import of one handle may come between the two (line 272).
* Peer access: a set view over what the driver knows.
* In-memory program cache: an LRU map under a lock.  Cache keys: a digest.
* Graph definitions and nodes: parameters and edges, as the driver keeps them.
* Compilation and launch; devices; layouts and views; textures; NVML;
  checkpointing: translation to driver calls, with little state of their own.
* Library loader: a search order with a subprocess probe, cached per library.
  Headers, binaries, static libraries: searches of directories.

### Interactions

    GraphBuilder --captures into--> graph --nodes have--> attachments
         |                            |                        |
         | adopts handle at begin     | instantiate, launch    | CUDA user object destructor,
         v                            v                        v  on a CUDA thread
    create_graph_handle          executables, launches     deferred cleanup queue
                                                               |  pending call
    Buffer --holds--> IPC pointer handle                       v
         |  last reference                                 main thread deletes the owners
         v
    deleter: GIL off, mutex, unregister, free          file program cache: no handles, only files

    executable --points to--> accumulator --retired to--> deferred cleanup queue
    allocation, texture, ... --bound to--> context box --registered in--> context registry
    Buffer, graph node --hold--> box --deleter--> VirtualMemoryResource.deallocate

The driver, CPython's pending calls and eval loop, the hardware's store buffers
and the file system are outside `src/`; they are modelled from how the code
uses them and marked external in the map.

## 2. Plan

In order of importance; 1 to 8 are done.

1. `DeferredCleanup`, abstract `PayloadReclamation`.
2. `IpcPtrCache`.
3. `GraphAttachments`, abstract `ParameterLifetime`.
4. `FileStreamCache`.
5. `GraphBuilderCapture`.
6. `VirtualMemory`.
7. `ExecAttachments`, which implements `ParameterLifetime` too.
8. `ContextHandles`, with the registry of contexts.
9. Small components next to each other: the in-memory cache against an abstract
   cache that the file cache implements as well, the IPC pool registry (one lock
   less than the pointer cache has), peer access sets.
10. `GraphHierarchy`: any depth of embedding, invalidation as one sweep.
11. The loader's search order against its documentation; layout arithmetic as
    functions against a reference definition.

Every property of a passing run but the liveness properties is a theorem.  Still worth proving:
`NothingStranded` without its exemption of recycled ranges (section 7), and the properties of
new modules as they are written.

## 3. The modules

Every component has a module with its state and actions, an MC module with the
symmetry of its TLC instance, and for some a module `_proofs`.  Operators with an
underscore (`Push_...`) next to an operator of the same stem are variants of it as
a plausible bug would have it; they are used only to show that the properties
notice (`PROJECT.json`, "mutants").

### DeferredCleanup

One action per atomic operation of `enqueue`, `schedule` and `drain`; `pc[t]`
says where thread `t` is.  `head`, `next`, `scheduled`, `accepting` are the
members of the class; `owner[i]` says who has the payload at address `i`, and
addresses are reused after a payload is deleted, so that an ABA problem would
show.  `pending` is CPython's queue.  With `StoreBuffers` a release store first
goes to `storing[t]` and becomes visible (`Flush`) after later loads of the same
thread: this is all the reordering that x86 has, and less than C++ allows.
Read-modify-writes wait for the buffer (`Drained`).  The history `missed` is set when a
thread backs off because it reads `scheduled_` set while the store that clears it is in a
buffer, the one case that loses a wakeup (section 8), and cleared by the next request.  `NestedRetry` is the
destructor of a payload that destroys a graph and so gets back into `schedule`.
`Finalize` starts interpreter shutdown on the main thread when it is not in a
pending call.

### PayloadReclamation

What the queue promises: payloads are handed to CUDA, retired, destroyed once,
not during finalization.  The refinement maps the addresses by their owner
(`ImplementsReclamation`).

### IpcPtrCache

`gil` and `mutex` are the two locks, with the places where the code gives one up
before it takes the other; a box is the object behind a handle, its `state`
goes from `new` over `live`, `dying` and `freed` (or `leaked`) to reuse of the
address.  `holders[b] = {}` is `weak_ptr::expired`.  `FreeUnmapsAll` is the
driver of nvbug 5570902, whose first free of an allocation unmaps all of its
imports; the code's comments say that it is there, and both runs have it.
`Pinned` is a pool whose driver refuses a second import,
`OwnedStreams` a deallocation stream whose release takes the GIL under the
mutex.  `again[b]` is history: `b` was imported while an earlier import had not
been freed.  `Pinned` is FALSE in the runs: with it TRUE an import can only fail
more often.

### GraphAttachments

Graphs form hierarchies of one level of embedding.  `params` is what the driver's
nodes refer to, `refs` what the driver's graphs retain, `meta` is cuda.core's
map, `owners` the life of each attachment, `exec` and `launch` what executables
and running launches use and hold.  A node mutation is `Prepare` (create the
user object, retain), `Mutate` (the CUDA call), `Publish` and `ReleasePrevious`
(commit), then `Invalidate` when a destroyed node owned a graph, or one of the
failure actions, each enabled by a member of `Faults`.  The callers serialise
the mutations of one hierarchy (invariant 5 of `GRAPH_ATTACHMENTS.md`), so an
operation belongs to its root; operations of different hierarchies, the
driver's callbacks and the drain interleave freely.  `EmbedAdd`, `EmbedChild`, `EmbedRekey`
and `EmbedUndo` are the four steps of `GN_embed`, `SwapPrepare`, `SwapMutate` and
`SwapCommit` those of a child update.  The queue appears as `EnqueueCleanup` and
`Drain`, whose details are `DeferredCleanup`.

### ParameterLifetime

Consumers take up and drop versions; a version is released only when nobody uses
it, and is not taken up afterwards.  The versions that a failed restoration of
the context tears out of a node (`torn`) are exempt; section 8 says why.

Graphs and executables implement it (`GraphAttachments`), and so do executables
and the accumulators of single-node updates (`ExecAttachments`).

### FileStreamCache

Every file-system call is an action, and so is every critical section of the
tracker's lock.  `file[k]` is the committed entry: its identity (inode, size,
mtime) is abstracted to a stamp that differs from commit to commit, its access
time is `at`.  `dirs` are the directories of entries that exist, `temp[a]` the
temporary file of a writer at work, `young` and `old` the bytes of temporary
files of crashed writers.  A scan visits entries one by one (`Scan`), so what it
has seen is stale; `calm` records whose scan nobody has disturbed, `solo` that no
two operations ever overlapped.  An operation's later steps are chosen by
`loc[a].mode`: the constructor, eviction and `clear` share the sweep and the scan
as they do in the code.  A reader that touches an entry does so in four steps (`Touch`, `OpenFd`,
`Fstat`, `Utime`): it takes the time, opens the file, compares what it finds there with what it
read, and writes the time it took, so a writer may replace the entry between any two.

### GraphBuilderCapture

`kind`, `state`, `stream`, `handle` belong to the builders; `capture`, `origin`,
`invalid`, `reach` to the driver.  `reach[s]` is the set of streams whose
captured work `s` depends on: `cuStreamEndCapture` fails with "unjoined work"
when a member of the capture is not reached, and destroys the graph
(`EndCapture`).  `tied` are the captures begun in the `global` or `thread_local`
mode, which the driver lets only the capturing thread end.  `Strand` is the end of their builder on
another thread, where the garbage collector may run it: ending the capture fails, the code
ignores that, and stream and graph are left in the capture (history `stranded`).  After that the graph
is taken as destroyed with its last handle; the driver documents only which other operations it allows on
a graph under capture.  `Release` is the effect of dropping handles: the deleter of a
hierarchy destroys its top graph.  `SharedStreams` lets two builders use one
stream.  Fork failures after the stream has joined the capture are left out.

### VirtualMemory

Every driver call of `allocate`, `modify_allocation` and `deallocate` is a step of
the thread that makes it (`pc`, `call`), for each of them gives up the GIL; `undo`
is its Transaction.  `reserved`, `mapped` and `phys` are the driver's: ranges,
mappings with their access, physical memory with its references.  `buffer` is the
Python object, `box` what its `_h_ptr` points to; the deleter of a box that nobody
holds runs `deallocate` with the address and size it was made with.  Sizes count
parts of a granule, so that rounding shows; `content` says which physical granules a
buffer's user has written.  The driver may hand out any free range, also one that the box of
a Buffer which has moved still remembers; the history `recycled` says that it has (`Recycling`).
A `Buffer.from_handle` that fails after the commit is a Buffer that is closed at once (`NewBuffer`).
`FailedGrowthKeepsBuffer`, and the facts of section 8, are
about what a growth leaves.  The fast path of a growth in place is left out because it
cannot be reached: line 280 compares a `CUdeviceptr`, which defines no
comparison, with an int.

### ExecAttachments

`source[s]` is what a source graph retains, `exec[e]` what CUDA's executable uses
and holds, `attachments[e]` the pointer in its box, `owners[a]` an accumulator,
whose address is reused after it has been destroyed.  `Stage`, `Instantiate` or
`Update`, `Publish`, `Release` are the steps of instantiation and of a whole-graph
update, `CudaFails`, `StageFails` and `ReleaseFailed` their failures; `Prepare`, then
`SetParams` or `Rollback`, an update of a single node.  One executable has one operation at a time,
as CUDA requires; different executables share a source freely.  The part of
`GraphAttachments` that a source's own nodes bring in is not repeated.

### ContextHandles

`box[b]` is a context box with the kind that says what its deleter gives back:
a reference to the primary context, a green context, or nothing.  `registry` is
the weak map, `cache[t]` the thread-local primary context, `device[t]` and `objects` who in
Python holds boxes, `home[i]` the box an allocation, texture or surface is bound to.  A lookup
is one critical section (`Lookup`), the registration another (`Register`), the two
halves of a deleter are apart (`Delete`).  `Entered`, `Operate`, `Exit`, `ExitFails`, `Undo`
are `enter_context`, the operation, `exit_context` and the undo of
`invoke_in_context_or_undo`; `Destroy` is `cleanup_in_context`; `AllocateFails` is an allocation whose
deallocation stream could not be made and is freed again, or leaked.  `stray` records threads
whose context could not be restored, for which nothing can be promised.  `Device.set_current` is
`SetCurrent`, and what can fail in it: `AdoptOnly`, a primary context that was retained and cached and
not made current, and `PushFails`, the caller's context popped and no other pushed.  The history `lost`
has the threads of the latter; what is due to them afterwards (`Due`) is no context.  A `Borrowed` box
retains nothing: the registry gave it out for a primary context that it found no live box of.

## 4. The runs

| run | what it asks | answer |
|---|---|---|
| `deferred_live` | with buffered stores and refused requests: can a payload be lost, doubled, freed twice or during finalization, `scheduled_` have two owners, or queued work stay uncovered or undestroyed? | no, but for work left after a refused request, a claim given up on a value about to be overwritten (`missed`), or finalization; the queue implements `PayloadReclamation` |
| `ipc_safe` | with the driver of nvbug 5570902: held pointers mapped, one deleter per import, and every call returns? | yes, but for pointers imported while an earlier import was not freed; also with failing calls and streams backed by Python objects |
| `ipc_reimport` | does a concurrent import wait until the mapping is gone? | **no**: an import that gets the mutex before the deleter does is unmapped with the old one |
| `graph_safe` | is a version in use ever released, or the index dangling or out of date, with every modelled driver call failing? | no, but for the version a failed restoration tears out |
| `graph_live` | is between operations the index exact, does a graph retain exactly what its nodes use, is every unused version reclaimed? | yes; graphs, executables and launches implement `ParameterLifetime` |
| `filecache_safe` | does an undisturbed pass repair the tracker, evict by least recent use, and do late readers leave fresh entries alone? | yes; without concurrency the tracker is exact and the cap hard |
| `builder_safe` | any order of close, drop, join, end and failing calls: poisoned streams, leaked graphs, recordings in the wrong graph? | no, but for a capture that its builder could not end on another thread; a handle dangles only after a failed end of its capture |
| `vm_safe` | is an open Buffer ever unmapped or without access, a range or reference stranded, contents lost by a growth, a deallocation refused? | no, for one growth of a Buffer and until the driver recycles a remembered range |
| `vm_failedgrowth` | does a failed growth leave the Buffer as it was? | **no**: the second growth of a Buffer unmaps it |
| `exec_safe` | is an executable's accumulator ever stale or another's, does a rejected update take what a node uses, is every accumulator destroyed? | no, no, yes; it implements `ParameterLifetime` |
| `context_safe` | are handles that own a context valid, do operations run in their context, do callers get theirs back, is what was made handed over, undone or reported? | yes; callers whose `set_current` failed between its pop and its push get none back |
| `context_invalidated` | are handles valid when two threads retain the primary context? | **no**: the deleter of one box erases the entry of the other |

The runs with a bold answer check one property each, which a comment or a document
of the repository states; section 8 quotes them.  Some runs check `TypeOK` and some leave it
to the theorem; section 7 says which properties are theorems.

## 5. Bounds, and why they are enough

* `deferred_live`: two addresses and two CUDA threads, plus the main thread, which
  retries too: two racing pushes, one on the detached list and one behind it, with addresses that
  come back (100,000 states).  The code treats threads of one kind alike.
* `ipc_safe` and `ipc_reimport`: two threads and two boxes for one descriptor.  Descriptors share only
  the mutex, and a second box is what a double import needs.  In `ipc_reimport` no call fails.
* `graph_safe`: two roots, two embedded graphs, one node, two versions.
  An update needs an old and a new version; an embed a source and a target; a
  child update a second clone.  Executables are in `graph_live`, which
  has one of each and rejected mutations only, because the exact properties do not
  hold when a node was lost track of.  Each graph and version is used once:
  handles that the driver recycles are the node positions, which are.
* `filecache_safe`: two processes with one thread each, two entries, sizes 1 and 2
  with a cap of 2, so that a write may force both, one or no eviction; six
  operations or openings in all, one crash, one failing write (2.0 million
  states).  The two threads of one process that share a tracker were explored by hand and
  showed the negative tracker of the hazard list; as a run of
  its own they show nothing else.
* `builder_safe`: three builders, streams and graphs: a primary with a fork and a
  conditional body, or a fork of a fork; every capture may be tied to its thread or not.

* `vm_safe`: two threads, three buffers, three physical allocations and six granules:
  a Buffer that is grown, a neighbour that is in its way, and somebody who takes what
  a step has just given back; three operations and one failing call.  Two parts make a
  granule, so sizes may be unaligned.  `vm_failedgrowth` has one thread and eight granules, which
  two growths of one Buffer need; its constraint `NotRecycled` leaves out a second way in which a
  Buffer is unmapped, the one of section 8, number 9.
* `exec_safe`: two executables of one source, which is where an accumulator may end up with
  the wrong one; two accumulators, so that both addresses are reused; one launch; two
  resources, two owners at most in an accumulator (`MaxOwners`), which an append and a
  rollback of the other need.
* `context_safe`: two threads, two boxes, one primary and one green context, one item
  on its way through every purpose, one failing call (1.6 million states).  `MaxRetains = 2`, so
  each thread may retain the primary context for itself.  The constraint `OneOrTheOther` leaves another
  library, whose use keeps the primary context valid whatever happens, out of the executions with a
  second retain or a failing call; the theorems have all of them at once.
  `context_invalidated` has no green context, and no call fails.

MaxOps, MaxCrash, MaxFail, MaxFaults, MaxOwners and MaxRetains are the only counters; all
else is finite by itself.

## 6. Fairness

Safety runs assume none.  `DeferredCleanup!Fairness`: a thread in the middle of
`enqueue`, `schedule` or `drain` is scheduled again, a store buffer empties, and
the main thread, as long as it returns to the eval loop, runs a pending call
(strong, as it may be elsewhere in between).  Nobody has to retire or to retry,
and CPython may refuse a pending call for ever.  `IpcPtrCache!Fairness`: a thread
in the critical section runs on, and mutex and GIL are granted to a thread that
finds them free again and again: CPython's GIL has a switch interval
that makes the holder let go, and `std::mutex` is assumed not to starve a thread.
`GraphAttachments!Fairness`: an operation under way is finished by the thread
that began it, a launch completes, CUDA calls the destructor of an unreferenced
user object, and the queue is drained, which `deferred_live` justifies.
`ExecAttachments!Fairness` says the same of executables: no resource has to be dropped, no
graph closed, no executable updated for an accumulator to go.

## 7. The proofs

All are checked by tlapm for every value of the constants that the modules'
assumptions admit; no step is left out.

* `DeferredCleanup_proofs`.  `TypeCorrect` is `TypeOK`.  `OneOwner` and `Coalesced`
  rest on one inductive invariant: `scheduled_` is a lock, and exactly one of
  these has it: a thread between its claim and its pending call, the pending
  call, the drain, or a store that will clear it.  `NoLostWakeup` is
  `QueuedWorkIsCovered`, with store buffers or without; the invariant adds what a
  thread on its way through `schedule` may still rely on.  It says exactly when a wakeup is lost: a
  thread has backed off while the store that clears `scheduled_` was in a buffer (`missed`), which
  without buffers does not happen.
  `PayloadsKept` (`NoPayloadLost`) and `ReclamationRefined`, the refinement of
  `PayloadReclamation`, rest on `Chains`: the links of the stack and of the detached list
  have no cycle, a payload that is being pushed is one thread's and nobody links to it,
  and the two lists hold exactly what was retired.  Reachability is `Linked(f, p)`, the
  payloads within as many links as there are payloads; that it is the least
  set with `p` that is closed under `f`, and that a link changed elsewhere does not matter,
  are the lemmas.  They need `ItemsAreFinite`: an address space is.
* `IpcPtrCache_proofs`.  `TypeCorrect`, and `OneDeleter`, from an invariant that ties the
  state of a box to the step of the one thread that has it; `SoleImportIsMapped`
  (`MappedUnlessImportedAgain`), for either driver.  That no import is ever made
  while an earlier one is mapped is false, and the run `ipc_reimport`.
* `GraphBuilderCapture_proofs`.  `TypeCorrect`, and `CapturesCanBeEnded`
  (`NoPoisonedStream`), with shared streams and failing calls, and with captures tied to a
  thread: the captures that stay are those which their builder was dropped with on another thread
  (`stranded`), and they poison no other.  The invariant: the
  origin of a capture is the stream of an open builder that owns the capture and has a
  handle to its graph or could not read it (`Owned`); a
  body's capture cannot outlive its builder.  `GraphsAreHeld` (`NoGraphLeaks`), also with shared
  streams: the hierarchy that a new body joins is held by the owner of the capture (`Kept`).
  The other three assume `SharedStreams = FALSE`, a stream for every builder, as `split` and
  conditional nodes make them and as `Device.create_graph_builder` does; the documentation
  does not say whether a caller of `Stream.create_graph_builder` may do otherwise.
  `HandlesDangleOnlyIfBroken` (`DanglesOnlyIfBroken`), `EndedHasItsGraph`
  (`EndedIsFinished`) and `RecordingIsOwn` (`RecordsIntoItsGraph`).  Their invariant `Sole` says, for every graph that a builder or a view
  names, that the top of its hierarchy exists or was broken (`Used`), and, for every
  capture, that the builder on whose stream it is knows the graph or could not read it (`Known`).
  A handle alone does not keep this: the step that destroys a hierarchy must find nobody
  else who names a graph in it, which is why hierarchies have one top and a body yet to begin
  is named by its builder alone (`Hierarchies`, `BodiesAlone`).
* `GraphAttachments_proofs`.  Three inductive invariants, each with the one before.
  `IInv` gives `TypeCorrect`; `ResourcesAlive`, which is `OthersAlive`: what is
  used by a graph, an executable or a launch is alive unless it is in `torn`;
  `ResourcesAliveIfRestored`, `ParametersAlive` when restoring a context cannot fail, which
  is needed (section 8); `LifetimeRefined`, the refinement of
  `ParameterLifetime`.  Two conjuncts say it directly: what a graph uses and is not
  torn it retains (`Holds`), and what anybody retains is alive (`Live`).  They are not
  inductive: a step that gives up a reference must know that no node of the graph
  still uses the version.  The invariant therefore follows a version from the moment it is
  created (`Fresh`: nobody else has it) through the operation that has prepared it
  (`PhaseOK`, one clause per phase) to the one node whose entry gives it
  (`IndexFits`); clones, whose nodes share versions with the original, fit too,
  because a graph's references are its own.  `Locked` says that operations under way are on
  different hierarchies, so that none disturbs another's clause; `Tree` that embedding
  has one level.  `IndexInv` adds that every entry is of a version its graph retains, or that
  the operation under way is about to replace (`Indexed`), and that a staged map is that of the
  graph it was copied from (`Staged`); with it come `IndexNeverDangles`
  (`MetadataNeverDangles`) and `LookupsAreCurrent` (`LookupIsCurrent`), whatever
  fails.  `ExactInv` adds the other direction, what is retained is used or is in the hands
  of the operation (`Exact`, `Whole`), and gives `RetentionIsExact` (`RetainsOnlyCurrent`).
  That theorem assumes that the failing calls are those which end an operation
  before or at the CUDA call (`Faults` within `create`, `retain`, `mutate`): after a failing
  release or a failing restoration the code itself accepts that a reference stays.
* `FileStreamCache_proofs`.  `TypeCorrect`; `TouchKeepsFresh` (`FreshIsRecent`), which needs that a
  reader between its comparison and its write (`Utime`) took its time after the file that it has
  open was committed, whatever has been committed at the path since; `PassExact` (`PassReconciles`) and `EvictionIsLRU` (`EvictsLeastRecent`), from
  `PassInv`: a pass that nobody disturbs is alone (`Alone`), and what it has scanned,
  summed and sorted so far is what is there (`Sound`, one clause per step of the pass);
  `SequentialTracker` (`SequentialExact`), from `SerialInv`: as long as no two operations
  have overlapped and none has crashed, the tracker is the bytes on the disk, less what
  the operation under way has yet to report (`Exact`), and only its temporary file
  exists (`TempIs`).  The typing invariant has to say more than the types: a
  process has as many instances as it started, and a scan lists no entry twice.
  A third of the module is about sums: `SumFunctionOnSet` is a recursion over finite sets, and
  `SumFirst` to `SumChange` say what it does when an element comes, goes or changes.

* `ExecAttachments_proofs`.  `TypeCorrect`; `PointerIsCurrent` (`AccumulatorCurrent`);
  `RollbackTakesItsOwn` (`UsesAreOwned`); `LifetimeRefined`, the refinement of
  `ParameterLifetime`.  The invariant says that an executable holds the accumulator it
  points to (`PointsToHeld`), that no other points to it and that it is none that is still
  being staged (`OneOwner`), and, since a rollback under way may take the newest owners away,
  that what a node uses is below the size to which any such rollback truncates
  (`UsesAreKept`).  Launches need the same of an accumulator that their executable has replaced since.
* `ContextHandles_proofs`.  `TypeCorrect`, which includes that the references to the primary
  context are as many as its boxes and the threads about to make one (`Counted`);
  `CallersRestored` (`CallerRestored`), because an operation remembers where it came from
  (`Back`); `NothingOrphaned` (`NoOrphans`), because an item is in the hands of one thread
  (`Ops`); `GreensKnown` (`GreenKnown`).  `HandlesAreValid` (`OtherHandlesValid`) and
  `OperationsAreHome` (`EnteredIsHome`), however many threads retain the primary context: a handle
  that owns its context, primary or green, is valid, and an operation runs in the context it
  entered, unless a second thread has retained the primary context and the handle is a borrowed one;
  those are the handles of `context_invalidated` (section 8).  The argument is that a tracked context has one
  box (`One`): a thread that looks one up holds that box itself, through its own Device
  (`Anchored`), so the lookup finds it and no second one is made (`Looking`).

* `VirtualMemory_proofs`.  `TypeCorrect`, and `References` (`ReferencesAccounted`), with failing
  calls and with ranges handed out again.  Neither is inductive: what an entry of a
  transaction gives back depends on where its thread is.  The invariant therefore says, for each
  kind of call, what its transaction registers and in which order (`Plan`), how many of these
  entries there are at each step (`GrowDepth`, `AllocateDepth`), and that the list is
  that part of the plan, newest first (`ListOK`).  The references are then counted by thread: a
  thread's transaction will release what `Taken` says, its deallocation has what `InHand` says
  (`Counted`), and each step moves as many as it takes over or gives up (`Balanced`).  A growth
  never has the old memory and the new one under one handle, as the old one is referred
  to when the new one is created.  A growth at work relies on its Buffer staying open where it is;
  `Apart`, no two threads work for one Buffer, is why it does.

  `StrandsNothing` (`NothingStranded`), `BacksOpen` (`OpenIsBacked`), `KeepsContents`
  (`GrowthKeepsContents`) and `RefusesNothing` (`NeverRefused`)
  rest on a second invariant, `BInv`, about addresses, which holds until the driver hands out a range
  that a box remembers (`Places`).  Three things believe that a
  range is theirs: a box, a transaction or committed growth, and a running deleter (`Claim`).
  `BInv` says that these claims are disjoint, that each reservation which meets one is exactly
  it and each that is not lost has one, and that every mapping lies in a reservation (`Geo`); it
  then says what is in each claim: the parts that a transaction has mapped so far, step by step
  (`FreshOK`), whole mappings with access until the deleter has unmapped them (`GoneOK`), and in a
  Buffer's range the memory that was there when it was made (`BoxOK`, `Agrees`).  `Whole`, a
  mapping is all of its allocation, is why the mapping at the first address
  is the one that a growth moves, and `GranulesLess` why its length is then the old size.  A step
  touches one claim (`Confined`), so the others are left alone (`Elsewhere`, `Left`); each
  action has one lemma (`...Puts`).

Induction over data.  The library's induction theorems take an operator as a parameter, which no
installed prover can instantiate.  Where a proof needs induction (over links, over the elements of a sum) it
takes the least number at which the claim would fail (`LeastElement`, from
`NatLessThanWellFounded` and `WFMin`, which have no such parameter) and refutes that one.

The assumptions.  Those on constants are in the modules that declare them and are evaluated by
every run: sets of threads, payloads and instances are finite where something is counted
or summed (`ItemsAreFinite`, `InstanceIsFinite`), bounds are natural numbers, `None` is none of
the values.  The bounds of the runs are no assumptions: the theorems hold
for every number of operations, failures and crashes.  The conditions of single theorems
(`SharedStreams = FALSE`, `Faults` restricted) are necessary: TLC finds a counterexample without them, for
`RetainsOnlyCurrent` with any one of `tail`, `find` and `restore`.  With shared streams `EndedIsFinished`
and `RecordsIntoItsGraph` fail in `builder_safe`, `DanglesOnlyIfBroken` needs a fourth builder: a body
made through an ended builder joins, and later destroys, the unread graph that another captures on its
stream.

The histories.  No theorem assumes that stores are visible at once, that the driver is free of
nvbug 5570902, that it never hands out a range twice, that a capture may be ended anywhere, or
that one thread at a time uses the primary context.  Where the code relies on such a thing the model has
what happens otherwise, a history variable says that it has happened, and the property says what
holds until then, or for the others: `missed` (`DeferredCleanup`), `again` (`IpcPtrCache`), `stranded`
(`GraphBuilderCapture`), `recycled` (`VirtualMemory`), `lost` and `Borrowed` (`ContextHandles`).  Each
exemption is needed: without it TLC finds the property violated, except for `NothingStranded`.  For
`NoGraphLeaks` it does when builders share a stream, for
`NeverRefused` on the instance of `VirtualMemory_safe` with a fourth operation, for
`GrowthKeepsContents` on one with four Buffers, four allocations, sizes of up to three granules and seven
addresses.  For `NothingStranded` it found no counterexample; the proof uses the exemption all the same,
because a rollback frees its range only if nothing else is mapped there.

Only model-checked: the runs that expect a violation, and all
liveness, which with fairness and ENABLED is beyond the provers that are used
(`IpcPtrCache` returning, payloads destroyed in the end, unused versions and accumulators
reclaimed).

## 8. Where code and documentation disagree

Each of the first three is a run of its own; "findings" in `PROJECT.json` has the quotations.

1. `_virtual_memory_resource.py:423`: a Buffer that was grown once consists of two
   physical allocations.  The next growth retains the one it finds at the first address and maps that
   over the whole old range, which fails, after the old mappings are gone; nothing puts both
   back.  The docstring at line 215 says that a failed growth does not modify the
   original buffer.
2. `resource_handles.cpp:806`: every thread that uses the primary context has a box of its own
   under one key of the registry.  The first that dies erases the entry; the next
   lookup makes a box that retains nothing, and a Buffer bound to it outlives the context.
3. `resource_handles.cpp:1554`: the comment at 1549 says that a concurrent import
   "must wait until the mapping is gone".  It waits only if the deleter has the
   mutex already; between the last reference and that lock it re-imports, and the deleter's
   free then unmaps the new import too.

The following were met while modelling.  They have no run; the setting that shows each is given.

4. `resource_handles.cpp:520`: the release store that clears `scheduled_` and the
   acquire load of `head_` after it are not ordered.  A producer may push after the
   load and read the flag before the store: nobody drains its payload until the
   next entry into the queue.  (`deferred_live`: `QueuedWorkIsCovered` without `missed`.)
5. `_subclasses.pyx:145`: an error restoring the context after a successful
   `cuGraphNodeSetParams` rolls back the attachment that the node now needs.
   (`graph_safe` with the invariant `ParametersAlive`.)
6. `_file_stream.py:579`: `clear` spares the temporary files of writers, but removes
   the empty directory they are about to rename into.
7. `_graph_builder.pyx:463`: a builder owns the graph from the beginning of the
   capture, while the driver destroys it when the capture cannot be ended.
   `DanglesOnlyIfBroken` is what remains true.
8. The tracker of the file cache may go negative, and a builder whose capture was
   invalidated can be neither ended nor closed.
9. `_virtual_memory_resource.py`.  The fast path of a growth is unreachable (line 280, see
   `VirtualMemory`).  A failing reservation at the wanted address ends the growth, because
   it is followed by an `AddressFree` of nothing.  `buf._clear()` (line 461) runs the deleter,
   and so `deallocate` of a range that was freed and may by then be another's, although the
   comment at line 460 says that the destructor then "won't try to free again": without its exemption of `recycled`
   TLC finds `OpenIsBacked` violated.  A growth whose `Buffer.from_handle` cannot
   record a stream has cleared the old Buffer and gives up the new range.  The reference `cuMemCreate` returned
   is never released (`kept` only grows), so physical memory outlives its Buffer.  After a growth to an
   unaligned size the driver refuses to unmap what `deallocate` asks for.
10. `_graph_builder.pyx:999`: dropping a builder ends its capture and ignores a failure.  In the
    `global` and `thread_local` modes (line 433) the driver refuses that on every other thread, so a
    builder that is collected there leaves its stream in the capture.  (`builder_safe`:
    `NoPoisonedStream` without `stranded`.)
11. `_device.pyx:1319`: when the push fails, the context that the pop took is not put back, and the
    `Device` still names the one it had.  The docstring at line 1263 says that the previous
    context is "popped and returned".  (`context_safe`: `CallerRestored` with `chosen[t]` for `Due(t)`.)

## 9. What is not modelled

* Within modelled components.  Windows sharing violations and
  `max_size_bytes=None` of the file cache; allocation failures of C++; weaker
  memory orders than store buffering; embedding deeper than one level and the
  driver's check that an update's topology agrees; joining builders of different captures,
  and the options of `Graph`; a Python finalizer that runs under
  `ipc_import_mutex` and imports again; contexts entered inside an operation in another
  one; the synchronisation that `set_deallocation_stream` leaves to its caller; the
  registries of streams, events, kernels and graph nodes.  A
  context that another thread still has current is not closed, and a Buffer is grown by
  one thread at a time: these are the callers' obligations.
* Whole components: those of section 1 that are not in bold.  `PROJECT.json`
  gives the reason for each: planned, or a thin translation to driver calls whose
  state is the driver's.  Generated bindings, formatting, option parsing and
  messages are no subject for a model of this kind.
