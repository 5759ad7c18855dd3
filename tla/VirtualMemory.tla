----------------------------- MODULE VirtualMemory -----------------------------
(***************************************************************************)
(* VirtualMemoryResource (_memory/_virtual_memory_resource.py): buffers    *)
(* made of a reserved address range, physical memory and the mappings that *)
(* connect them, each obtained by a driver call of its own.                *)
(*                                                                         *)
(* allocate and modify_allocation run their calls in a Transaction         *)
(* (_utils/cuda_utils.pyx), which undoes them in reverse order when one    *)
(* fails; deallocate runs in the deleter of the box that a Buffer, and any *)
(* graph node that was given the Buffer, hold.  Every driver call gives up *)
(* the GIL, so calls of several threads interleave.  A Buffer is used by   *)
(* one thread at a time.                                                   *)
(*                                                                         *)
(* modify_allocation compares the reserved address, a CUdeviceptr, with an *)
(* int; CUdeviceptr defines no comparison, so they always differ and a     *)
(* growth always moves the buffer.  The path that grows in place is        *)
(* unreachable and is left out.                                            *)
(*                                                                         *)
(* Addresses and ranges count granules, sizes of buffers count parts of a  *)
(* granule, Gran to one.  The driver is modelled as cuda_bindings          *)
(* documents it.  Faults are injected into the calls that take something;  *)
(* those that give back fail only on illegal arguments.                    *)
(***************************************************************************)
EXTENDS Naturals, Sequences, FiniteSets

CONSTANTS
    Threads, Buffers, Handles,
    Top,         \* the addresses are 0 .. Top - 1
    Gran,        \* parts of a granule
    Sizes,       \* sizes that callers ask for
    MaxOps,      \* bound: operations
    MaxFaults,   \* bound: injected failures
    None

ASSUME GranIsPositive == Gran \in Nat \ {0} /\ Top \in Nat
ASSUME SizesArePositive == Sizes \subseteq Nat \ {0}
ASSUME BoundsAreNatural == MaxOps \in Nat /\ MaxFaults \in Nat
ASSUME InstanceIsFinite == IsFiniteSet(Threads)
ASSUME NoneIsNothing == None \notin Buffers \cup Handles

VARIABLES
    reserved,  \* the driver's reservations, with what became of them (history)
    mapped,    \* the driver's mappings
    phys,      \* physical memory: its length and references
    buffer,    \* Python's Buffer objects
    box,       \* the boxes their _h_ptr points to
    content,   \* history: the physical granules a buffer's user has written to
    kept,      \* history: references that a commit left without a holder
    recycled,  \* history: the driver has handed out a range that a box remembered
    pc, call,  \* what each thread does
    undo,      \* its Transaction
    ops, faults

driver == <<reserved, mapped, phys>>
python == <<buffer, box, content>>
vars == <<driver, python, kept, recycled, pc, call, undo, ops, faults>>

Granules(n) == (n + Gran - 1) \div Gran
Cells(at, n) == at .. at + n - 1
Holders == {"buffer", "graph"}

NoBox == [ptr |-> 0, size |-> 0, holders |-> {}]
NoBuffer == [open |-> FALSE, size |-> 0]
Idle == [op |-> "none", b |-> None, to |-> None, new |-> 0, prev |-> 0, ptr |-> 0, h |-> None, old |-> None, dptr |-> 0, dsize |-> 0, dh |-> None]

Steps == {"idle", "probe", "probe_free", "reserve", "retain", "unmap_old", "map_old", "create", "map",
          "access", "free_old", "clear", "return", "d_retain", "d_unmap", "d_free", "d_release", "rollback"}

TypeOK ==
    /\ reserved \subseteq [base : 0 .. Top, len : 1 .. Top, is : {"pending", "owned", "leaving", "lost"}]
    /\ mapped \subseteq [base : 0 .. Top, len : 1 .. Top, h : Handles, access : BOOLEAN]
    /\ phys \in [Handles -> [len : Nat, refs : Nat]]
    /\ buffer \in [Buffers -> [open : BOOLEAN, size : Nat]]
    /\ box \in [Buffers -> [ptr : 0 .. Top, size : Nat, holders : SUBSET Holders]]
    /\ kept \in [Handles -> Nat]
    /\ pc \in [Threads -> Steps]
    \* The driver never reserves or maps a granule twice.
    /\ \A r, s \in reserved : r # s => Cells(r.base, r.len) \cap Cells(s.base, s.len) = {}
    /\ \A m, n \in mapped : m # n => Cells(m.base, m.len) \cap Cells(n.base, n.len) = {}
    \* An open Buffer holds its box, at the size the deleter will use.
    /\ \A b \in Buffers : buffer[b].open => "buffer" \in box[b].holders /\ box[b].size = buffer[b].size

Init ==
    /\ reserved = {} /\ mapped = {}
    /\ phys = [h \in Handles |-> [len |-> 0, refs |-> 0]]
    /\ buffer = [b \in Buffers |-> NoBuffer] /\ box = [b \in Buffers |-> NoBox]
    /\ content = [b \in Buffers |-> <<>>] /\ kept = [h \in Handles |-> 0]
    /\ recycled = FALSE
    /\ pc = [t \in Threads |-> "idle"] /\ call = [t \in Threads |-> Idle]
    /\ undo = [t \in Threads |-> <<>>]
    /\ ops = 0 /\ faults = 0

-----------------------------------------------------------------------------
(* The driver.                                                             *)

Backing(a) == {m \in mapped : a \in Cells(m.base, m.len)}
Inside(at, n) == {m \in mapped : Cells(m.base, m.len) \subseteq Cells(at, n)}
\* The range consists of whole mappings.
FullyMapped(at, n) == n > 0 /\ \A a \in Cells(at, n) : Backing(a) # {} /\ Backing(a) \subseteq Inside(at, n)

\* Ranges that a box remembers: a Buffer's, or one whose deleter is running.
Remembered ==
    UNION ({Cells(box[b].ptr, Granules(box[b].size)) : b \in {b \in Buffers : box[b].holders # {}}}
           \cup {Cells(call[t].dptr, Granules(call[t].dsize)) : t \in {t \in Threads : pc[t] \in {"d_retain", "d_unmap", "d_free"}}})

\* cuMemAddressReserve: the ranges the driver may return.
Reservable(n) ==
    {a \in 0 .. Top : /\ n > 0 /\ a + n <= Top
                      /\ \A r \in reserved : Cells(r.base, r.len) \cap Cells(a, n) = {}}

\* The driver may return a range that was freed and is still remembered.
Recycling(a, n) == recycled' = (recycled \/ Cells(a, n) \cap Remembered # {})

\* cuMemMap maps from the start of an allocation, no more than there is.
Mappable(at, n, h) ==
    /\ n > 0 /\ n <= phys[h].len
    /\ \E r \in reserved : Cells(at, n) \subseteq Cells(r.base, r.len)
    /\ \A a \in Cells(at, n) : Backing(a) = {}

\* cuMemCreate: an allocation that is neither referred to nor mapped is gone.
Unused(h) == phys[h].refs = 0 /\ \A m \in mapped : m.h # h

Ref(h) == [phys EXCEPT ![h].refs = @ + 1]
Unref(h) == [phys EXCEPT ![h].refs = @ - 1]
Unmapped(at, n) == mapped \ Inside(at, n)
Freed(at, n) == {r \in reserved : ~(r.base = at /\ r.len = n)}
Freeable(at, n) == /\ \E r \in reserved : r.base = at /\ r.len = n
                   /\ \A a \in Cells(at, n) : Backing(a) = {}
Mark(at, what) == {IF at = r.base THEN [r EXCEPT !.is = what] ELSE r : r \in reserved}
Mapping(at, n, h) == [base |-> at, len |-> n, h |-> h, access |-> FALSE]
WithAccess(at, n) == {IF m \in Inside(at, n) THEN [m EXCEPT !.access = TRUE] ELSE m : m \in mapped}
\* The physical granules behind a range.
View(at, n) == [i \in 1 .. n |-> {<<m.h, at + i - 1 - m.base>> : m \in Backing(at + i - 1)}]

-----------------------------------------------------------------------------
(* What the steps share.                                                   *)

Goto(t, p) == pc' = [pc EXCEPT ![t] = p]
Return(t) == /\ Goto(t, "idle") /\ call' = [call EXCEPT ![t] = Idle]
Busy(b) == \E t \in Threads : b \in {call[t].b, call[t].to}
Free(b) == ~buffer[b].open /\ box[b].holders = {} /\ ~Busy(b)

\* A call that takes something may fail, also when its arguments are legal.
Fault == faults < MaxFaults /\ faults' = faults + 1
Fails(legal) == \/ ~legal /\ UNCHANGED faults
                \/ legal /\ Fault

Register_Fifo(t, do, at, n, h) == undo' = [undo EXCEPT ![t] = Append(@, [do |-> do, at |-> at, n |-> n, h |-> h])]

\* Transaction.append and commit, and an exception in the with block.
Register(t, do, at, n, h) == undo' = [undo EXCEPT ![t] = <<[do |-> do, at |-> at, n |-> n, h |-> h]>> \o @]
Commit(t, hs) == /\ undo' = [undo EXCEPT ![t] = <<>>]
                 /\ kept' = [h \in Handles |-> IF h \in hs THEN kept[h] + 1 ELSE kept[h]]
                 /\ UNCHANGED recycled
Raise(t) == Goto(t, "rollback") /\ UNCHANGED <<driver, python, kept, recycled, call, ops>>

Growing(t) == call[t].op = "grow"
Total(t) == Granules(call[t].new)
Chunk(t) == Total(t) - call[t].prev
OldPtr(t) == box[call[t].b].ptr

NewBuffer_Rounded(t, size) ==
    /\ buffer' = [buffer EXCEPT ![call[t].to] = [open |-> TRUE, size |-> Gran * Granules(size)]]
    /\ box' = [box EXCEPT ![call[t].to] = [ptr |-> call[t].ptr, size |-> size, holders |-> {"buffer"}]]
    /\ content' = [content EXCEPT ![call[t].to] = View(call[t].ptr, Granules(size))]

\* Buffer.from_handle: its box remembers address and size.  When no stream can be
\* recorded for it after that, the handle is reset and an exception raised: the
\* same as closing the new Buffer at once (Close).
NewBuffer(t, size) ==
    /\ buffer' = [buffer EXCEPT ![call[t].to] = [open |-> TRUE, size |-> size]]
    /\ box' = [box EXCEPT ![call[t].to] = [ptr |-> call[t].ptr, size |-> size, holders |-> {"buffer"}]]
    /\ content' = [content EXCEPT ![call[t].to] = View(call[t].ptr, Granules(size))]

-----------------------------------------------------------------------------
(* allocate and modify_allocation: the calls inside the transaction.       *)

Begin(t, p, c) ==
    /\ pc[t] = "idle" /\ ops < MaxOps /\ ops' = ops + 1
    /\ Goto(t, p) /\ call' = [call EXCEPT ![t] = c]

Allocate(t, b, n) ==
    /\ Free(b)
    /\ Begin(t, "create", [Idle EXCEPT !.op = "allocate", !.to = b, !.new = n])
    /\ UNCHANGED <<driver, python, kept, recycled, undo, faults>>

\* A new size that is not larger: only the access rights are set again.
Reaccess(t, b, n) ==
    /\ buffer[b].open /\ ~Busy(b) /\ n <= buffer[b].size
    /\ pc[t] = "idle" /\ ops < MaxOps /\ ops' = ops + 1
    /\ LET len == Granules(buffer[b].size)
           legal == buffer[b].size % Gran = 0 /\ FullyMapped(box[b].ptr, len) IN
       \/ legal /\ mapped' = WithAccess(box[b].ptr, len) /\ UNCHANGED faults
       \/ Fails(legal) /\ UNCHANGED mapped
    /\ UNCHANGED <<reserved, phys, python, kept, recycled, pc, call, undo>>

\* aligned_prev_size is what is left when the extension is rounded up.
Prev(b, n) == Granules(n) - Granules(n - buffer[b].size)

Modify(t, b, b2, n) ==
    /\ buffer[b].open /\ ~Busy(b) /\ n > buffer[b].size /\ Free(b2)
    /\ Begin(t, "probe", [Idle EXCEPT !.op = "grow", !.b = b, !.to = b2, !.new = n, !.prev = Prev(b, n)])
    /\ UNCHANGED <<driver, python, kept, recycled, undo, faults>>

\* The reservation behind the buffer, given back wherever it is.  When it
\* fails the growth is over, whatever the error: freeing address 0 raises.
Probe(t) ==
    /\ pc[t] = "probe"
    /\ \/ \E a \in Reservable(Chunk(t)) :
            /\ reserved' = reserved \cup {[base |-> a, len |-> Chunk(t), is |-> "pending"]}
            /\ call' = [call EXCEPT ![t].ptr = a] /\ Goto(t, "probe_free")
            /\ Recycling(a, Chunk(t))
            /\ UNCHANGED faults
       \/ Fails(Reservable(Chunk(t)) # {}) /\ Return(t) /\ UNCHANGED <<reserved, recycled>>
    /\ UNCHANGED <<mapped, phys, python, kept, undo, ops>>

ProbeFree(t) ==
    /\ pc[t] = "probe_free"
    /\ reserved' = Freed(call[t].ptr, Chunk(t))
    /\ Goto(t, "reserve")
    /\ UNCHANGED <<mapped, phys, python, kept, recycled, call, undo, ops, faults>>

Reserve(t) ==
    /\ pc[t] = "reserve"
    /\ \/ \E a \in Reservable(Total(t)) :
            /\ reserved' = reserved \cup {[base |-> a, len |-> Total(t), is |-> "pending"]}
            /\ call' = [call EXCEPT ![t].ptr = a]
            /\ Register(t, "free", a, Total(t), None)
            /\ Goto(t, IF Growing(t) THEN "retain" ELSE "map")
            /\ Recycling(a, Total(t))
            /\ UNCHANGED <<mapped, phys, python, kept, ops, faults>>
       \/ Fails(Reservable(Total(t)) # {}) /\ Raise(t) /\ UNCHANGED undo

OldBacking_End(t) == Backing(OldPtr(t) + Granules(buffer[call[t].b].size))

\* The mapping at the old Buffer's address.
OldBacking(t) == Backing(OldPtr(t))

\* cuMemRetainAllocationHandle: the memory behind the first granule.
Retain(t) ==
    /\ pc[t] = "retain"
    /\ \/ \E m \in OldBacking(t) :
            /\ phys' = Ref(m.h)
            /\ call' = [call EXCEPT ![t].old = m.h]
            /\ Register(t, "release", 0, 0, m.h)
            /\ Goto(t, "unmap_old")
            /\ UNCHANGED <<reserved, mapped, python, kept, recycled, ops, faults>>
       \/ Fails(OldBacking(t) # {}) /\ Raise(t) /\ UNCHANGED undo

UnmapOld(t) ==
    /\ pc[t] = "unmap_old"
    /\ LET legal == FullyMapped(OldPtr(t), call[t].prev) IN
       \/ /\ legal
          /\ mapped' = Unmapped(OldPtr(t), call[t].prev)
          /\ reserved' = Mark(OldPtr(t), "leaving")
          /\ Register(t, "remap", OldPtr(t), call[t].prev, call[t].old)
          /\ Goto(t, "map_old")
          /\ UNCHANGED <<phys, python, kept, recycled, call, ops, faults>>
       \/ ~legal /\ Raise(t) /\ UNCHANGED <<undo, faults>>

MapOld(t) ==
    /\ pc[t] = "map_old"
    /\ LET legal == Mappable(call[t].ptr, call[t].prev, call[t].old) IN
       \/ /\ legal
          /\ mapped' = mapped \cup {Mapping(call[t].ptr, call[t].prev, call[t].old)}
          /\ Register(t, "unmap", call[t].ptr, call[t].prev, None)
          /\ Goto(t, "create")
          /\ UNCHANGED <<reserved, phys, python, kept, recycled, call, ops, faults>>
       \/ Fails(legal) /\ Raise(t) /\ UNCHANGED undo

Create(t) ==
    /\ pc[t] = "create"
    /\ \/ \E h \in Handles :
            /\ Unused(h)
            /\ phys' = [phys EXCEPT ![h] = [len |-> Chunk(t), refs |-> 1]]
            /\ call' = [call EXCEPT ![t].h = h]
            /\ Register(t, "release", 0, 0, h)
            /\ Goto(t, IF Growing(t) THEN "map" ELSE "reserve")
            /\ UNCHANGED <<reserved, mapped, python, kept, recycled, ops, faults>>
       \/ Fails(\E h \in Handles : Unused(h)) /\ Raise(t) /\ UNCHANGED undo

\* allocate registers the undo before it looks at the result.
Map(t) ==
    /\ pc[t] = "map"
    /\ LET at == call[t].ptr + call[t].prev
           legal == Mappable(at, Chunk(t), call[t].h) IN
       \/ /\ legal
          /\ mapped' = mapped \cup {Mapping(at, Chunk(t), call[t].h)}
          /\ Register(t, "unmap", at, Chunk(t), None)
          /\ Goto(t, "access")
          /\ UNCHANGED <<reserved, phys, python, kept, recycled, call, ops, faults>>
       \/ /\ Fails(legal) /\ Raise(t)
          /\ IF Growing(t) THEN UNCHANGED undo ELSE Register(t, "unmap", at, Chunk(t), None)

\* cuMemSetAccess: a mapping starts without access, also a moved one.
Opened_New(t) == WithAccess(call[t].ptr + call[t].prev, Chunk(t))

Opened(t) == WithAccess(call[t].ptr, Total(t))

\* cuMemSetAccess and commit.
Access(t) ==
    /\ pc[t] = "access"
    /\ LET legal == FullyMapped(call[t].ptr, Total(t)) IN
       \/ /\ legal
          /\ mapped' = Opened(t)
          /\ reserved' = Mark(call[t].ptr, "owned")
          /\ Commit(t, {call[t].h, call[t].old})
          /\ IF Growing(t)
             THEN Goto(t, "free_old") /\ UNCHANGED <<python, call>>
             ELSE Return(t) /\ NewBuffer(t, Gran * Total(t))
          /\ UNCHANGED <<phys, ops, faults>>
       \/ Fails(legal) /\ Raise(t) /\ UNCHANGED undo

Rollback(t) ==
    /\ pc[t] = "rollback" /\ undo[t] # <<>>
    /\ LET u == Head(undo[t]) IN
       /\ reserved' = IF u.do = "free" /\ Freeable(u.at, u.n) THEN Freed(u.at, u.n) ELSE reserved
       /\ phys' = IF u.do = "release" THEN Unref(u.h) ELSE phys
       /\ mapped' = CASE u.do = "unmap" /\ FullyMapped(u.at, u.n) -> Unmapped(u.at, u.n)
                      [] u.do = "remap" /\ Mappable(u.at, u.n, u.h) -> mapped \cup {Mapping(u.at, u.n, u.h)}
                      [] OTHER -> mapped
    /\ undo' = [undo EXCEPT ![t] = Tail(@)]
    /\ UNCHANGED <<python, kept, recycled, pc, call, ops, faults>>

RolledBack(t) ==
    /\ pc[t] = "rollback" /\ undo[t] = <<>>
    /\ Return(t)
    /\ UNCHANGED <<driver, python, kept, recycled, undo, ops, faults>>

-----------------------------------------------------------------------------
(* modify_allocation after its commit.                                     *)

FreeOld(t) ==
    /\ pc[t] = "free_old"
    /\ IF Freeable(OldPtr(t), call[t].prev)
       THEN reserved' = Freed(OldPtr(t), call[t].prev) /\ Goto(t, "clear") /\ UNCHANGED call
       ELSE reserved' = Mark(call[t].ptr, "lost") /\ Return(t)
    /\ UNCHANGED <<mapped, phys, python, kept, recycled, undo, ops, faults>>

\* A box that loses its last holder runs its deleter, which has remembered
\* the size it was made with; then the thread goes on at p.
LetGo(t, b, who, p, c) ==
    LET rest == box[b].holders \ {who} IN
    /\ box' = [box EXCEPT ![b] = IF rest = {} THEN NoBox ELSE [@ EXCEPT !.holders = rest]]
    /\ IF rest = {}
       THEN Goto(t, "d_retain") /\ call' = [call EXCEPT ![t] = [c EXCEPT !.dptr = box[b].ptr, !.dsize = box[b].size]]
       ELSE Goto(t, p) /\ call' = [call EXCEPT ![t] = IF p = "idle" THEN Idle ELSE c]

\* buf._clear(): it releases the handle, so its deleter runs here or later.
Clear(t) ==
    /\ pc[t] = "clear"
    /\ buffer' = [buffer EXCEPT ![call[t].b] = NoBuffer]
    /\ content' = [content EXCEPT ![call[t].b] = <<>>]
    /\ LetGo(t, call[t].b, "buffer", "return", call[t])
    /\ UNCHANGED <<driver, kept, recycled, undo, ops, faults>>

Moved(t) ==
    /\ pc[t] = "return"
    /\ NewBuffer(t, call[t].new)
    /\ Return(t)
    /\ UNCHANGED <<driver, kept, recycled, undo, ops, faults>>

-----------------------------------------------------------------------------
(* Buffer.close, a graph node that holds the Buffer's handle, deallocate.  *)

Close(t, b) ==
    /\ buffer[b].open /\ ~Busy(b) /\ pc[t] = "idle"
    /\ buffer' = [buffer EXCEPT ![b] = NoBuffer]
    /\ content' = [content EXCEPT ![b] = <<>>]
    /\ LetGo(t, b, "buffer", "idle", [Idle EXCEPT !.op = "close"])
    /\ UNCHANGED <<driver, kept, recycled, undo, ops, faults>>

Share(b) ==
    /\ buffer[b].open /\ ~Busy(b)
    /\ box' = [box EXCEPT ![b].holders = Holders]
    /\ UNCHANGED <<driver, buffer, content, kept, recycled, pc, call, undo, ops, faults>>

DropGraph(t, b) ==
    /\ "graph" \in box[b].holders /\ pc[t] = "idle"
    /\ LetGo(t, b, "graph", "idle", [Idle EXCEPT !.op = "close"])
    /\ UNCHANGED <<driver, buffer, content, kept, recycled, undo, ops, faults>>

\* The end of deallocate, successful or with a warning on stderr.
Deallocated(t) == IF Growing(t) THEN Goto(t, "return") /\ UNCHANGED call ELSE Return(t)
Refused(t) == Deallocated(t) /\ reserved' = Mark(call[t].dptr, "lost")

DRetain(t) ==
    /\ pc[t] = "d_retain"
    /\ \/ \E m \in Backing(call[t].dptr) :
            /\ phys' = Ref(m.h)
            /\ call' = [call EXCEPT ![t].dh = m.h] /\ Goto(t, "d_unmap")
            /\ UNCHANGED reserved
       \/ Backing(call[t].dptr) = {} /\ Refused(t) /\ UNCHANGED phys
    /\ UNCHANGED <<mapped, python, kept, recycled, undo, ops, faults>>

DUnmap_FreeFirst(t) ==
    /\ pc[t] = "d_unmap"
    /\ IF Freeable(call[t].dptr, Granules(call[t].dsize))
       THEN Goto(t, "d_free") /\ UNCHANGED <<reserved, call, kept>>
       ELSE Refused(t) /\ kept' = [kept EXCEPT ![call[t].dh] = @ + 1]
    /\ UNCHANGED <<mapped, phys, python, recycled, undo, ops, faults>>

DUnmap(t) ==
    /\ pc[t] = "d_unmap"
    /\ LET n == Granules(call[t].dsize) IN
       IF call[t].dsize % Gran = 0 /\ FullyMapped(call[t].dptr, n)
       THEN mapped' = Unmapped(call[t].dptr, n) /\ Goto(t, "d_free") /\ UNCHANGED <<reserved, call, kept>>
       ELSE Refused(t) /\ kept' = [kept EXCEPT ![call[t].dh] = @ + 1] /\ UNCHANGED mapped
    /\ UNCHANGED <<phys, python, recycled, undo, ops, faults>>

DFree(t) ==
    /\ pc[t] = "d_free"
    /\ LET n == Granules(call[t].dsize) IN
       IF Freeable(call[t].dptr, n)
       THEN reserved' = Freed(call[t].dptr, n) /\ Goto(t, "d_release") /\ UNCHANGED <<call, kept>>
       ELSE Refused(t) /\ kept' = [kept EXCEPT ![call[t].dh] = @ + 1]
    /\ UNCHANGED <<mapped, phys, python, recycled, undo, ops, faults>>

DRelease_Forgotten(t) ==
    /\ pc[t] = "d_release"
    /\ Deallocated(t)
    /\ UNCHANGED <<reserved, mapped, phys, python, kept, recycled, undo, ops, faults>>

DRelease(t) ==
    /\ pc[t] = "d_release"
    /\ phys' = Unref(call[t].dh)
    /\ Deallocated(t)
    /\ UNCHANGED <<reserved, mapped, python, kept, recycled, undo, ops, faults>>

Next ==
    \/ \E t \in Threads :
        \/ \E b \in Buffers, n \in Sizes : Allocate(t, b, n) \/ Reaccess(t, b, n)
        \/ \E b, b2 \in Buffers, n \in Sizes : Modify(t, b, b2, n)
        \/ Probe(t) \/ ProbeFree(t) \/ Reserve(t) \/ Retain(t) \/ UnmapOld(t) \/ MapOld(t)
        \/ Create(t) \/ Map(t) \/ Access(t) \/ Rollback(t) \/ RolledBack(t)
        \/ FreeOld(t) \/ Clear(t) \/ Moved(t)
        \/ \E b \in Buffers : Close(t, b) \/ DropGraph(t, b)
        \/ DRetain(t) \/ DUnmap(t) \/ DFree(t) \/ DRelease(t)
    \/ \E b \in Buffers : Share(b)

Spec == Init /\ [][Next]_vars

-----------------------------------------------------------------------------
(* Properties.  While the box of a Buffer that has moved waits for its     *)
(* deleter the driver may give its range to someone else; the deleter then *)
(* unmaps and frees what is not its own.  The properties that mention      *)
(* addresses are of every execution up to the first time that happens.     *)

Deallocating(t) == pc[t] \in {"d_retain", "d_unmap", "d_free", "d_release"}
Moving(t) == Growing(t) /\ (pc[t] \in {"free_old", "clear", "return"} \/ Deallocating(t))
Backed(b) ==
    \A i \in 1 .. Len(content[b]) :
        \E m \in Backing(box[b].ptr + i - 1) : m.access /\ <<m.h, box[b].ptr + i - 1 - m.base>> \in content[b][i]
Leaving(b) ==
    \/ \E r \in reserved : r.base = box[b].ptr /\ r.is = "leaving"
    \/ \E t \in Threads : pc[t] = "clear" /\ call[t].b = b

\* Whatever fails, and whatever other threads allocate, grow and free in the
\* meantime: all of an open Buffer is mapped, accessible and has the memory it
\* was made with, unless a growth of this Buffer has got past unmapping it.
OpenIsBacked == recycled \/ \A b \in Buffers : buffer[b].open => Backed(b) \/ Leaving(b)

\* Transactions leave nothing behind: a reserved range belongs to a call under
\* way that will give it back, to a growth that has committed it, or to a box
\* whose deleter will; otherwise its loss was reported.
NothingStranded ==
    recycled \/ \A r \in reserved :
        \/ r.is = "lost"
        \/ \E b \in Buffers : box[b].holders # {} /\ box[b].ptr = r.base
        \/ \E t \in Threads :
            \/ \E i \in 1 .. Len(undo[t]) : undo[t][i].do = "free" /\ undo[t][i].at = r.base
            \/ pc[t] = "probe_free" /\ call[t].ptr = r.base
            \/ Moving(t) /\ call[t].ptr = r.base
            \/ Deallocating(t) /\ call[t].dptr = r.base

\* The i-th entry of t's transaction gives back a reference to h.
Releases(t, i, h) == i <= Len(undo[t]) /\ undo[t][i].do = "release" /\ undo[t][i].h = h

\* Every reference to physical memory is in a transaction that will release
\* it, in the hand of a deallocation, or one that commit let go of.
ReferencesAccounted ==
    \A h \in Handles :
        phys[h].refs = kept[h]
            + Cardinality({e \in Threads \X (1 .. 8) : Releases(e[1], e[2], h)})
            + Cardinality({t \in Threads : pc[t] \in {"d_unmap", "d_free", "d_release"} /\ call[t].dh = h})

\* A growth that has committed keeps what was written: the new range begins
\* with the memory of the old one.  For sizes that are multiples of the
\* granularity; see the README for the others.
GrowthKeepsContents ==
    recycled \/ \A t \in Threads :
        pc[t] \in {"free_old", "clear"} /\ buffer[call[t].b].size % Gran = 0 =>
            LET old == content[call[t].b] IN
            \A i \in 1 .. Len(old) : \E m \in Backing(call[t].ptr + i - 1) : <<m.h, call[t].ptr + i - 1 - m.base>> \in old[i]

\* Deallocating the range of a Buffer whose size is a multiple of the
\* granularity is never refused by the driver, unless a growth has left it.
NeverRefused ==
    [][recycled \/ \A t \in Threads :
        pc[t] \in {"d_retain", "d_unmap", "d_free"} /\ ~Deallocating(t)' =>
            \/ call[t].dsize % Gran # 0
            \/ \A r \in reserved : r.base = call[t].dptr => r.is # "owned"]_vars

\* The docstring of modify_allocation (:215): "if any step fails, the original
\* buffer is not modified".  So an open Buffer that no call works on is backed.
FailedGrowthKeepsBuffer == \A b \in Buffers : buffer[b].open /\ ~Busy(b) => Backed(b)

=============================================================================
