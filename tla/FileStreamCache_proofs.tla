------------------------ MODULE FileStreamCache_proofs ------------------------
(***************************************************************************)
(* Proofs about FileStreamCache for any number of processes, threads and   *)
(* keys, and without any bound on operations, crashes or failures: its     *)
(* types, that a late reader never makes an entry look older than its      *)
(* commit, that a pass which nobody disturbs finds what is on the disk and *)
(* evicts by least recent use, and that the tracker is exact as long as    *)
(* nothing overlaps.                                                       *)
(*                                                                         *)
(* Sums over keys and threads are SumFunctionOnSet of the community        *)
(* modules.  Its recursion is over finite sets; the first lemmas obtain    *)
(* what a sum does from the least size of a set that would be an exception.*)
(***************************************************************************)
EXTENDS FileStreamCache, FiniteSetTheorems, WellFoundedInduction, TLAPS

-----------------------------------------------------------------------------
(* Sums.                                                                    *)

\* A non-empty set of naturals has a least element: the form of induction
\* that the lemmas on sums use.
LEMMA LeastElement ==
    ASSUME NEW T, T \subseteq Nat, T # {}
    PROVE  \E n \in T : \A m \in T : n <= m
<1>1. IsWellFoundedOn(OpToRel(<, Nat), Nat)
  BY NatLessThanWellFounded
<1>2. PICK n \in T : \A m \in T : ~ (<<m, n>> \in OpToRel(<, Nat))
  BY <1>1, WFMin
<1>3. \A m \in T : ~ (m < n)
  BY <1>2 DEF OpToRel
<1> QED
  BY <1>3

\* What holds of a set when it holds of the set without any one element holds
\* of every finite set.
LEMMA SubsetInduction ==
    ASSUME NEW S, IsFiniteSet(S), NEW G,
           \A s \in SUBSET S : (\A z \in s : s \ {z} \in G) => s \in G
    PROVE  S \in G
<1> DEFINE T == {n \in Nat : \E s \in SUBSET S : Cardinality(s) = n /\ s \notin G}
<1>f. \A s \in SUBSET S : IsFiniteSet(s) /\ Cardinality(s) \in Nat
  BY FS_Subset, FS_CardinalityType
<1>1. SUFFICES ASSUME T # {} PROVE FALSE
  BY <1>f
<1>2. PICK n \in T : \A k \in T : n <= k
  <2>1. T \subseteq Nat
    OBVIOUS
  <2> HIDE DEF T
  <2> QED
    BY <1>1, <2>1, LeastElement
<1>3. PICK s \in SUBSET S : Cardinality(s) = n /\ s \notin G
  BY <1>2
<1>4. PICK z \in s : s \ {z} \notin G
  BY <1>3
<1>5. s \ {z} \in SUBSET S /\ Cardinality(s \ {z}) = n - 1 /\ Cardinality(s \ {z}) \in Nat
  BY <1>f, <1>3, FS_RemoveElement
<1>6. n - 1 \in T /\ n \in Nat
  BY <1>2, <1>4, <1>5
<1> QED
  BY <1>2, <1>6

\* The element that a sum takes first, and the recursion of the sum: its value
\* for every subset of S, from the values for smaller ones.
First(s) == CHOOSE x \in s : TRUE
Sum1(f, s, g) == IF s = {} THEN 0 ELSE f[First(s)] + g[s \ {First(s)}]
Sums(f, S, g) == g = [s \in SUBSET S |-> Sum1(f, s, g)]

\* What the community module computes, in these words.
LEMMA SumIs ==
    ASSUME NEW f, NEW S PROVE SumFunctionOnSet(f, S) = (CHOOSE g : Sums(f, S, g))[S]
  BY DEF SumFunctionOnSet, FoldFunctionOnSet, MapThenFoldSet, Sums, Sum1, First

\* A set without its first element is smaller.
LEMMA Smaller ==
    ASSUME NEW s, IsFiniteSet(s), s # {}
    PROVE  /\ First(s) \in s
           /\ IsFiniteSet(s \ {First(s)})
           /\ Cardinality(s) \in Nat /\ Cardinality(s \ {First(s)}) \in Nat
           /\ Cardinality(s \ {First(s)}) = Cardinality(s) - 1
<1>1. First(s) \in s
  BY DEF First
<1> QED
  BY <1>1, FS_RemoveElement, FS_CardinalityType

\* The recursion has a solution.
LEMMA SumsExists ==
    ASSUME NEW f, NEW S, IsFiniteSet(S)
    PROVE  \E g : Sums(f, S, g)
<1> DEFINE Upto(n, g) == \A s \in SUBSET S : Cardinality(s) <= n => g[s] = Sum1(f, s, g)
           T == {n \in Nat : ~ \E g : Upto(n, g)}
<1>f. \A s \in SUBSET S : IsFiniteSet(s) /\ Cardinality(s) \in Nat
                          /\ Cardinality(s) <= Cardinality(S)
  BY FS_Subset, FS_CardinalityType
<1>1. T = {}
  <2>1. SUFFICES ASSUME T # {} PROVE FALSE
    OBVIOUS
  <2>2. PICK n \in T : \A k \in T : n <= k
    <3>1. T \subseteq Nat
      OBVIOUS
    <3> HIDE DEF T
    <3> QED
      BY <2>1, <3>1, LeastElement
  <2>3. CASE n = 0
    <3>1. Upto(0, [s \in SUBSET S |-> 0])
      <4> SUFFICES ASSUME NEW s \in SUBSET S, Cardinality(s) <= 0
                   PROVE  s = {}
        BY DEF Sum1
      <4> QED
        BY <1>f, FS_EmptySet
    <3> HIDE DEF Upto
    <3> QED
      BY <2>2, <2>3, <3>1
  <2>4. CASE n # 0
    <3>1. n - 1 \in Nat /\ n - 1 \notin T /\ n \in Nat
      BY <2>2, <2>4
    <3>2. PICK g : Upto(n - 1, g)
      <4> HIDE DEF Upto
      <4> QED
        BY <3>1
    <3>3. PICK h : h = [s \in SUBSET S |-> Sum1(f, s, g)]
      OBVIOUS
    <3>4. \A s \in SUBSET S : Cardinality(s) <= n - 1 => h[s] = g[s]
      BY <3>2, <3>3
    <3>5. ASSUME NEW s \in SUBSET S, Cardinality(s) <= n PROVE h[s] = Sum1(f, s, h)
      <4>1. CASE s = {}
        BY <3>3, <4>1 DEF Sum1
      <4>2. CASE s # {}
        <5>1. /\ s \ {First(s)} \in SUBSET S
              /\ Cardinality(s \ {First(s)}) <= n - 1
          BY <1>f, <3>1, <3>5, <4>2, Smaller
        <5>2. h[s \ {First(s)}] = g[s \ {First(s)}]
          BY <3>4, <5>1
        <5> QED
          BY <3>3, <5>2 DEF Sum1
      <4> QED
        BY <4>1, <4>2
    <3>6. Upto(n, h)
      BY <3>5
    <3> HIDE DEF Upto
    <3> QED
      BY <2>2, <3>6
  <2> QED
    BY <2>3, <2>4
<1>2. PICK g : Upto(Cardinality(S), g)
  <2>1. Cardinality(S) \in Nat
    BY FS_CardinalityType
  <2> HIDE DEF Upto
  <2> QED
    BY <1>1, <2>1
<1>3. PICK h : h = [s \in SUBSET S |-> g[s]]
  OBVIOUS
<1>4. ASSUME NEW s \in SUBSET S PROVE g[s] = Sum1(f, s, h)
  <2>1. g[s] = Sum1(f, s, g)
    BY <1>2, <1>f
  <2>2. s # {} => s \ {First(s)} \in SUBSET S
    OBVIOUS
  <2>3. \A u \in SUBSET S : h[u] = g[u]
    BY <1>3
  <2> QED
    BY <2>1, <2>2, <2>3 DEF Sum1
<1>5. Sums(f, S, h)
  BY <1>3, <1>4 DEF Sums
<1> QED
  BY <1>5

\* Solutions agree on the sets that both are for.
LEMMA SumsAgree ==
    ASSUME NEW f, NEW S, NEW U, IsFiniteSet(S), U \subseteq S,
           NEW g, Sums(f, S, g), NEW h, Sums(f, U, h)
    PROVE  \A s \in SUBSET U : g[s] = h[s]
<1> DEFINE G == {s \in SUBSET U : g[s] = h[s]}
<1>1. ASSUME NEW s \in SUBSET U, \A z \in s : s \ {z} \in G PROVE g[s] = h[s]
  <2>1. s \in SUBSET S
    OBVIOUS
  <2>2. g[s] = Sum1(f, s, g) /\ h[s] = Sum1(f, s, h)
    BY <2>1 DEF Sums
  <2>3. s # {} => First(s) \in s
    BY DEF First
  <2> QED
    BY <1>1, <2>2, <2>3 DEF Sum1
<1>2. ASSUME NEW s \in SUBSET U PROVE s \in G
  <2>1. IsFiniteSet(s)
    BY FS_Subset
  <2>2. \A u \in SUBSET s : (\A z \in u : u \ {z} \in G) => u \in G
    BY <1>1
  <2> HIDE DEF G
  <2> QED
    BY <2>1, <2>2, SubsetInduction
<1> QED
  BY <1>2

\* A sum is its first element and the sum of the others.
LEMMA SumFirst ==
    ASSUME NEW f, NEW S, IsFiniteSet(S)
    PROVE  /\ SumFunctionOnSet(f, {}) = 0
           /\ S # {} => SumFunctionOnSet(f, S)
                          = f[First(S)] + SumFunctionOnSet(f, S \ {First(S)})
<1>0. ASSUME NEW U, IsFiniteSet(U)
      PROVE  \E g : Sums(f, U, g) /\ SumFunctionOnSet(f, U) = g[U]
  BY <1>0, SumsExists, SumIs
<1>1. SumFunctionOnSet(f, {}) = 0
  <2>1. PICK g : Sums(f, {}, g) /\ SumFunctionOnSet(f, {}) = g[{}]
    BY <1>0, FS_EmptySet
  <2> QED
    BY <2>1 DEF Sums, Sum1
<1>2. ASSUME S # {}
      PROVE  SumFunctionOnSet(f, S) = f[First(S)] + SumFunctionOnSet(f, S \ {First(S)})
  <2> DEFINE R == S \ {First(S)}
  <2>1. PICK g : Sums(f, S, g) /\ SumFunctionOnSet(f, S) = g[S]
    BY <1>0
  <2>2. PICK h : Sums(f, R, h) /\ SumFunctionOnSet(f, R) = h[R]
    BY <1>0, <1>2, Smaller
  <2>3. g[R] = h[R]
    BY <2>1, <2>2, SumsAgree
  <2>4. g[S] = Sum1(f, S, g)
    BY <2>1 DEF Sums
  <2> QED
    BY <1>2, <2>1, <2>2, <2>3, <2>4 DEF Sum1
<1> QED
  BY <1>1, <1>2

\* The sum of integers is one, and of naturals one.
LEMMA SumType ==
    ASSUME NEW f, NEW S, IsFiniteSet(S), \A x \in S : f[x] \in Int
    PROVE  /\ SumFunctionOnSet(f, S) \in Int
           /\ (\A x \in S : f[x] >= 0) => SumFunctionOnSet(f, S) >= 0
<1> DEFINE Good(s) == /\ SumFunctionOnSet(f, s) \in Int
                      /\ (\A x \in s : f[x] >= 0) => SumFunctionOnSet(f, s) >= 0
           G == {s \in SUBSET S : Good(s)}
<1>1. ASSUME NEW s \in SUBSET S, \A z \in s : s \ {z} \in G PROVE Good(s)
  <2>1. IsFiniteSet(s)
    BY FS_Subset
  <2>2. CASE s = {}
    <3>1. SumFunctionOnSet(f, {}) = 0
      BY SumFirst, FS_EmptySet
    <3> QED
      BY <2>2, <3>1
  <2>3. CASE s # {}
    <3>1. First(s) \in s /\ f[First(s)] \in Int
      BY <2>1, <2>3, Smaller
    <3>2. Good(s \ {First(s)})
      BY <1>1, <3>1
    <3>3. SumFunctionOnSet(f, s) = f[First(s)] + SumFunctionOnSet(f, s \ {First(s)})
      BY <2>1, <2>3, SumFirst
    <3> QED
      BY <3>1, <3>2, <3>3
  <2> QED
    BY <2>2, <2>3
<1>2. S \in G
  <2>1. \A s \in SUBSET S : (\A z \in s : s \ {z} \in G) => s \in G
    BY <1>1
  <2> HIDE DEF G
  <2> QED
    BY <2>1, SubsetInduction
<1> QED
  BY <1>2

\* Any element may be taken out first.
LEMMA SumTake ==
    ASSUME NEW f, NEW S, IsFiniteSet(S), \A x \in S : f[x] \in Int, NEW x \in S
    PROVE  SumFunctionOnSet(f, S) = f[x] + SumFunctionOnSet(f, S \ {x})
<1> DEFINE Good(s) == \A y \in s : SumFunctionOnSet(f, s) = f[y] + SumFunctionOnSet(f, s \ {y})
           G == {s \in SUBSET S : Good(s)}
<1>1. ASSUME NEW s \in SUBSET S, \A z \in s : s \ {z} \in G, NEW y \in s
      PROVE  SumFunctionOnSet(f, s) = f[y] + SumFunctionOnSet(f, s \ {y})
  <2> DEFINE p == First(s)
             r == (s \ {p}) \ {y}
  <2>1. IsFiniteSet(s) /\ p \in s /\ r \in SUBSET S /\ IsFiniteSet(r) /\ (s \ {y}) \ {p} = r
    BY FS_Subset, Smaller
  <2>2. SumFunctionOnSet(f, s) = f[p] + SumFunctionOnSet(f, s \ {p})
    BY <2>1, SumFirst
  <2> HIDE DEF p, r
  <2>3. f[p] \in Int /\ f[y] \in Int /\ SumFunctionOnSet(f, r) \in Int
    BY <2>1, SumType
  <2>4. CASE p # y
    <3>1. SumFunctionOnSet(f, s \ {p}) = f[y] + SumFunctionOnSet(f, r)
      BY <1>1, <2>1, <2>4 DEF r
    <3>2. SumFunctionOnSet(f, s \ {y}) = f[p] + SumFunctionOnSet(f, r)
      BY <1>1, <2>1, <2>4
    <3> QED
      BY <2>2, <2>3, <3>1, <3>2
  <2> QED
    BY <2>2, <2>4
<1>2. S \in G
  <2>1. \A s \in SUBSET S : (\A z \in s : s \ {z} \in G) => s \in G
    BY <1>1
  <2> HIDE DEF G
  <2> QED
    BY <2>1, SubsetInduction
<1> QED
  BY <1>2

\* The sum depends on the summands only.
LEMMA SumSame ==
    ASSUME NEW f, NEW g, NEW S, IsFiniteSet(S), \A x \in S : f[x] = g[x]
    PROVE  SumFunctionOnSet(f, S) = SumFunctionOnSet(g, S)
<1> DEFINE G == {s \in SUBSET S : SumFunctionOnSet(f, s) = SumFunctionOnSet(g, s)}
<1>1. ASSUME NEW s \in SUBSET S, \A z \in s : s \ {z} \in G
      PROVE  SumFunctionOnSet(f, s) = SumFunctionOnSet(g, s)
  <2>1. IsFiniteSet(s)
    BY FS_Subset
  <2>2. CASE s = {}
    BY <2>2, SumFirst, FS_EmptySet
  <2>3. CASE s # {}
    <3>1. First(s) \in s
      BY <2>1, <2>3, Smaller
    <3>2. /\ SumFunctionOnSet(f, s) = f[First(s)] + SumFunctionOnSet(f, s \ {First(s)})
          /\ SumFunctionOnSet(g, s) = g[First(s)] + SumFunctionOnSet(g, s \ {First(s)})
      BY <2>1, <2>3, SumFirst
    <3> QED
      BY <1>1, <3>1, <3>2
  <2> QED
    BY <2>2, <2>3
<1>2. S \in G
  <2>1. \A s \in SUBSET S : (\A z \in s : s \ {z} \in G) => s \in G
    BY <1>1
  <2> HIDE DEF G
  <2> QED
    BY <2>1, SubsetInduction
<1> QED
  BY <1>2

\* Nothing adds up to nothing.
LEMMA SumZero ==
    ASSUME NEW f, NEW S, IsFiniteSet(S), \A x \in S : f[x] = 0
    PROVE  SumFunctionOnSet(f, S) = 0
<1> DEFINE G == {s \in SUBSET S : SumFunctionOnSet(f, s) = 0}
<1>1. ASSUME NEW s \in SUBSET S, \A z \in s : s \ {z} \in G
      PROVE  SumFunctionOnSet(f, s) = 0
  <2>1. IsFiniteSet(s)
    BY FS_Subset
  <2>2. s # {} => First(s) \in s
    BY <2>1, Smaller
  <2>3. SumFunctionOnSet(f, {}) = 0
    BY SumFirst, FS_EmptySet
  <2>4. s # {} => SumFunctionOnSet(f, s)
                    = f[First(s)] + SumFunctionOnSet(f, s \ {First(s)})
    BY <2>1, SumFirst
  <2> QED
    BY <1>1, <2>2, <2>3, <2>4
<1>2. S \in G
  <2>1. \A s \in SUBSET S : (\A z \in s : s \ {z} \in G) => s \in G
    BY <1>1
  <2> HIDE DEF G
  <2> QED
    BY <2>1, SubsetInduction
<1> QED
  BY <1>2

\* One summand changes.
LEMMA SumChange ==
    ASSUME NEW f, NEW g, NEW S, IsFiniteSet(S), NEW x \in S,
           \A y \in S : f[y] \in Int /\ g[y] \in Int, \A y \in S \ {x} : f[y] = g[y]
    PROVE  SumFunctionOnSet(g, S) = SumFunctionOnSet(f, S) - f[x] + g[x]
<1>1. /\ SumFunctionOnSet(f, S) = f[x] + SumFunctionOnSet(f, S \ {x})
      /\ SumFunctionOnSet(g, S) = g[x] + SumFunctionOnSet(g, S \ {x})
  BY SumTake
<1>2. IsFiniteSet(S \ {x}) /\ \A y \in S \ {x} : f[y] \in Int
  BY FS_RemoveElement
<1>3. SumFunctionOnSet(f, S \ {x}) = SumFunctionOnSet(g, S \ {x})
  BY <1>2, SumSame
<1>4. SumFunctionOnSet(f, S \ {x}) \in Int
  BY <1>2, SumType
<1> QED
  BY <1>1, <1>3, <1>4

-----------------------------------------------------------------------------
(* The inductive invariant: the types, and what a thread holds at each of   *)
(* its steps.                                                               *)

FileAt(c) == {f \in [id : 1 .. c, size : Sizes, at : 1 .. c] : f.id <= f.at}
FilesAt(c) == [Keys -> FileAt(c) \cup {None}]
LocalAt(c) == [key : Keys \cup {None}, size : Sizes \cup {0}, old : Sizes \cup {0}, id : Nat,
               stamp : Nat, fd : Nat, mode : Modes, todo : SUBSET Keys, snap : FilesAt(c), total : Int]

\* The bytes of entries f.
Entries(f) == SumFunctionOnSet([k \in Keys |-> SizeOf(f[k])], Keys)

\* The modes that a thread can be in at step s.
ModesAt(s) ==
    CASE s = "sweep" -> {"open", "enforce", "recount"}
      [] s = "scan" -> {"open", "enforce", "recount", "snap"}
      [] s = "rmdir" -> {"recount"}
      [] s = "evict" -> {"enforce"}
      [] s = "prune" -> {"snap"}
      [] s = "unlink" -> {"enforce", "snap"}
      [] s = "store" -> {"open", "enforce", "recount"}
      [] OTHER -> {"none"}

\* A reader takes the time to write after the file it read was committed, and
\* writes it to no other; a scan has counted what it has seen.
Fits(s, l, c) ==
    /\ l.mode \in ModesAt(s)
    /\ s \in {"read", "touch", "open", "fstat", "utime", "temp", "replace", "account", "delete", "forget", "unlink"}
         => l.key \in Keys
    /\ s \in {"temp", "replace", "account"} => l.size \in Sizes
    /\ s \in {"read", "touch"} => l.id \in 0 .. c
    /\ s \in {"open", "fstat", "utime"} => l.stamp \in 1 .. c /\ l.id <= l.stamp
    /\ s = "utime" => l.fd = l.id
    /\ s = "rmdir" => l.snap = NoSnap /\ l.total = 0
    /\ s = "scan" => l.total = Entries(l.snap) /\ \A k \in l.todo : l.snap[k] = None
    /\ s \in {"evict", "prune", "unlink"} => l.todo = {}

Disk ==
    /\ clock \in Nat \ {0} /\ file \in FilesAt(clock)
    /\ dirs \subseteq Keys /\ \A k \in Keys : file[k] # None => k \in dirs
    /\ temp \in [Actors -> Sizes \cup {0}] /\ young \in Nat /\ old \in Nat
Processes ==
    /\ open \subseteq Procs /\ tracker \in [Procs -> Int]
    /\ calm \subseteq Actors /\ solo \in BOOLEAN
Running ==
    /\ pc \in [Actors -> Steps] /\ loc \in [Actors -> LocalAt(clock)]
    /\ \A a \in Actors : Fits(pc[a], loc[a], clock)
    /\ \A a \in Actors : pc[a] # "idle" => Proc(a) \in open \/ loc[a].mode = "open"

Typed == Disk /\ Processes /\ Running

-----------------------------------------------------------------------------
(* What a pass knows that nobody has disturbed.                             *)

\* At step s with locals l, the files being f and total bytes on the disk.
Sound(s, l, f, total) ==
    /\ s \in {"scan", "evict", "prune", "unlink"} => \A k \in Keys \ l.todo : l.snap[k] = f[k]
    /\ s = "evict" => l.total = total
    /\ s = "unlink" /\ l.mode = "enforce" =>
          /\ l.total = total /\ total > Cap
          /\ f[l.key] # None /\ l.size = f[l.key].size
          /\ \A k \in Keys : f[k] # None => f[l.key].at <= f[k].at
    /\ s = "store" =>
          /\ l.total = total
          /\ l.mode = "enforce" /\ total > Cap => \A k \in Keys : f[k] = None

\* Without overlap there is no need to have seen the sweep.
Trusted(a) == a \in calm \/ solo

\* Without overlap one thread is busy, in the one process there is.
Alone ==
    solo =>
        /\ \A a, b \in Actors : pc[a] # "idle" /\ pc[b] # "idle" => a = b
        /\ \A a \in Actors : pc[a] # "idle" => open \subseteq {Proc(a)}
        /\ \A p, q \in open : p = q

PassInv == Alone /\ \A a \in Actors : Trusted(a) => Sound(pc[a], loc[a], file, Actual)

-----------------------------------------------------------------------------
(* What the tracker is when nothing overlaps.                               *)

\* What is on the disk but for the files that writers are about to rename.
Base == Entries(file) + young + old

Quiet == {"idle", "read", "touch", "open", "fstat", "utime", "temp", "replace", "delete"}
Exact(p) == tracker[p] = Base /\ (crashes = 0 => Base <= Cap)

NoFile == \A k \in Keys : file[k] = None

Serial(a) ==
    /\ pc[a] \in {"temp", "replace"} => loc[a].old = SizeOf(file[loc[a].key])
    /\ pc[a] = "account" => tracker[Proc(a)] = Base - loc[a].size + loc[a].old
    /\ pc[a] = "delete" => file[loc[a].key] # None /\ loc[a].size = file[loc[a].key].size
    /\ pc[a] = "forget" => tracker[Proc(a)] = Base + loc[a].size /\ (crashes = 0 => Base <= Cap)
    /\ pc[a] # "idle" /\ loc[a].mode = "recount" => NoFile
    /\ pc[a] # "idle" /\ loc[a].mode = "open" => open = {}

SerialInv ==
    /\ crashes \in Nat
    /\ crashes = 0 => young = 0 /\ old = 0 /\ (open = {} => NoFile)
    /\ \A a \in Actors : temp[a] = IF pc[a] = "replace" THEN loc[a].size ELSE 0
    /\ solo =>
          /\ (\A a \in Actors : pc[a] \in Quiet) => \A p \in open : Exact(p)
          /\ \A a \in Actors : Serial(a)

-----------------------------------------------------------------------------
(* Facts about the definitions.                                             *)

\* What ModesAt says, step by step.
LEMMA StepModes ==
    /\ \A s \in Steps : s \notin {"sweep", "scan", "rmdir", "evict", "prune", "unlink", "store"}
                          => ModesAt(s) = {"none"}
    /\ \A s \in Steps : ModesAt(s) \subseteq Modes
    /\ ModesAt("sweep") = {"open", "enforce", "recount"}
    /\ ModesAt("scan") = {"open", "enforce", "recount", "snap"}
    /\ ModesAt("rmdir") = {"recount"}
    /\ ModesAt("evict") = {"enforce"}
    /\ ModesAt("prune") = {"snap"}
    /\ ModesAt("unlink") = {"enforce", "snap"}
    /\ ModesAt("store") = {"open", "enforce", "recount"}
  BY DEF ModesAt, Steps, Modes

\* A file is something.
LEMMA FileIsNotNone ==
    ASSUME NEW c \in Nat, NEW f \in FileAt(c)
    PROVE  /\ f # None /\ SizeOf(f) = f.size
           /\ f.size \in Sizes /\ f.id \in 1 .. c /\ f.at \in 1 .. c /\ f.id <= f.at
           /\ f.size \in Nat \ {0}
<1>1. f \in [id : Nat, size : Sizes, at : Nat]
  BY DEF FileAt
<1>2. f # None
  BY <1>1, NoneIsNothing
<1>3. f.size \in Sizes /\ f.id \in 1 .. c /\ f.at \in 1 .. c /\ f.id <= f.at
  BY DEF FileAt
<1> QED
  BY <1>2, <1>3, SizesArePositive DEF SizeOf

\* Sizes are numbers.
LEMMA SizesAreNatural == \A x \in Sizes \cup {0} : x \in Nat /\ x \in Int
  BY SizesArePositive

\* ... and so is the size of what may be a file.
LEMMA SizeIsNatural ==
    ASSUME NEW c \in Nat, NEW f \in FileAt(c) \cup {None}
    PROVE  SizeOf(f) \in Sizes \cup {0} /\ SizeOf(f) \in Nat
  BY FileIsNotNone DEF SizeOf

\* Later, the same files will do.
LEMMA FilesLater ==
    ASSUME NEW c \in Nat, NEW d \in Nat, c <= d
    PROVE  FileAt(c) \subseteq FileAt(d) /\ FilesAt(c) \subseteq FilesAt(d) /\ LocalAt(c) \subseteq LocalAt(d)
<1>1. FileAt(c) \subseteq FileAt(d)
  BY DEF FileAt
<1>2. FilesAt(c) \subseteq FilesAt(d)
  BY <1>1 DEF FilesAt
<1> QED
  BY <1>1, <1>2 DEF LocalAt

\* ... and so will the same locals.
LEMMA FitsLater ==
    ASSUME NEW c \in Nat, NEW d \in Nat, c <= d, NEW s, NEW l, Fits(s, l, c)
    PROVE  Fits(s, l, d)
  BY DEF Fits

\* The locals that an operation starts with.
LEMMA Local0Is ==
    /\ \A c \in Nat : Local0 \in LocalAt(c)
    /\ Local0.key = None /\ Local0.size = 0 /\ Local0.old = 0 /\ Local0.id = 0 /\ Local0.stamp = 0 /\ Local0.fd = 0
    /\ Local0.mode = "none" /\ Local0.todo = {} /\ Local0.snap = NoSnap /\ Local0.total = 0
    /\ \A k \in Keys : NoSnap[k] = None
  BY DEF Local0, LocalAt, NoSnap, FilesAt, Modes

\* The locals of a thread that is back.
LEMMA IdleFits == \A c \in Nat : Fits("idle", Local0, c)
  BY Local0Is, StepModes DEF Fits, Steps

\* The bytes of entries are a natural number.
LEMMA EntriesType ==
    ASSUME NEW c \in Nat, NEW f \in FilesAt(c)
    PROVE  Entries(f) \in Nat
<1> DEFINE g == [k \in Keys |-> SizeOf(f[k])]
<1>1. \A k \in Keys : g[k] \in Int /\ g[k] >= 0
  BY SizeIsNatural DEF FilesAt
<1> HIDE DEF g
<1>2. SumFunctionOnSet(g, Keys) \in Int /\ SumFunctionOnSet(g, Keys) >= 0
  BY <1>1, SumType, InstanceIsFinite
<1> QED
  BY <1>2 DEF Entries, g

\* They change with an entry.
LEMMA EntriesChange ==
    ASSUME NEW c \in Nat, NEW f \in FilesAt(c), NEW d \in Nat, NEW h \in FilesAt(d), NEW k \in Keys,
           \A m \in Keys \ {k} : f[m] = h[m]
    PROVE  Entries(h) = Entries(f) - SizeOf(f[k]) + SizeOf(h[k])
<1> DEFINE g1 == [m \in Keys |-> SizeOf(f[m])]
           g2 == [m \in Keys |-> SizeOf(h[m])]
<1>1. \A m \in Keys : g1[m] \in Int /\ g2[m] \in Int
  BY SizeIsNatural DEF FilesAt
<1>2. \A m \in Keys \ {k} : g1[m] = g2[m]
  OBVIOUS
<1>3. g1[k] = SizeOf(f[k]) /\ g2[k] = SizeOf(h[k])
  OBVIOUS
<1> HIDE DEF g1, g2
<1>4. SumFunctionOnSet(g2, Keys) = SumFunctionOnSet(g1, Keys) - g1[k] + g2[k]
  BY <1>1, <1>2, SumChange, InstanceIsFinite
<1> QED
  BY <1>3, <1>4 DEF Entries, g1, g2

\* ... and depend on the entries only.
LEMMA EntriesSame ==
    ASSUME NEW f, NEW h, \A m \in Keys : f[m] = h[m]
    PROVE  Entries(h) = Entries(f)
<1> DEFINE g1 == [m \in Keys |-> SizeOf(f[m])]
           g2 == [m \in Keys |-> SizeOf(h[m])]
<1>1. \A m \in Keys : g1[m] = g2[m]
  OBVIOUS
<1> HIDE DEF g1, g2
<1>2. SumFunctionOnSet(g2, Keys) = SumFunctionOnSet(g1, Keys)
  BY <1>1, SumSame, InstanceIsFinite
<1> QED
  BY <1>2 DEF Entries, g1, g2

\* Without entries there are no bytes.
LEMMA EntriesNone ==
    ASSUME NEW f, \A m \in Keys : f[m] = None
    PROVE  Entries(f) = 0
<1> DEFINE g == [m \in Keys |-> SizeOf(f[m])]
<1>1. \A m \in Keys : g[m] = 0
  BY DEF SizeOf
<1> HIDE DEF g
<1>2. SumFunctionOnSet(g, Keys) = 0
  BY <1>1, SumZero, InstanceIsFinite
<1> QED
  BY <1>2 DEF Entries, g

\* Sums over threads are finite.
LEMMA ActorsFinite == IsFiniteSet(Actors) /\ \A p \in Procs : IsFiniteSet({a \in Actors : Proc(a) = p})
  BY InstanceIsFinite, FS_Product, FS_Subset DEF Actors

-----------------------------------------------------------------------------
(* Types.                                                                   *)

\* The types hold at first.
LEMMA TypedInit == Init => Typed
<1> SUFFICES ASSUME Init PROVE Typed
  OBVIOUS
<1>1. clock \in Nat \ {0} /\ file \in FilesAt(clock) /\ \A k \in Keys : file[k] = None
  BY DEF Init, FilesAt
<1>2. Disk
  BY <1>1 DEF Disk, Init
<1>3. Processes
  BY DEF Processes, Init
<1>4. \A a \in Actors : pc[a] = "idle" /\ loc[a] = Local0
  BY DEF Init
<1>5. pc \in [Actors -> Steps] /\ loc \in [Actors -> LocalAt(clock)]
  BY <1>1, Local0Is DEF Init, Steps
<1>6. Running
  BY <1>1, <1>4, <1>5, IdleFits DEF Running
<1> QED
  BY <1>2, <1>3, <1>6 DEF Typed

\* What a step does to the threads: one of them goes to step s with locals l.
LEMMA GotoRunning ==
    ASSUME Disk, Running, NEW a \in Actors, NEW s \in Steps, NEW l, l \in LocalAt(clock'),
           Goto(a, s, l), Fits(s, l, clock'), clock' \in Nat, clock <= clock', open \subseteq open',
           s # "idle" => Proc(a) \in open' \/ l.mode = "open"
    PROVE  Running'
<1>1. /\ loc \in [Actors -> LocalAt(clock')] /\ pc \in [Actors -> Steps]
      /\ \A b \in Actors : Fits(pc[b], loc[b], clock')
  BY FilesLater, FitsLater DEF Disk, Running
<1>2. pc' \in [Actors -> Steps] /\ loc' \in [Actors -> LocalAt(clock')]
  BY <1>1 DEF Goto
<1>3. \A b \in Actors : /\ pc'[b] = IF b = a THEN s ELSE pc[b]
                        /\ loc'[b] = IF b = a THEN l ELSE loc[b]
  BY <1>1 DEF Goto
<1>4. \A b \in Actors : Fits(pc'[b], loc'[b], clock')
  BY <1>1, <1>3
<1>5. \A b \in Actors : pc'[b] # "idle" => Proc(b) \in open' \/ loc'[b].mode = "open"
  BY <1>3 DEF Running
<1> QED
  BY <1>2, <1>4, <1>5 DEF Running

\* ... or returns.
LEMMA ReturnRunning ==
    ASSUME Disk, Running, NEW a \in Actors, Return(a), clock' \in Nat, clock <= clock',
           open \subseteq open'
    PROVE  Running'
<1>1. "idle" \in Steps /\ Local0 \in LocalAt(clock') /\ Fits("idle", Local0, clock')
  BY Local0Is, IdleFits DEF Steps
<1> QED
  BY <1>1, GotoRunning DEF Return

\* Steps that leave the disk alone.
LEMMA DiskSame ==
    ASSUME Disk, UNCHANGED <<disk, clock>>
    PROVE  Disk' /\ clock' \in Nat /\ clock <= clock' /\ clock' = clock
  BY DEF Disk, disk, bytes

\* The file, and the locals, of a thread that works on one.
LEMMA KeyOf ==
    ASSUME Disk, Running, NEW a \in Actors, loc[a].key \in Keys
    PROVE  file[loc[a].key] \in FileAt(clock) \cup {None}
  BY DEF Disk, FilesAt

\* What a thread holds.
LEMMA Holds ==
    ASSUME Typed, NEW a \in Actors
    PROVE  /\ loc[a] \in LocalAt(clock) /\ Fits(pc[a], loc[a], clock) /\ clock \in Nat \ {0}
           /\ loc[a].key \in Keys \cup {None} /\ loc[a].size \in Sizes \cup {0}
           /\ loc[a].old \in Sizes \cup {0} /\ loc[a].id \in Nat /\ loc[a].stamp \in Nat /\ loc[a].fd \in Nat
           /\ loc[a].mode \in Modes /\ loc[a].todo \subseteq Keys /\ loc[a].snap \in FilesAt(clock)
           /\ loc[a].total \in Int
           /\ Proc(a) \in Procs /\ pc[a] \in Steps
           /\ pc[a] # "idle" /\ loc[a].mode # "open" => Proc(a) \in open
<1>1. loc[a] \in LocalAt(clock) /\ Fits(pc[a], loc[a], clock) /\ clock \in Nat \ {0} /\ pc[a] \in Steps
  BY DEF Typed, Running, Disk
<1>2. Proc(a) \in Procs
  BY DEF Actors, Proc
<1>3. pc[a] # "idle" /\ loc[a].mode # "open" => Proc(a) \in open
  BY DEF Typed, Running
<1> QED
  BY <1>1, <1>2, <1>3 DEF LocalAt

\* Which modes there are at the steps of a pass, and none elsewhere.
LEMMA ModeAt ==
    ASSUME Typed, NEW a \in Actors
    PROVE  /\ pc[a] \in {"idle", "read", "touch", "open", "fstat", "utime", "temp", "replace", "account", "delete", "forget"}
                => loc[a].mode = "none"
           /\ pc[a] = "sweep" => loc[a].mode \in {"open", "enforce", "recount"}
           /\ pc[a] = "scan" => loc[a].mode \in {"open", "enforce", "recount", "snap"}
           /\ pc[a] = "rmdir" => loc[a].mode = "recount"
           /\ pc[a] = "evict" => loc[a].mode = "enforce"
           /\ pc[a] = "prune" => loc[a].mode = "snap"
           /\ pc[a] = "unlink" => loc[a].mode \in {"enforce", "snap"}
           /\ pc[a] = "store" => loc[a].mode \in {"open", "enforce", "recount"}
<1>1. loc[a].mode \in ModesAt(pc[a])
  BY Holds DEF Fits
<1> QED
  BY <1>1, StepModes DEF Steps

\* A step leaves the types of the disk, of the threads and of the trackers.
Stepped ==
    /\ Disk' /\ Running'
    /\ open' \subseteq Procs /\ open \subseteq open' /\ tracker' \in [Procs -> Int]
    /\ clock' \in Nat /\ clock <= clock'

\* Steps of a thread alone.
LEMMA QuietStep ==
    ASSUME Typed, NEW a \in Actors, NEW s \in Steps, NEW l, l \in LocalAt(clock), Fits(s, l, clock),
           Goto(a, s, l), UNCHANGED <<disk, open, tracker, clock>>,
           s # "idle" => Proc(a) \in open \/ l.mode = "open"
    PROVE  Stepped
<1>1. Disk' /\ clock' = clock /\ clock' \in Nat /\ clock <= clock'
  BY DiskSame DEF Typed
<1>2. Running'
  BY <1>1, GotoRunning DEF Typed
<1> QED
  BY <1>1, <1>2 DEF Stepped, Typed, Processes

\* ... and returns without a trace.
LEMMA QuietReturn ==
    ASSUME Typed, NEW a \in Actors, Return(a), UNCHANGED <<disk, open, tracker, clock>>
    PROVE  Stepped
<1>1. "idle" \in Steps /\ Local0 \in LocalAt(clock) /\ Fits("idle", Local0, clock)
  BY Holds, Local0Is, IdleFits DEF Steps
<1> QED
  BY <1>1, QuietStep DEF Return

-----------------------------------------------------------------------------
(* Step by step.                                                            *)

\* A lookup takes the identity of the file it found.
LEMMA GetTyped == ASSUME Typed, NEW a \in Actors, NEW k \in Keys, Get(a, k) PROVE Stepped
<1>1. PICK l : l = [Local0 EXCEPT !.key = k, !.id = file[k].id]
  OBVIOUS
<1>2. Goto(a, "read", l) /\ UNCHANGED <<disk, open, tracker, clock>> /\ Proc(a) \in open /\ file[k] # None
  BY <1>1 DEF Get, Begin
<1>3. file[k] \in FileAt(clock) /\ clock \in Nat
  BY <1>2 DEF Typed, Disk, FilesAt
<1>4. file[k].id \in Nat /\ file[k].id \in 0 .. clock
  BY <1>3, FileIsNotNone
<1>5. l \in LocalAt(clock) /\ l.key = k /\ l.mode = "none" /\ l.id = file[k].id
  BY <1>1, <1>3, <1>4, Local0Is DEF Local0, LocalAt
<1>6. Fits("read", l, clock) /\ "read" \in Steps
  BY <1>4, <1>5, StepModes DEF Fits, Steps
<1> QED
  BY <1>2, <1>5, <1>6, QuietStep

\* A read.
LEMMA ReadTyped == ASSUME Typed, NEW a \in Actors, Read(a) PROVE Stepped
<1>1. CASE Return(a)
  BY <1>1, QuietReturn DEF Read
<1>2. CASE Goto(a, "touch", loc[a])
  <2>1. /\ loc[a].key \in Keys /\ loc[a].mode = "none" /\ loc[a] \in LocalAt(clock)
        /\ Proc(a) \in open /\ loc[a].id \in 0 .. clock
    BY Holds, ModeAt DEF Read, Fits
  <2>2. Fits("touch", loc[a], clock) /\ "touch" \in Steps
    BY <2>1, StepModes DEF Fits, Steps
  <2> QED
    BY <1>2, <2>1, <2>2, QuietStep DEF Read
<1> QED
  BY <1>1, <1>2 DEF Read

\* A touch takes a time after the commit of the file it read.
LEMMA TouchTyped == ASSUME Typed, NEW a \in Actors, Touch(a) PROVE Stepped
<1>1. PICK l : l = [loc[a] EXCEPT !.stamp = clock + 1]
  OBVIOUS
<1>2. UNCHANGED <<disk, open, tracker>> /\ clock' = clock + 1 /\ pc[a] = "touch" /\ Goto(a, "open", l)
  BY <1>1 DEF Touch
<1>3. clock \in Nat \ {0} /\ clock' \in Nat \ {0} /\ clock <= clock'
  BY <1>2, Holds
<1>4. FilesAt(clock) \subseteq FilesAt(clock')
  BY <1>3, FilesLater
<1>5. Disk'
  BY <1>2, <1>3, <1>4 DEF Disk, Typed, disk, bytes
<1>6. /\ loc[a] \in LocalAt(clock') /\ loc[a].key \in Keys /\ loc[a].mode = "none" /\ Proc(a) \in open
      /\ loc[a].id <= clock
  BY <1>2, <1>3, Holds, ModeAt, FilesLater DEF Fits
<1>7. /\ l \in LocalAt(clock') /\ l.key = loc[a].key /\ l.mode = "none" /\ l.stamp = clock + 1
      /\ l.id = loc[a].id
  BY <1>1, <1>2, <1>3, <1>6 DEF LocalAt
<1>8. l.stamp \in 1 .. clock' /\ l.id <= l.stamp
  BY <1>2, <1>3, <1>6, <1>7, Holds
<1>9. Fits("open", l, clock') /\ "open" \in Steps
  BY <1>6, <1>7, <1>8, StepModes DEF Fits, Steps
<1>10. Running'
  BY <1>2, <1>3, <1>6, <1>7, <1>9, GotoRunning DEF Typed
<1> QED
  BY <1>2, <1>3, <1>5, <1>10 DEF Stepped, Typed, Processes

\* The file that is opened may be another.
LEMMA OpenFdTyped == ASSUME Typed, NEW a \in Actors, OpenFd(a) PROVE Stepped
<1>1. CASE Return(a)
  BY <1>1, QuietReturn DEF OpenFd
<1>2. CASE file[loc[a].key] # None /\ Goto(a, "fstat", [loc[a] EXCEPT !.fd = file[loc[a].key].id])
  <2>1. PICK l : l = [loc[a] EXCEPT !.fd = file[loc[a].key].id]
    OBVIOUS
  <2>2. /\ loc[a].key \in Keys /\ loc[a].mode = "none" /\ loc[a] \in LocalAt(clock)
        /\ Proc(a) \in open /\ loc[a].stamp \in 1 .. clock /\ loc[a].id <= loc[a].stamp
    BY Holds, ModeAt DEF OpenFd, Fits
  <2>3. file[loc[a].key] \in FileAt(clock) /\ clock \in Nat
    BY <1>2, <2>2, Holds, KeyOf DEF Typed
  <2>4. file[loc[a].key].id \in Nat
    BY <2>3, FileIsNotNone
  <2>5. /\ l \in LocalAt(clock) /\ l.key = loc[a].key /\ l.mode = "none"
        /\ l.stamp = loc[a].stamp /\ l.id = loc[a].id
    BY <2>1, <2>2, <2>4 DEF LocalAt
  <2>6. Fits("fstat", l, clock) /\ "fstat" \in Steps
    BY <2>2, <2>5, StepModes DEF Fits, Steps
  <2>7. Goto(a, "fstat", l)
    BY <1>2, <2>1
  <2> QED
    BY <2>2, <2>5, <2>6, <2>7, QuietStep DEF OpenFd
<1> QED
  BY <1>1, <1>2 DEF OpenFd

\* A touch goes on only if it is not.
LEMMA FstatTyped == ASSUME Typed, NEW a \in Actors, Fstat(a) PROVE Stepped
<1>1. CASE Return(a)
  BY <1>1, QuietReturn DEF Fstat
<1>2. CASE SameStat(a) /\ Goto(a, "utime", loc[a])
  <2>1. /\ loc[a].key \in Keys /\ loc[a].mode = "none" /\ loc[a] \in LocalAt(clock)
        /\ Proc(a) \in open /\ loc[a].stamp \in 1 .. clock /\ loc[a].id <= loc[a].stamp
    BY Holds, ModeAt DEF Fstat, Fits
  <2>2. Fits("utime", loc[a], clock) /\ "utime" \in Steps
    BY <1>2, <2>1, StepModes DEF Fits, Steps, SameStat
  <2> QED
    BY <1>2, <2>1, <2>2, QuietStep DEF Fstat
<1> QED
  BY <1>1, <1>2 DEF Fstat

\* A touch that is applied: the file gets the time, which is later than its commit.
LEMMA UtimeTyped == ASSUME Typed, NEW a \in Actors, Utime(a) PROVE Stepped
<1> DEFINE k == loc[a].key
<1>1. UNCHANGED <<dirs, temp, young, old, open, tracker, clock>> /\ pc[a] = "utime" /\ Return(a)
  BY DEF Utime
<1>2. clock \in Nat \ {0} /\ clock' = clock /\ k \in Keys /\ loc[a].stamp \in 1 .. clock /\ loc[a].fd <= loc[a].stamp
  BY <1>1, Holds DEF Fits
<1>3. file \in FilesAt(clock)
  BY DEF Typed, Disk
<1>4. file' \in FilesAt(clock) /\ \A m \in Keys : file'[m] # None => file[m] # None
  <2>1. CASE file[k] # None /\ file[k].id = loc[a].fd
    <3>1. PICK f : f = [file[k] EXCEPT !.at = loc[a].stamp]
      OBVIOUS
    <3>2. file' = [file EXCEPT ![k] = f]
      BY <2>1, <3>1 DEF Utime
    <3>3. file[k] \in FileAt(clock)
      BY <1>2, <1>3, <2>1 DEF FilesAt
    <3>4. f \in FileAt(clock)
      BY <1>2, <2>1, <3>1, <3>3 DEF FileAt
    <3> QED
      BY <1>2, <1>3, <2>1, <3>2, <3>4 DEF FilesAt
  <2>2. CASE ~ (file[k] # None /\ file[k].id = loc[a].fd)
    BY <1>3, <2>2 DEF Utime
  <2> QED
    BY <2>1, <2>2
<1>5. Disk'
  BY <1>1, <1>2, <1>4 DEF Disk, Typed
<1>6. Running'
  BY <1>1, <1>2, ReturnRunning DEF Typed
<1> QED
  BY <1>1, <1>2, <1>5, <1>6 DEF Stepped, Typed, Processes

\* A write measures the entry that it will replace.
LEMMA SetTyped ==
    ASSUME Typed, NEW a \in Actors, NEW k \in Keys, NEW size \in Sizes, Set(a, k, size) PROVE Stepped
<1>1. PICK l : l = [Local0 EXCEPT !.key = k, !.size = size, !.old = SizeOf(file[k])]
  OBVIOUS
<1>2. /\ Goto(a, "temp", l) /\ UNCHANGED <<bytes, open, tracker, clock>> /\ Proc(a) \in open
      /\ dirs' = dirs \cup {k}
  BY <1>1 DEF Set, Begin
<1>3. file[k] \in FileAt(clock) \cup {None} /\ clock \in Nat \ {0} /\ clock' = clock
  BY <1>2 DEF Typed, Disk, FilesAt
<1>4. SizeOf(file[k]) \in Sizes \cup {0}
  BY <1>3, SizeIsNatural
<1>5. l \in LocalAt(clock') /\ l.key = k /\ l.mode = "none" /\ l.size = size
  BY <1>1, <1>3, <1>4, Local0Is DEF Local0, LocalAt
<1>6. Fits("temp", l, clock') /\ "temp" \in Steps
  BY <1>5, StepModes DEF Fits, Steps
<1>7. Disk'
  BY <1>2, <1>3 DEF Typed, Disk, bytes
<1>8. Running'
  BY <1>2, <1>3, <1>5, <1>6, GotoRunning DEF Typed
<1> QED
  BY <1>2, <1>3, <1>7, <1>8 DEF Stepped, Typed, Processes

\* Its temporary file is written, ...
LEMMA WriteTempTyped == ASSUME Typed, NEW a \in Actors, WriteTemp(a) PROVE Stepped
<1>1. /\ Goto(a, "replace", loc[a]) /\ UNCHANGED <<file, dirs, young, old, open, tracker, clock>>
      /\ pc[a] = "temp" /\ temp' = [temp EXCEPT ![a] = loc[a].size]
  BY DEF WriteTemp
<1>2. /\ loc[a] \in LocalAt(clock) /\ loc[a].key \in Keys /\ loc[a].size \in Sizes
      /\ loc[a].mode = "none" /\ Proc(a) \in open /\ clock \in Nat \ {0} /\ clock' = clock
  BY <1>1, Holds, ModeAt DEF Fits
<1>3. Fits("replace", loc[a], clock') /\ "replace" \in Steps
  BY <1>2, StepModes DEF Fits, Steps
<1>4. Disk'
  BY <1>1, <1>2 DEF Typed, Disk
<1>5. Running'
  BY <1>1, <1>2, <1>3, GotoRunning DEF Typed
<1> QED
  BY <1>1, <1>2, <1>4, <1>5 DEF Stepped, Typed, Processes

\* ... or is not, ...
LEMMA WriteFailsTyped == ASSUME Typed, NEW a \in Actors, WriteFails(a) PROVE Stepped
  BY QuietReturn DEF WriteFails

\* ... is renamed into place, ...
LEMMA ReplaceTyped == ASSUME Typed, NEW a \in Actors, Replace(a) PROVE Stepped
<1>1. /\ pc[a] = "replace" /\ temp' = [temp EXCEPT ![a] = 0] /\ UNCHANGED <<dirs, young, old, open, tracker>>
  BY DEF Replace
<1>2. /\ loc[a] \in LocalAt(clock) /\ loc[a].key \in Keys /\ loc[a].size \in Sizes
      /\ loc[a].mode = "none" /\ Proc(a) \in open /\ clock \in Nat \ {0}
  BY <1>1, Holds, ModeAt DEF Fits
<1>3. temp' \in [Actors -> Sizes \cup {0}]
  BY <1>1 DEF Typed, Disk
<1>4. CASE Return(a) /\ UNCHANGED <<file, clock>>
  <2>1. Disk'
    BY <1>1, <1>3, <1>4 DEF Typed, Disk
  <2>2. Running'
    BY <1>1, <1>2, <1>4, ReturnRunning DEF Typed
  <2> QED
    BY <1>1, <1>2, <1>4, <2>1, <2>2 DEF Stepped, Typed, Processes
<1>5. CASE /\ loc[a].key \in dirs
           /\ file' = Committed(loc[a].key, loc[a].size) /\ clock' = clock + 1
           /\ Goto(a, "account", loc[a])
  <2>1. clock' \in Nat \ {0} /\ clock <= clock'
    BY <1>2, <1>5
  <2>2. PICK f : f = [id |-> clock + 1, size |-> loc[a].size, at |-> clock + 1]
    OBVIOUS
  <2>3. file' = [file EXCEPT ![loc[a].key] = f] /\ f \in FileAt(clock')
    BY <1>2, <1>5, <2>2 DEF Committed, FileAt
  <2>4. file \in FilesAt(clock')
    BY <1>2, <2>1, FilesLater DEF Typed, Disk
  <2>5. file' \in FilesAt(clock')
    BY <1>2, <2>3, <2>4 DEF FilesAt
  <2>6. \A k \in Keys : file'[k] # None => k \in dirs
    BY <1>5, <2>3, <2>4 DEF FilesAt, Typed, Disk
  <2>7. Disk'
    BY <1>1, <1>3, <2>1, <2>5, <2>6 DEF Typed, Disk
  <2>8. Fits("account", loc[a], clock') /\ "account" \in Steps /\ loc[a] \in LocalAt(clock')
    BY <1>2, <2>1, StepModes, FilesLater DEF Fits, Steps
  <2>9. Running'
    BY <1>1, <1>2, <1>5, <2>1, <2>8, GotoRunning DEF Typed
  <2> QED
    BY <1>1, <2>1, <2>7, <2>9 DEF Stepped, Typed, Processes
<1> QED
  BY <1>4, <1>5 DEF Replace

\* ... and accounted for.
LEMMA AccountTyped == ASSUME Typed, NEW a \in Actors, Account(a) PROVE Stepped
<1>1. PICK t : t = tracker[Proc(a)] + NetChange(a)
  OBVIOUS
<1>2. /\ pc[a] = "account" /\ tracker' = [tracker EXCEPT ![Proc(a)] = t] /\ UNCHANGED <<disk, open, clock>>
      /\ IF OverCap(t) THEN Goto(a, "sweep", [Local0 EXCEPT !.mode = "enforce"]) ELSE Return(a)
  BY <1>1 DEF Account
<1>3. loc[a].size \in Int /\ loc[a].old \in Int /\ Proc(a) \in Procs
  BY Holds, SizesAreNatural
<1>4. t \in Int
  <2>1. tracker[Proc(a)] \in Int
    BY <1>3 DEF Typed, Processes
  <2> QED
    BY <1>1, <1>3, <2>1 DEF NetChange
<1>5. tracker' \in [Procs -> Int]
  BY <1>2, <1>4 DEF Typed, Processes
<1>6. Disk' /\ clock' = clock /\ clock' \in Nat /\ clock <= clock'
  BY <1>2, DiskSame DEF Typed
<1>7. Running'
  <2>1. CASE Return(a)
    BY <1>2, <1>6, <2>1, ReturnRunning DEF Typed
  <2>2. CASE Goto(a, "sweep", [Local0 EXCEPT !.mode = "enforce"])
    <3>1. PICK l : l = [Local0 EXCEPT !.mode = "enforce"]
      OBVIOUS
    <3>2. l \in LocalAt(clock') /\ l.mode = "enforce"
      BY <1>6, <3>1, Local0Is DEF LocalAt, Local0, Modes
    <3>3. Fits("sweep", l, clock') /\ "sweep" \in Steps
      BY <3>2, StepModes DEF Fits, Steps
    <3>4. Proc(a) \in open
      BY <1>2, Holds, ModeAt
    <3> QED
      BY <1>2, <1>6, <2>2, <3>1, <3>2, <3>3, <3>4, GotoRunning DEF Typed
  <2> QED
    BY <1>2, <2>1, <2>2
<1> QED
  BY <1>2, <1>5, <1>6, <1>7 DEF Stepped, Typed, Processes

\* A delete measures the entry, ...
LEMMA DeleteTyped ==
    ASSUME Typed, NEW a \in Actors, NEW k \in Keys, Delete(a, k) PROVE Stepped
<1>1. PICK l : l = [Local0 EXCEPT !.key = k, !.size = file[k].size]
  OBVIOUS
<1>2. Goto(a, "delete", l) /\ UNCHANGED <<disk, open, tracker, clock>> /\ Proc(a) \in open /\ file[k] # None
  BY <1>1 DEF Delete, Begin
<1>3. file[k] \in FileAt(clock) /\ clock \in Nat
  BY <1>2 DEF Typed, Disk, FilesAt
<1>4. file[k].size \in Sizes
  BY <1>3, FileIsNotNone
<1>5. l \in LocalAt(clock) /\ l.key = k /\ l.mode = "none"
  BY <1>1, <1>3, <1>4, Local0Is DEF Local0, LocalAt
<1>6. Fits("delete", l, clock) /\ "delete" \in Steps
  BY <1>5, StepModes DEF Fits, Steps
<1> QED
  BY <1>2, <1>5, <1>6, QuietStep

\* Without a file there are fewer.
LEMMA RemovedTyped ==
    ASSUME Disk, NEW k \in Keys, file' = Removed(k), UNCHANGED <<dirs, temp, young, old, clock>>
    PROVE  /\ Disk' /\ clock' = clock /\ clock' \in Nat /\ clock <= clock'
           /\ file'[k] = None /\ \A m \in Keys \ {k} : file'[m] = file[m]
<1>1. file' \in FilesAt(clock) /\ file'[k] = None /\ \A m \in Keys \ {k} : file'[m] = file[m]
  BY DEF Disk, Removed, FilesAt
<1>2. \A m \in Keys : file'[m] # None => m \in dirs
  BY <1>1 DEF Disk
<1> QED
  BY <1>1, <1>2 DEF Disk

\* ... removes it, ...
LEMMA DeleteUnlinkTyped == ASSUME Typed, NEW a \in Actors, DeleteUnlink(a) PROVE Stepped
<1>1. /\ pc[a] = "delete" /\ file' = Removed(loc[a].key)
      /\ UNCHANGED <<dirs, temp, young, old, open, tracker, clock>>
  BY DEF DeleteUnlink
<1>2. /\ loc[a] \in LocalAt(clock) /\ loc[a].key \in Keys /\ loc[a].mode = "none" /\ Proc(a) \in open
  BY <1>1, Holds, ModeAt DEF Fits
<1>3. Disk' /\ clock' = clock /\ clock' \in Nat /\ clock <= clock'
  BY <1>1, <1>2, RemovedTyped DEF Typed
<1>4. CASE Return(a)
  BY <1>1, <1>3, <1>4, ReturnRunning DEF Typed, Stepped, Processes
<1>5. CASE Goto(a, "forget", loc[a])
  <2>1. Fits("forget", loc[a], clock') /\ "forget" \in Steps
    BY <1>2, StepModes DEF Fits, Steps
  <2>2. Running'
    BY <1>1, <1>2, <1>3, <1>5, <2>1, GotoRunning DEF Typed
  <2> QED
    BY <1>1, <1>3, <2>2 DEF Typed, Stepped, Processes
<1> QED
  BY <1>4, <1>5 DEF DeleteUnlink

\* The greater of 0 and a number.
LEMMA MaxIs == \A x \in Int : Max({0, x}) = IF x >= 0 THEN x ELSE 0
<1> SUFFICES ASSUME NEW x \in Int PROVE Max({0, x}) = IF x >= 0 THEN x ELSE 0
  OBVIOUS
<1>1. \E m \in {0, x} : \A y \in {0, x} : m >= y
  OBVIOUS
<1>2. PICK m : m = Max({0, x})
  OBVIOUS
<1>3. m \in {0, x} /\ \A y \in {0, x} : m >= y
  BY <1>1, <1>2 DEF Max
<1> QED
  BY <1>2, <1>3

\* ... and takes it off the tracker, but never below 0.
LEMMA ForgetTyped == ASSUME Typed, NEW a \in Actors, Forget(a) PROVE Stepped
<1>1. PICK t : t = Max({0, tracker[Proc(a)] - loc[a].size})
  OBVIOUS
<1>2. tracker \in [Procs -> Int] /\ Proc(a) \in Procs /\ loc[a].size \in Int
  BY Holds, SizesAreNatural DEF Typed, Processes
<1>3. tracker' = [tracker EXCEPT ![Proc(a)] = t] /\ UNCHANGED <<disk, open, clock>> /\ Return(a)
  BY <1>1, <1>2 DEF Forget
<1>4. t \in Int
  BY <1>1, <1>2, MaxIs
<1>5. tracker' \in [Procs -> Int]
  BY <1>2, <1>3, <1>4
<1>6. Disk' /\ clock' = clock /\ clock' \in Nat /\ clock <= clock'
  BY <1>3, DiskSame DEF Typed
<1>7. Running'
  BY <1>3, <1>6, ReturnRunning DEF Typed
<1> QED
  BY <1>3, <1>5, <1>6, <1>7 DEF Stepped, Typed, Processes

\* The constructor.
LEMMA OpenTyped == ASSUME Typed, NEW a \in Actors, Open(a) PROVE Stepped
<1>1. PICK l : l = [Local0 EXCEPT !.mode = "open"]
  OBVIOUS
<1>2. Goto(a, "sweep", l) /\ UNCHANGED <<disk, open, tracker, clock>>
  BY <1>1 DEF Open
<1>3. l \in LocalAt(clock) /\ l.mode = "open"
  BY <1>1, Local0Is, Holds DEF LocalAt, Local0, Modes
<1>4. Fits("sweep", l, clock) /\ "sweep" \in Steps
  BY <1>3, StepModes DEF Fits, Steps
<1> QED
  BY <1>2, <1>3, <1>4, QuietStep

\* clear.
LEMMA ClearTyped == ASSUME Typed, NEW a \in Actors, Clear(a) PROVE Stepped
<1>1. PICK l : l = [Local0 EXCEPT !.mode = "snap", !.todo = Keys]
  OBVIOUS
<1>2. Goto(a, "scan", l) /\ UNCHANGED <<disk, open, tracker, clock>> /\ Proc(a) \in open
  BY <1>1 DEF Clear, Begin
<1>3. l \in LocalAt(clock) /\ l.mode = "snap" /\ l.total = 0 /\ l.snap = NoSnap
  BY <1>1, Local0Is, Holds DEF LocalAt, Local0, Modes
<1>4. Entries(NoSnap) = 0 /\ \A k \in Keys : NoSnap[k] = None
  BY Local0Is, EntriesNone
<1>s. l.total = Entries(l.snap) /\ \A k \in l.todo : l.snap[k] = None
  BY <1>3, <1>4 DEF LocalAt
<1>5. Fits("scan", l, clock) /\ "scan" \in Steps
  BY <1>3, <1>s, StepModes DEF Fits, Steps
<1> QED
  BY <1>2, <1>3, <1>5, QuietStep

\* A sweep leads to a scan, or to the directories.
LEMMA SweepTyped == ASSUME Typed, NEW a \in Actors, Sweep(a) PROVE Stepped
<1>1. PICK m : m = loc[a].mode
  OBVIOUS
<1>2. PICK l : l = [Local0 EXCEPT !.mode = m]
  OBVIOUS
<1>3. /\ pc[a] = "sweep" /\ old' = 0 /\ UNCHANGED <<file, dirs, temp, young, open, tracker, clock>>
      /\ IF m = "recount" THEN Goto(a, "rmdir", [l EXCEPT !.todo = dirs])
         ELSE Goto(a, "scan", [l EXCEPT !.todo = Keys])
  BY <1>1, <1>2 DEF Sweep, Local0
<1>4. m \in {"open", "enforce", "recount"} /\ clock \in Nat /\ dirs \subseteq Keys
      /\ (Proc(a) \in open \/ m = "open")
  BY <1>1, <1>3, Holds, ModeAt DEF Typed, Disk
<1>5. l \in LocalAt(clock) /\ l.mode = m /\ l.snap = NoSnap /\ l.total = 0
  BY <1>2, <1>4, Local0Is DEF LocalAt, Local0, Modes
<1>6. Disk' /\ clock' = clock
  BY <1>3 DEF Typed, Disk
<1>7. Entries(NoSnap) = 0 /\ \A k \in Keys : NoSnap[k] = None
  BY Local0Is, EntriesNone
<1>8. CASE m = "recount"
  <2>1. PICK h : h = [l EXCEPT !.todo = dirs]
    OBVIOUS
  <2>2. h \in LocalAt(clock') /\ h.mode = "recount" /\ h.snap = NoSnap /\ h.total = 0
    BY <1>4, <1>5, <1>6, <1>8, <2>1 DEF LocalAt
  <2>3. Fits("rmdir", h, clock') /\ "rmdir" \in Steps
    BY <2>2, StepModes DEF Fits, Steps
  <2>4. Goto(a, "rmdir", h)
    BY <1>3, <1>8, <2>1
  <2>5. Running'
    BY <1>3, <1>4, <1>6, <1>8, <2>2, <2>3, <2>4, GotoRunning DEF Typed
  <2> QED
    BY <1>3, <1>4, <1>6, <2>5 DEF Typed, Stepped, Processes
<1>9. CASE m # "recount"
  <2>1. PICK h : h = [l EXCEPT !.todo = Keys]
    OBVIOUS
  <2>2. h \in LocalAt(clock') /\ h.mode = m /\ h.snap = NoSnap /\ h.total = 0
    BY <1>4, <1>5, <1>6, <2>1 DEF LocalAt
  <2>s. h.total = Entries(h.snap) /\ \A k \in h.todo : h.snap[k] = None
    BY <1>7, <2>2 DEF LocalAt
  <2>3. Fits("scan", h, clock') /\ "scan" \in Steps
    BY <1>4, <1>9, <2>2, <2>s, StepModes DEF Fits, Steps
  <2>4. Goto(a, "scan", h)
    BY <1>3, <1>9, <2>1
  <2>5. Running'
    BY <1>3, <1>4, <1>6, <2>2, <2>3, <2>4, GotoRunning DEF Typed
  <2> QED
    BY <1>3, <1>4, <1>6, <2>5 DEF Typed, Stepped, Processes
<1> QED
  BY <1>8, <1>9

\* Empty directories go.
LEMMA RmdirTyped == ASSUME Typed, NEW a \in Actors, Rmdir(a) PROVE Stepped
<1>1. pc[a] = "rmdir" /\ UNCHANGED <<file, temp, young, old, open, tracker, clock>>
  BY DEF Rmdir, bytes
<1>2. /\ loc[a] \in LocalAt(clock) /\ loc[a].mode = "recount" /\ loc[a].snap = NoSnap /\ loc[a].total = 0
      /\ Proc(a) \in open /\ clock \in Nat /\ clock' = clock
  BY <1>1, Holds, ModeAt DEF Fits
<1>3. CASE Goto(a, "scan", [loc[a] EXCEPT !.todo = Keys]) /\ UNCHANGED dirs
  <2>1. PICK l : l = [loc[a] EXCEPT !.todo = Keys]
    OBVIOUS
  <2>2. l \in LocalAt(clock) /\ l.mode = "recount" /\ l.snap = NoSnap /\ l.total = 0
    BY <1>2, <2>1 DEF LocalAt
  <2>3. Entries(NoSnap) = 0 /\ \A k \in Keys : NoSnap[k] = None
    BY Local0Is, EntriesNone
  <2>s. l.total = Entries(l.snap) /\ \A k \in l.todo : l.snap[k] = None
    BY <2>2, <2>3 DEF LocalAt
  <2>4. Fits("scan", l, clock) /\ "scan" \in Steps
    BY <2>2, <2>s, StepModes DEF Fits, Steps
  <2>5. UNCHANGED <<disk, open, tracker, clock>> /\ Goto(a, "scan", l)
    BY <1>1, <1>3, <2>1 DEF disk, bytes
  <2> QED
    BY <1>2, <2>2, <2>4, <2>5, QuietStep
<1>4. ASSUME NEW k \in Keys,
             dirs' = IF file[k] = None THEN dirs \ {k} ELSE dirs,
             Goto(a, "rmdir", [loc[a] EXCEPT !.todo = @ \ {k}])
      PROVE  Stepped
  <2>1. PICK l : l = [loc[a] EXCEPT !.todo = @ \ {k}]
    OBVIOUS
  <2>2. l \in LocalAt(clock) /\ l.mode = "recount" /\ l.snap = NoSnap /\ l.total = 0
    BY <1>2, <2>1 DEF LocalAt
  <2>3. Fits("rmdir", l, clock) /\ "rmdir" \in Steps
    BY <2>2, StepModes DEF Fits, Steps
  <2>4. Disk'
    BY <1>1, <1>4 DEF Typed, Disk
  <2>5. Running'
    BY <1>1, <1>2, <1>4, <2>1, <2>2, <2>3, GotoRunning DEF Typed
  <2> QED
    BY <1>1, <1>2, <2>4, <2>5 DEF Typed, Stepped, Processes
<1>5. loc[a].todo \subseteq Keys
  BY Holds
<1> QED
  BY <1>3, <1>4, <1>5 DEF Rmdir

\* Locals with one more entry in the snapshot, or one less.
Noted(l, k, f, todo, t) == [l EXCEPT !.todo = todo, !.snap = [l.snap EXCEPT ![k] = f], !.total = t]

\* What Noted changes, and what not.
LEMMA SnapSet ==
    ASSUME NEW c \in Nat, NEW l \in LocalAt(c), NEW k \in Keys, NEW f \in FileAt(c) \cup {None},
           NEW t \in Int, NEW todo \in SUBSET Keys, NEW h,
           h = Noted(l, k, f, todo, t)
    PROVE  /\ h \in LocalAt(c)
           /\ h.key = l.key /\ h.size = l.size /\ h.mode = l.mode
           /\ h.total = t /\ h.todo = todo
           /\ h.snap \in FilesAt(c) /\ l.snap \in FilesAt(c)
           /\ h.snap[k] = f /\ \A m \in Keys \ {k} : h.snap[m] = l.snap[m]
<1>1. PICK snap : snap = [l.snap EXCEPT ![k] = f]
  OBVIOUS
<1>2. l.snap \in FilesAt(c) /\ snap \in FilesAt(c)
  BY <1>1 DEF LocalAt, FilesAt
<1>3. snap[k] = f /\ \A m \in Keys \ {k} : snap[m] = l.snap[m]
  BY <1>1, <1>2 DEF FilesAt
<1>4. h = [l EXCEPT !.todo = todo, !.snap = snap, !.total = t]
  BY <1>1 DEF Noted
<1>5. h \in LocalAt(c) /\ h.key = l.key /\ h.size = l.size /\ h.mode = l.mode /\ h.total = t
      /\ h.todo = todo /\ h.snap = snap
  BY <1>2, <1>4 DEF LocalAt
<1> QED
  BY <1>2, <1>3, <1>5

\* A scan counts what it sees.
LEMMA ScanTyped ==
    ASSUME Typed, NEW a \in Actors, Scan(a)
    PROVE  Stepped
<1>1. /\ pc[a] = "scan" /\ UNCHANGED <<disk, open, tracker, clock>>
      /\ loc[a] \in LocalAt(clock) /\ clock \in Nat /\ loc[a].todo \subseteq Keys
      /\ loc[a].total = Entries(loc[a].snap) /\ \A m \in loc[a].todo : loc[a].snap[m] = None
      /\ loc[a].snap \in FilesAt(clock)
  BY Holds DEF Scan, Fits
<1>2. PICK k \in loc[a].todo :
         Goto(a, "scan", [loc[a] EXCEPT !.todo = @ \ {k}, !.snap[k] = file[k], !.total = @ + SizeOf(file[k])])
  BY DEF Scan
<1>3. PICK t, todo, l :
         /\ t = loc[a].total + SizeOf(file[k]) /\ todo = loc[a].todo \ {k}
         /\ l = Noted(loc[a], k, file[k], todo, t)
  OBVIOUS
<1>4. [loc[a] EXCEPT !.todo = @ \ {k}, !.snap[k] = file[k], !.total = @ + SizeOf(file[k])] = l
  BY <1>1, <1>3 DEF LocalAt, Noted
<1>5. k \in Keys /\ file[k] \in FileAt(clock) \cup {None}
  BY <1>1 DEF Typed, Disk, FilesAt
<1>6. t \in Int /\ todo \in SUBSET Keys
  BY <1>1, <1>3, <1>5, SizeIsNatural, Holds
<1>7. /\ l \in LocalAt(clock) /\ l.mode = loc[a].mode /\ l.total = t /\ l.todo = todo
      /\ l.snap \in FilesAt(clock)
      /\ l.snap[k] = file[k] /\ \A m \in Keys \ {k} : l.snap[m] = loc[a].snap[m]
  BY <1>1, <1>3, <1>5, <1>6, SnapSet
<1>8. Entries(l.snap) = Entries(loc[a].snap) - SizeOf(loc[a].snap[k]) + SizeOf(l.snap[k])
  BY <1>1, <1>5, <1>7, EntriesChange
<1>9. SizeOf(loc[a].snap[k]) = 0 /\ Entries(loc[a].snap) \in Nat /\ SizeOf(file[k]) \in Nat
  BY <1>1, <1>5, EntriesType, SizeIsNatural DEF SizeOf
<1>10. l.total = Entries(l.snap)
  BY <1>1, <1>3, <1>7, <1>8, <1>9
<1>11. \A m \in l.todo : l.snap[m] = None
  BY <1>1, <1>3, <1>7
<1>12. Fits("scan", l, clock) /\ "scan" \in Steps
  BY <1>1, <1>7, <1>10, <1>11, ModeAt, StepModes DEF Fits, Steps
<1>13. Proc(a) \in open \/ l.mode = "open"
  BY <1>1, <1>7, Holds
<1>14. Goto(a, "scan", l)
  BY <1>2, <1>4
<1> QED
  BY <1>1, <1>7, <1>12, <1>13, <1>14, QuietStep

\* The temporary files of the writers add up to a number.
LEMMA TempType ==
    ASSUME Disk
    PROVE  TempBytes \in Nat /\ SumFunctionOnSet(temp, Actors) \in Nat
           /\ TempBytes = SumFunctionOnSet(temp, Actors) + young + old
<1>1. \A b \in Actors : temp[b] \in Int /\ temp[b] >= 0
  <2>1. \A b \in Actors : temp[b] \in Sizes \cup {0}
    BY DEF Disk
  <2> QED
    BY <2>1, SizesAreNatural
<1>2. SumFunctionOnSet(temp, Actors) \in Int /\ SumFunctionOnSet(temp, Actors) >= 0
  BY <1>1, ActorsFinite, SumType
<1>3. SumFunction(temp) = SumFunctionOnSet(temp, Actors)
  BY DEF SumFunction, FoldFunction, SumFunctionOnSet, Disk
<1> QED
  BY <1>2, <1>3 DEF Disk, TempBytes

\* What the disk holds, entry by entry.
LEMMA ActualIs ==
    ASSUME Disk PROVE Actual = Entries(file) + TempBytes /\ Actual \in Nat
<1>1. SumFunction([k \in Keys |-> SizeOf(file[k])]) = Entries(file)
  BY DEF SumFunction, FoldFunction, SumFunctionOnSet, Entries
<1>2. Entries(file) \in Nat
  BY EntriesType DEF Disk
<1> QED
  BY <1>1, <1>2, TempType DEF Actual

\* A scan that is done.
LEMMA ScanDoneTyped == ASSUME Typed, NEW a \in Actors, ScanDone(a) PROVE Stepped
<1>1. /\ pc[a] = "scan" /\ UNCHANGED <<disk, open, tracker, clock>> /\ loc[a].todo = {}
      /\ loc[a] \in LocalAt(clock) /\ clock \in Nat
      /\ loc[a].mode \in {"open", "enforce", "recount", "snap"}
      /\ Proc(a) \in open \/ loc[a].mode = "open"
  BY Holds, ModeAt DEF ScanDone
<1>2. PICK t : t = Counted(loc[a])
  OBVIOUS
<1>3. t \in Int
  BY <1>2, TempType, Holds DEF Counted, Typed
<1>4. PICK l : l = [loc[a] EXCEPT !.total = t]
  OBVIOUS
<1>5. l \in LocalAt(clock) /\ l.mode = loc[a].mode /\ l.todo = {}
  BY <1>1, <1>3, <1>4 DEF LocalAt
<1>6. CASE loc[a].mode = "snap"
  <2>1. Fits("prune", loc[a], clock) /\ "prune" \in Steps
    BY <1>1, <1>6, StepModes DEF Fits, Steps
  <2>2. Goto(a, "prune", loc[a])
    BY <1>6 DEF ScanDone
  <2> QED
    BY <1>1, <2>1, <2>2, QuietStep
<1>7. CASE loc[a].mode = "enforce" /\ t > Cap
  <2>1. Fits("evict", l, clock) /\ "evict" \in Steps
    BY <1>5, <1>7, StepModes DEF Fits, Steps
  <2>2. Goto(a, "evict", l)
    BY <1>2, <1>4, <1>7 DEF ScanDone
  <2> QED
    BY <1>1, <1>5, <2>1, <2>2, QuietStep
<1>8. CASE loc[a].mode # "snap" /\ ~ (loc[a].mode = "enforce" /\ t > Cap)
  <2>1. Fits("store", l, clock) /\ "store" \in Steps
    BY <1>1, <1>5, <1>8, StepModes DEF Fits, Steps
  <2>2. Goto(a, "store", l)
    BY <1>2, <1>4, <1>8 DEF ScanDone
  <2> QED
    BY <1>1, <1>5, <2>1, <2>2, QuietStep
<1> QED
  BY <1>6, <1>7, <1>8

\* Where there is an entry there is one used least recently.
LEMMA OldestIs ==
    ASSUME NEW c \in Nat, NEW l \in LocalAt(c), Left(l) # {}
    PROVE  /\ Oldest(l) \in Left(l) /\ Oldest(l) \in Keys
           /\ \A m \in Left(l) : l.snap[Oldest(l)].at <= l.snap[m].at
<1> DEFINE T == {l.snap[k].at : k \in Left(l)}
<1>1. \A k \in Left(l) : l.snap[k] \in FileAt(c) /\ k \in Keys
  BY DEF Left, LocalAt, FilesAt
<1>2. T \subseteq Nat /\ T # {}
  BY <1>1, FileIsNotNone
<1>3. PICK n \in T : \A m \in T : n <= m
  <2> HIDE DEF T
  <2> QED
    BY <1>2, LeastElement
<1>4. \E k \in Left(l) : \A m \in Left(l) : l.snap[k].at <= l.snap[m].at
  BY <1>3
<1>5. PICK k : k = Oldest(l)
  OBVIOUS
<1>6. k \in Left(l) /\ \A m \in Left(l) : l.snap[k].at <= l.snap[m].at
  BY <1>4, <1>5 DEF Oldest
<1> QED
  BY <1>1, <1>5, <1>6

\* An eviction pass looks for the oldest entry, ...
LEMMA EvictTyped == ASSUME Typed, NEW a \in Actors, Evict(a) PROVE Stepped
<1>1. /\ pc[a] = "evict" /\ UNCHANGED <<disk, open, tracker, clock>>
      /\ loc[a] \in LocalAt(clock) /\ clock \in Nat /\ loc[a].todo = {} /\ loc[a].mode = "enforce"
      /\ Proc(a) \in open /\ loc[a].total \in Int
  BY Holds, ModeAt DEF Evict, Fits
<1>2. PICK k : k = Oldest(loc[a])
  OBVIOUS
<1>3. CASE loc[a].total <= Cap \/ Left(loc[a]) = {}
  <2>1. Fits("store", loc[a], clock) /\ "store" \in Steps
    BY <1>1, StepModes DEF Fits, Steps
  <2>2. Goto(a, "store", loc[a])
    BY <1>3 DEF Evict
  <2> QED
    BY <1>1, <2>1, <2>2, QuietStep
<1>4. CASE ~ (loc[a].total <= Cap \/ Left(loc[a]) = {})
  <2>1. k \in Keys /\ loc[a].snap[k] # None /\ loc[a].snap \in FilesAt(clock)
    BY <1>1, <1>2, <1>4, OldestIs, Holds DEF Left
  <2>2. loc[a].snap[k] \in FileAt(clock) /\ file[k] \in FileAt(clock) \cup {None}
    BY <2>1 DEF FilesAt, Typed, Disk
  <2>3. loc[a].snap[k].size \in Sizes /\ loc[a].snap[k].size \in Int
    BY <1>1, <2>2, FileIsNotNone
  <2>4. CASE file[k] # None /\ file[k].id = loc[a].snap[k].id
    <3>1. PICK l : l = [loc[a] EXCEPT !.key = k, !.size = loc[a].snap[k].size]
      OBVIOUS
    <3>2. l \in LocalAt(clock) /\ l.mode = "enforce" /\ l.todo = {} /\ l.key = k
      BY <1>1, <2>1, <2>3, <3>1 DEF LocalAt
    <3>3. Fits("unlink", l, clock) /\ "unlink" \in Steps
      BY <2>1, <3>2, StepModes DEF Fits, Steps
    <3>4. Goto(a, "unlink", l)
      BY <1>2, <1>4, <2>4, <3>1 DEF Evict
    <3> QED
      BY <1>1, <3>2, <3>3, <3>4, QuietStep
  <2>5. CASE ~ (file[k] # None /\ file[k].id = loc[a].snap[k].id)
    <3>1. PICK t : t = loc[a].total + SizeOf(file[k]) - loc[a].snap[k].size
      OBVIOUS
    <3>2. SizeOf(file[k]) \in Int
      BY <1>1, <2>2, SizeIsNatural
    <3>3. t \in Int
      BY <1>1, <2>3, <3>1, <3>2
    <3>4. PICK l : l = Noted(loc[a], k, None, {}, t)
      OBVIOUS
    <3>5. [loc[a] EXCEPT !.snap[k] = None, !.total = @ + SizeOf(file[k]) - loc[a].snap[k].size] = l
      BY <1>1, <3>1, <3>4 DEF LocalAt, Noted
    <3>6. l \in LocalAt(clock) /\ l.mode = "enforce" /\ l.todo = {}
      BY <1>1, <2>1, <3>3, <3>4, SnapSet
    <3>7. Fits("evict", l, clock) /\ "evict" \in Steps
      BY <3>6, StepModes DEF Fits, Steps
    <3>8. Goto(a, "evict", l)
      BY <1>2, <1>4, <2>5, <3>5 DEF Evict
    <3> QED
      BY <1>1, <3>6, <3>7, <3>8, QuietStep
  <2> QED
    BY <2>4, <2>5
<1> QED
  BY <1>3, <1>4

\* The locals with an entry struck off the snapshot.
LEMMA Struck ==
    ASSUME NEW c \in Nat, NEW l \in LocalAt(c), l.todo = {}, NEW k \in Keys, NEW h,
           h = [l EXCEPT !.snap[k] = None]
    PROVE  /\ h \in LocalAt(c) /\ h.mode = l.mode /\ h.todo = {} /\ h.total = l.total
           /\ h.snap[k] = None /\ \A m \in Keys \ {k} : h.snap[m] = l.snap[m]
<1>1. PICK snap : snap = [l.snap EXCEPT ![k] = None]
  OBVIOUS
<1>2. snap \in FilesAt(c)
  BY <1>1 DEF LocalAt, FilesAt
<1>3. snap[k] = None /\ \A m \in Keys \ {k} : snap[m] = l.snap[m]
  BY <1>1 DEF LocalAt, FilesAt
<1>4. h = [l EXCEPT !.snap = snap]
  BY <1>1
<1>5. h \in LocalAt(c) /\ h.mode = l.mode /\ h.todo = {} /\ h.total = l.total /\ h.snap = snap
  BY <1>2, <1>4 DEF LocalAt
<1> QED
  BY <1>3, <1>5

\* ... and clear for any.
LEMMA PruneTyped == ASSUME Typed, NEW a \in Actors, Prune(a) PROVE Stepped
<1>1. /\ pc[a] = "prune" /\ UNCHANGED <<disk, open, tracker, clock>>
      /\ loc[a] \in LocalAt(clock) /\ clock \in Nat /\ loc[a].todo = {} /\ loc[a].mode = "snap"
      /\ Proc(a) \in open
  BY Holds, ModeAt DEF Prune, Fits
<1>2. CASE Goto(a, "sweep", [Local0 EXCEPT !.mode = "recount"])
  <2>1. PICK l : l = [Local0 EXCEPT !.mode = "recount"]
    OBVIOUS
  <2>2. l \in LocalAt(clock) /\ l.mode = "recount"
    BY <1>1, <2>1, Local0Is DEF LocalAt, Local0, Modes
  <2>3. Fits("sweep", l, clock) /\ "sweep" \in Steps
    BY <2>2, StepModes DEF Fits, Steps
  <2> QED
    BY <1>1, <1>2, <2>1, <2>2, <2>3, QuietStep
<1>3. ASSUME NEW k \in Keys, Goto(a, "unlink", [loc[a] EXCEPT !.key = k]) PROVE Stepped
  <2>1. PICK l : l = [loc[a] EXCEPT !.key = k]
    OBVIOUS
  <2>2. l \in LocalAt(clock) /\ l.mode = "snap" /\ l.key = k /\ l.todo = {}
    BY <1>1, <2>1 DEF LocalAt
  <2>3. Fits("unlink", l, clock) /\ "unlink" \in Steps
    BY <2>2, StepModes DEF Fits, Steps
  <2> QED
    BY <1>1, <1>3, <2>1, <2>2, <2>3, QuietStep
<1>4. ASSUME NEW k \in Keys, Goto(a, "prune", [loc[a] EXCEPT !.snap[k] = None]) PROVE Stepped
  <2>1. PICK l : l = [loc[a] EXCEPT !.snap[k] = None]
    OBVIOUS
  <2>2. l \in LocalAt(clock) /\ l.mode = "snap" /\ l.todo = {}
    BY <1>1, <2>1, Struck
  <2>3. Fits("prune", l, clock) /\ "prune" \in Steps
    BY <2>2, StepModes DEF Fits, Steps
  <2> QED
    BY <1>1, <1>4, <2>1, <2>2, <2>3, QuietStep
<1>5. Left(loc[a]) \subseteq Keys
  BY DEF Left
<1> QED
  BY <1>2, <1>3, <1>4, <1>5 DEF Prune

\* Either removes what it chose.
LEMMA UnlinkTyped == ASSUME Typed, NEW a \in Actors, Unlink(a) PROVE Stepped
<1>1. /\ pc[a] = "unlink" /\ UNCHANGED <<dirs, temp, young, old, open, tracker, clock>>
      /\ loc[a] \in LocalAt(clock) /\ clock \in Nat /\ loc[a].todo = {}
      /\ loc[a].mode \in {"enforce", "snap"} /\ Proc(a) \in open /\ loc[a].key \in Keys
      /\ file' = Removed(loc[a].key) /\ loc[a].total \in Int /\ loc[a].size \in Int
  BY Holds, ModeAt, SizesAreNatural DEF Unlink, Fits
<1>2. PICK k : k = loc[a].key
  OBVIOUS
<1>3. Disk' /\ clock' = clock /\ clock' \in Nat /\ clock <= clock'
  BY <1>1, RemovedTyped DEF Typed
<1>4. CASE loc[a].mode = "snap"
  <2>1. PICK l : l = [loc[a] EXCEPT !.snap[k] = None]
    OBVIOUS
  <2>2. l \in LocalAt(clock') /\ l.mode = "snap" /\ l.todo = {}
    BY <1>1, <1>2, <1>3, <1>4, <2>1, Struck
  <2>3. Fits("prune", l, clock') /\ "prune" \in Steps
    BY <2>2, StepModes DEF Fits, Steps
  <2>4. Goto(a, "prune", l)
    BY <1>2, <1>4, <2>1 DEF Unlink
  <2>5. Running'
    BY <1>1, <1>3, <2>2, <2>3, <2>4, GotoRunning DEF Typed
  <2> QED
    BY <1>1, <1>3, <2>5 DEF Stepped, Typed, Processes
<1>5. CASE loc[a].mode # "snap"
  <2>1. PICK t : t = Unlinked(a)
    OBVIOUS
  <2>2. t \in Int
    BY <1>1, <2>1 DEF Unlinked
  <2>3. PICK l : l = Noted(loc[a], k, None, {}, t)
    OBVIOUS
  <2>4. [loc[a] EXCEPT !.snap[k] = None, !.total = t] = l
    BY <1>1, <2>3 DEF LocalAt, Noted
  <2>5. l \in LocalAt(clock') /\ l.mode = "enforce" /\ l.todo = {}
    BY <1>1, <1>2, <1>3, <1>5, <2>2, <2>3, SnapSet
  <2>6. Fits("evict", l, clock') /\ "evict" \in Steps
    BY <2>5, StepModes DEF Fits, Steps
  <2>7. Goto(a, "evict", l)
    BY <1>2, <1>5, <2>1, <2>4 DEF Unlink
  <2>8. Running'
    BY <1>1, <1>3, <2>5, <2>6, <2>7, GotoRunning DEF Typed
  <2> QED
    BY <1>1, <1>3, <2>8 DEF Stepped, Typed, Processes
<1> QED
  BY <1>4, <1>5

\* The tracker is re-seeded.
LEMMA StoreTyped == ASSUME Typed, NEW a \in Actors, Store(a) PROVE Stepped
<1>1. /\ tracker' = [tracker EXCEPT ![Proc(a)] = loc[a].total] /\ open' = open \cup {Proc(a)}
      /\ Return(a) /\ UNCHANGED <<disk, clock>> /\ Proc(a) \in Procs /\ loc[a].total \in Int
  BY Holds DEF Store
<1>2. Disk' /\ clock' = clock /\ clock' \in Nat /\ clock <= clock'
  BY <1>1, DiskSame DEF Typed
<1>3. Running'
  BY <1>1, <1>2, ReturnRunning DEF Typed
<1> QED
  BY <1>1, <1>2, <1>3 DEF Stepped, Typed, Processes

\* Every step of a thread keeps the types.
LEMMA StepTyped == ASSUME Typed, NEW a \in Actors, Step(a) PROVE Stepped
  BY OpenTyped, ClearTyped, GetTyped, DeleteTyped, SetTyped, ReadTyped, TouchTyped, OpenFdTyped, FstatTyped, UtimeTyped,
     WriteTempTyped, WriteFailsTyped, ReplaceTyped, AccountTyped, DeleteUnlinkTyped, ForgetTyped,
     SweepTyped, RmdirTyped, ScanTyped, ScanDoneTyped, EvictTyped, PruneTyped, UnlinkTyped, StoreTyped
  DEF Step

\* A crash leaves the temporary files of its threads.
LEMMA CrashTyped ==
    ASSUME Typed, NEW p \in Procs, Crash(p)
    PROVE  Disk' /\ Running' /\ open' \subseteq Procs /\ UNCHANGED <<tracker, clock>>
<1> DEFINE A == {a \in Actors : Proc(a) = p}
<1>1. /\ \A a \in A : temp[a] \in Int /\ temp[a] >= 0
      /\ IsFiniteSet(A)
  <2>1. \A a \in Actors : temp[a] \in Sizes \cup {0}
    BY DEF Typed, Disk
  <2> QED
    BY <2>1, SizesAreNatural, ActorsFinite
<1>2. SumFunctionOnSet(temp, A) \in Nat
  <2> HIDE DEF A
  <2>1. SumFunctionOnSet(temp, A) \in Int /\ SumFunctionOnSet(temp, A) >= 0
    BY <1>1, SumType
  <2> QED
    BY <2>1
<1>3. Disk'
  <2>1. young' \in Nat
    BY <1>2 DEF Crash, Typed, Disk
  <2>2. temp' \in [Actors -> Sizes \cup {0}]
    BY DEF Crash, Typed, Disk
  <2> QED
    BY <2>1, <2>2 DEF Crash, Typed, Disk
<1>4. /\ pc' = [a \in Actors |-> IF Proc(a) = p THEN "idle" ELSE pc[a]]
      /\ loc' = [a \in Actors |-> IF Proc(a) = p THEN Local0 ELSE loc[a]]
      /\ open' = open \ {p} /\ UNCHANGED <<tracker, clock>>
  BY DEF Crash
<1>5. Running'
  <2>1. clock \in Nat /\ clock' = clock
    BY <1>4, DiskSame DEF Typed, Disk
  <2>2. pc' \in [Actors -> Steps] /\ loc' \in [Actors -> LocalAt(clock')]
    BY <1>4, <2>1, Local0Is DEF Typed, Running, Steps
  <2>3. \A a \in Actors : Fits(pc'[a], loc'[a], clock')
    BY <1>4, <2>1, IdleFits DEF Typed, Running
  <2>4. \A a \in Actors : pc'[a] # "idle" => Proc(a) \in open' \/ loc'[a].mode = "open"
    BY <1>4 DEF Typed, Running
  <2> QED
    BY <2>2, <2>3, <2>4 DEF Running
<1> QED
  BY <1>3, <1>4, <1>5 DEF Typed, Processes

\* ... which grow old.
LEMMA AgeTyped == ASSUME Typed, Age PROVE Disk' /\ Running' /\ UNCHANGED <<file, temp, open, tracker, clock, pc, loc>>
<1>1. Disk'
  BY DEF Age, Typed, Disk
<1>2. Running'
  BY DEF Age, Typed, Running
<1> QED
  BY <1>1, <1>2 DEF Age

\* Every step keeps the types.
LEMMA TypedNext == Typed /\ [Next]_vars => Typed'
<1> SUFFICES ASSUME Typed, [Next]_vars PROVE Typed'
  OBVIOUS
<1>1. ASSUME NEW a \in Actors, Step(a), calm' = Undisturbed(a) \cup (IF pc[a] = "sweep" THEN {a} ELSE {}),
             solo' = (solo /\ open' \subseteq {Proc(a)} /\ \A b \in Actors \ {a} : pc[b] = "idle")
      PROVE  Typed'
  <2>1. Stepped
    BY <1>1, StepTyped
  <2>2. calm' \subseteq Actors
    BY <1>1 DEF Undisturbed, Typed, Processes
  <2>3. solo' \in BOOLEAN
    BY <1>1
  <2> QED
    BY <2>1, <2>2, <2>3 DEF Stepped, Typed, Processes
<1>2. ASSUME NEW p \in Procs, Crash(p), calm' = {}, UNCHANGED solo PROVE Typed'
  BY <1>2, CrashTyped DEF Typed, Processes
<1>3. ASSUME Age, UNCHANGED <<calm, solo>> PROVE Typed'
  BY <1>3, AgeTyped DEF Typed, Processes
<1>4. CASE UNCHANGED vars
  BY <1>4 DEF vars, Typed, Disk, Processes, Running
<1> QED
  BY <1>1, <1>2, <1>3, <1>4 DEF Next

\* So they hold always.
LEMMA TypedAlways == Spec => []Typed
  BY TypedInit, TypedNext, PTL DEF Spec

\* Every variable, and every local of every thread, has its type always: whatever
\* overlaps, crashes and fails, no step takes a file for an entry that is None,
\* goes on with a key it does not have, or leaves an entry without a directory.
THEOREM TypeCorrect == Spec => []TypeOK
<1>1. Typed => TypeOK
  <2> SUFFICES ASSUME Typed PROVE TypeOK
    OBVIOUS
  <2>1. \A a \in Actors :
          /\ loc[a].key \in Keys \cup {None} /\ loc[a].mode \in Modes
          /\ loc[a].size \in Sizes \cup {0} /\ loc[a].old \in Sizes \cup {0}
          /\ loc[a].todo \subseteq Keys
          /\ loc[a].snap \in FilesAt(clock)
          /\ loc[a].total \in Int
          /\ pc[a] # "idle" => Proc(a) \in open \/ loc[a].mode = "open"
    BY Holds
  <2>2. FilesAt(clock) \subseteq [Keys -> File \cup {None}]
    BY DEF FilesAt, FileAt, File
  <2>3. file \in [Keys -> File \cup {None}]
    BY <2>2 DEF Typed, Disk
  <2>4. \A a \in Actors : loc[a].snap \in [Keys -> File \cup {None}]
    BY <2>1, <2>2
  <2>5. pc \in [Actors -> Steps]
    BY DEF Typed, Running
  <2> HIDE DEF Typed
  <2> QED
    BY <2>1, <2>3, <2>4, <2>5 DEF TypeOK, Typed, Disk, Processes
<1> QED
  BY TypedAlways, <1>1, PTL

\* However late a reader's touch comes, and whatever replaces the file it read
\* after it took the time to write and before it opens, compares and touches,
\* every entry has been used at least as recently as it was committed: eviction
\* cannot take a fresh entry for an old one.
THEOREM TouchKeepsFresh == Spec => []FreshIsRecent
<1>1. Typed => FreshIsRecent
  <2> SUFFICES ASSUME Typed, NEW k \in Keys, file[k] # None PROVE file[k].at >= file[k].id
    BY DEF FreshIsRecent
  <2>1. file[k] \in FileAt(clock) /\ clock \in Nat
    BY DEF Typed, Disk, FilesAt
  <2>2. file[k].id \in Nat /\ file[k].at \in Nat /\ file[k].id <= file[k].at
    BY <2>1, FileIsNotNone
  <2> QED
    BY <2>2
<1> QED
  BY TypedAlways, <1>1, PTL

-----------------------------------------------------------------------------
(* The pass.                                                                *)

\* The sum of a function is one over its domain.
LEMMA SumFunctionIs ==
    ASSUME NEW S, NEW f, DOMAIN f = S PROVE SumFunction(f) = SumFunctionOnSet(f, S)
  BY DEF SumFunction, FoldFunction, SumFunctionOnSet

\* ActualIs, of the next state.
LEMMA ActualNext ==
    ASSUME Disk'
    PROVE  /\ Actual' = Entries(file') + TempBytes'
           /\ TempBytes' = SumFunctionOnSet(temp', Actors) + young' + old'
           /\ Actual' \in Nat /\ TempBytes' \in Nat /\ SumFunctionOnSet(temp', Actors) \in Nat
<1>1. PICK g : g = [k \in Keys |-> SizeOf(file'[k])]
  OBVIOUS
<1>2. SumFunction(g) = Entries(file') /\ Entries(file') \in Nat
  <2>1. DOMAIN g = Keys
    BY <1>1
  <2>2. SumFunction(g) = SumFunctionOnSet(g, Keys)
    BY <2>1, SumFunctionIs
  <2>3. file' \in FilesAt(clock') /\ clock' \in Nat
    BY DEF Disk
  <2> QED
    BY <1>1, <2>2, <2>3, EntriesType DEF Entries
<1>3. \A b \in Actors : temp'[b] \in Int /\ temp'[b] >= 0
  <2>1. \A b \in Actors : temp'[b] \in Sizes \cup {0}
    BY DEF Disk
  <2> QED
    BY <2>1, SizesAreNatural
<1>4. SumFunctionOnSet(temp', Actors) \in Int /\ SumFunctionOnSet(temp', Actors) >= 0
  BY <1>3, ActorsFinite, SumType
<1>5. SumFunction(temp') = SumFunctionOnSet(temp', Actors)
  <2>1. DOMAIN temp' = Actors
    BY DEF Disk
  <2> QED
    BY <2>1, SumFunctionIs
<1>6. TempBytes' = SumFunctionOnSet(temp', Actors) + young' + old' /\ TempBytes' \in Nat
  BY <1>4, <1>5 DEF TempBytes, Disk
<1>7. Actual' = SumFunction(g) + TempBytes'
  BY <1>1 DEF Actual
<1> QED
  BY <1>2, <1>4, <1>6, <1>7

\* What is on the disk depends on the disk.
LEMMA ActualSame == ASSUME UNCHANGED bytes PROVE Actual' = Actual
  BY DEF bytes, Actual, TempBytes

\* A step is of one thread.
Elsewhere(a) == \A b \in Actors \ {a} : pc'[b] = pc[b] /\ loc'[b] = loc[b]

\* Where a thread that goes somewhere is.
LEMMA GotoIs ==
    ASSUME Typed, NEW a \in Actors, NEW s, NEW l, Goto(a, s, l)
    PROVE  pc'[a] = s /\ loc'[a] = l /\ Elsewhere(a)
  BY DEF Typed, Running, Goto, Elsewhere

\* ... or returns.
LEMMA ReturnIs ==
    ASSUME Typed, NEW a \in Actors, Return(a)
    PROVE  pc'[a] = "idle" /\ loc'[a] = Local0 /\ Elsewhere(a)
  BY GotoIs DEF Return

\* Every step of a thread is of that thread alone.
LEMMA StepElsewhere == ASSUME Typed, NEW a \in Actors, Step(a) PROVE Elsewhere(a)
<1>r. ASSUME Return(a) PROVE Elsewhere(a)
  BY <1>r, ReturnIs
<1>g. ASSUME NEW s, NEW l, Goto(a, s, l) PROVE Elsewhere(a)
  BY <1>g, GotoIs
<1>1. CASE Open(a) \/ Clear(a)
  BY <1>1, <1>g DEF Open, Clear
<1>2. CASE \E k \in Keys : Get(a, k) \/ Delete(a, k) \/ \E size \in Sizes : Set(a, k, size)
  BY <1>2, <1>g DEF Get, Delete, Set
<1>3. CASE Read(a) \/ Touch(a) \/ OpenFd(a) \/ Fstat(a) \/ Utime(a)
  BY <1>3, <1>g, <1>r DEF Read, Touch, OpenFd, Fstat, Utime
<1>4. CASE WriteTemp(a) \/ WriteFails(a) \/ Replace(a) \/ Account(a)
  BY <1>4, <1>g, <1>r DEF WriteTemp, WriteFails, Replace, Account
<1>5. CASE DeleteUnlink(a) \/ Forget(a) \/ Store(a)
  BY <1>5, <1>g, <1>r DEF DeleteUnlink, Forget, Store
<1>6. CASE Sweep(a)
  BY <1>6, <1>g DEF Sweep
<1>7. CASE Rmdir(a)
  BY <1>7, <1>g DEF Rmdir
<1>8. CASE Scan(a)
  BY <1>8, <1>g DEF Scan
<1>9. CASE ScanDone(a)
  BY <1>9, <1>g DEF ScanDone
<1>10. CASE Evict(a)
  BY <1>10, <1>g DEF Evict
<1>11. CASE Prune(a)
  BY <1>11, <1>g DEF Prune
<1>12. CASE Unlink(a)
  BY <1>12, <1>g DEF Unlink
<1> QED
  BY <1>1, <1>2, <1>3, <1>4, <1>5, <1>6, <1>7, <1>8, <1>9, <1>10, <1>11, <1>12 DEF Step

\* The histories that go with a step of thread a.
Recorded(a) ==
    /\ calm' = Undisturbed(a) \cup (IF pc[a] = "sweep" THEN {a} ELSE {})
    /\ solo' = (solo /\ open' \subseteq {Proc(a)} /\ \A b \in Actors \ {a} : pc[b] = "idle")

\* If no operations have overlapped, then none did, and the others are idle.
LEMMA SoloStep ==
    ASSUME NEW a \in Actors, Recorded(a), solo'
    PROVE  solo /\ open' \subseteq {Proc(a)} /\ \A b \in Actors \ {a} : pc[b] = "idle"
  BY DEF Recorded

\* Whoever steps while nothing overlaps is the only one busy.
LEMMA AloneStep == ASSUME NEW a \in Actors, Elsewhere(a), Recorded(a) PROVE Alone'
<1> SUFFICES ASSUME solo' PROVE
        /\ \A b, d \in Actors : pc'[b] # "idle" /\ pc'[d] # "idle" => b = d
        /\ \A b \in Actors : pc'[b] # "idle" => open' \subseteq {Proc(b)}
        /\ \A p, q \in open' : p = q
  BY DEF Alone
<1>1. \A b \in Actors : pc'[b] # "idle" => b = a
  BY SoloStep DEF Elsewhere
<1> QED
  BY <1>1, SoloStep

\* A crash makes nobody busy.
LEMMA AloneCrash == ASSUME Typed, Alone, NEW p \in Procs, Crash(p), UNCHANGED solo PROVE Alone'
<1>1. open' \subseteq open /\ \A b \in Actors : pc'[b] # "idle" => pc[b] # "idle"
  BY DEF Crash
<1> QED
  BY <1>1 DEF Alone

\* Steps of another thread.
LEMMA SoundElsewhere ==
    ASSUME Typed, PassInv, NEW a \in Actors, Elsewhere(a), Recorded(a), NEW b \in Actors \ {a},
           Trusted(b)'
    PROVE  Sound(pc'[b], loc'[b], file', Actual')
<1>1. pc'[b] = pc[b] /\ loc'[b] = loc[b]
  BY DEF Elsewhere
<1>2. CASE pc[b] = "idle"
  BY <1>1, <1>2 DEF Sound
<1>3. CASE pc[b] # "idle"
  <2>1. ~ solo'
    BY <1>3, SoloStep
  <2>2. b \in Undisturbed(a)
    BY <2>1 DEF Trusted, Recorded
  <2>3. b \in calm /\ UNCHANGED bytes
    BY <2>2 DEF Undisturbed
  <2>4. file' = file /\ Actual' = Actual
    BY <2>3, ActualSame DEF bytes
  <2>5. Sound(pc[b], loc[b], file, Actual)
    BY <2>3 DEF PassInv, Trusted
  <2> QED
    BY <1>1, <2>4, <2>5
<1> QED
  BY <1>2, <1>3

\* Away from the pass there is nothing to know.
LEMMA OffPass ==
    ASSUME NEW s, s \notin {"scan", "evict", "prune", "unlink", "store"}, NEW l, NEW f, NEW t
    PROVE  Sound(s, l, f, t)
  BY DEF Sound

\* A scan that starts has seen nothing.
LEMMA ScanStarts ==
    ASSUME NEW l, l.todo = Keys, NEW f, NEW t
    PROVE  Sound("scan", l, f, t)
  BY DEF Sound

\* An entry that is scanned is as it is.
LEMMA SoundScan ==
    ASSUME Typed, NEW a \in Actors, Scan(a), Sound(pc[a], loc[a], file, Actual)
    PROVE  Sound(pc'[a], loc'[a], file', Actual')
<1>1. /\ pc[a] = "scan" /\ UNCHANGED file
      /\ loc[a] \in LocalAt(clock) /\ clock \in Nat /\ loc[a].todo \subseteq Keys
      /\ loc[a].snap \in FilesAt(clock)
  BY Holds DEF Scan, disk, bytes
<1>2. PICK k \in loc[a].todo :
         Goto(a, "scan", [loc[a] EXCEPT !.todo = @ \ {k}, !.snap[k] = file[k], !.total = @ + SizeOf(file[k])])
  BY DEF Scan
<1>3. PICK l : l = [loc[a] EXCEPT !.todo = @ \ {k}, !.snap[k] = file[k], !.total = @ + SizeOf(file[k])]
  OBVIOUS
<1>4. pc'[a] = "scan" /\ loc'[a] = l
  BY <1>2, <1>3, GotoIs
<1>5. l.todo = loc[a].todo \ {k} /\ l.snap = [loc[a].snap EXCEPT ![k] = file[k]]
  BY <1>1, <1>3 DEF LocalAt
<1>6. \A m \in Keys \ l.todo : l.snap[m] = file[m]
  BY <1>1, <1>5 DEF Sound, FilesAt
<1> QED
  BY <1>1, <1>4, <1>6 DEF Sound

\* A scan that is done has seen the disk.
LEMMA SoundScanDone ==
    ASSUME Typed, NEW a \in Actors, ScanDone(a), Sound(pc[a], loc[a], file, Actual)
    PROVE  Sound(pc'[a], loc'[a], file', Actual')
<1>1. /\ pc[a] = "scan" /\ UNCHANGED bytes /\ loc[a].todo = {} /\ loc[a] \in LocalAt(clock)
      /\ loc[a].total = Entries(loc[a].snap)
  BY Holds DEF ScanDone, disk, Fits
<1>2. file' = file /\ Actual' = Actual /\ \A k \in Keys : loc[a].snap[k] = file[k]
  BY <1>1, ActualSame DEF bytes, Sound
<1>3. PICK t : t = Counted(loc[a])
  OBVIOUS
<1>4. t = Actual /\ t \in Int
  <2>1. Entries(loc[a].snap) = Entries(file)
    BY <1>2, EntriesSame
  <2> QED
    BY <1>1, <1>3, <2>1, ActualIs DEF Counted, Typed
<1>5. PICK l : l = [loc[a] EXCEPT !.total = t]
  OBVIOUS
<1>6. l.total = t /\ l.todo = {} /\ l.snap = loc[a].snap /\ l.mode = loc[a].mode
  BY <1>1, <1>5 DEF LocalAt
<1>7. CASE loc[a].mode = "snap"
  <2>1. Goto(a, "prune", loc[a])
    BY <1>7 DEF ScanDone
  <2>2. pc'[a] = "prune" /\ loc'[a] = loc[a]
    BY <2>1, GotoIs
  <2> QED
    BY <1>2, <2>2 DEF Sound
<1>8. CASE loc[a].mode = "enforce" /\ t > Cap
  <2>1. Goto(a, "evict", l)
    BY <1>3, <1>5, <1>8 DEF ScanDone
  <2>2. pc'[a] = "evict" /\ loc'[a] = l
    BY <2>1, GotoIs
  <2> QED
    BY <1>2, <1>4, <1>6, <2>2 DEF Sound
<1>9. CASE loc[a].mode # "snap" /\ ~ (loc[a].mode = "enforce" /\ t > Cap)
  <2>1. Goto(a, "store", l)
    BY <1>3, <1>5, <1>9 DEF ScanDone
  <2>2. pc'[a] = "store" /\ loc'[a] = l
    BY <2>1, GotoIs
  <2> QED
    BY <1>2, <1>4, <1>6, <1>9, <2>2 DEF Sound
<1> QED
  BY <1>7, <1>8, <1>9

\* An undisturbed pass finds the oldest entry as the snapshot has it.
LEMMA SoundEvict ==
    ASSUME Typed, NEW a \in Actors, Evict(a), Sound(pc[a], loc[a], file, Actual)
    PROVE  Sound(pc'[a], loc'[a], file', Actual')
<1>1. /\ pc[a] = "evict" /\ UNCHANGED bytes /\ loc[a].todo = {} /\ loc[a] \in LocalAt(clock)
      /\ loc[a].mode = "enforce" /\ clock \in Nat
  BY Holds, ModeAt DEF Evict, disk, Fits
<1>2. /\ file' = file /\ Actual' = Actual /\ \A k \in Keys : loc[a].snap[k] = file[k]
      /\ loc[a].total = Actual /\ Actual \in Nat
  BY <1>1, ActualSame, ActualIs DEF bytes, Sound, Typed
<1>3. PICK k : k = Oldest(loc[a])
  OBVIOUS
<1>4. CASE loc[a].total <= Cap \/ Left(loc[a]) = {}
  <2>1. Goto(a, "store", loc[a])
    BY <1>4 DEF Evict
  <2>2. pc'[a] = "store" /\ loc'[a] = loc[a]
    BY <2>1, GotoIs
  <2>3. Actual > Cap => \A m \in Keys : file[m] = None
    BY <1>2, <1>4, CapIsPositive DEF Left
  <2> QED
    BY <1>2, <2>2, <2>3 DEF Sound
<1>5. CASE ~ (loc[a].total <= Cap \/ Left(loc[a]) = {})
  <2>1. /\ k \in Keys /\ k \in Left(loc[a])
        /\ \A m \in Left(loc[a]) : loc[a].snap[k].at <= loc[a].snap[m].at
    BY <1>1, <1>3, <1>5, OldestIs
  <2>2. file[k] # None /\ file[k] = loc[a].snap[k]
    BY <1>2, <2>1 DEF Left
  <2>3. \A m \in Keys : file[m] # None => file[k].at <= file[m].at
    BY <1>2, <2>1 DEF Left
  <2>4. PICK l : l = [loc[a] EXCEPT !.key = k, !.size = loc[a].snap[k].size]
    OBVIOUS
  <2>5. Goto(a, "unlink", l)
    BY <1>3, <1>5, <2>2, <2>4 DEF Evict
  <2>6. /\ l.key = k /\ l.size = file[k].size /\ l.total = loc[a].total /\ l.snap = loc[a].snap
        /\ l.todo = {} /\ l.mode = "enforce"
    BY <1>1, <2>2, <2>4 DEF LocalAt
  <2>7. pc'[a] = "unlink" /\ loc'[a] = l
    BY <2>5, GotoIs
  <2>8. Actual > Cap
    BY <1>2, <1>5, CapIsPositive
  <2> QED
    BY <1>2, <2>2, <2>3, <2>6, <2>7, <2>8 DEF Sound
<1> QED
  BY <1>4, <1>5

\* So does clear find any entry.
LEMMA SoundPrune ==
    ASSUME Typed, NEW a \in Actors, Prune(a), Sound(pc[a], loc[a], file, Actual)
    PROVE  Sound(pc'[a], loc'[a], file', Actual')
<1>1. /\ pc[a] = "prune" /\ UNCHANGED bytes /\ loc[a].todo = {} /\ loc[a] \in LocalAt(clock)
      /\ loc[a].mode = "snap"
  BY Holds, ModeAt DEF Prune, disk, Fits
<1>2. file' = file /\ \A k \in Keys : loc[a].snap[k] = file[k]
  BY <1>1 DEF bytes, Sound
<1>3. CASE Goto(a, "sweep", [Local0 EXCEPT !.mode = "recount"])
  BY <1>3, GotoIs, OffPass
<1>4. ASSUME NEW k \in Keys, Goto(a, "unlink", [loc[a] EXCEPT !.key = k])
      PROVE  Sound(pc'[a], loc'[a], file', Actual')
  <2>1. PICK l : l = [loc[a] EXCEPT !.key = k]
    OBVIOUS
  <2>2. l.snap = loc[a].snap /\ l.mode = "snap"
    BY <1>1, <2>1 DEF LocalAt
  <2>3. pc'[a] = "unlink" /\ loc'[a] = l
    BY <1>4, <2>1, GotoIs
  <2> QED
    BY <1>2, <2>2, <2>3 DEF Sound
<1>5. \A k \in Left(loc[a]) : k \in Keys /\ file[k] # None /\ file[k].id = loc[a].snap[k].id
  BY <1>2 DEF Left
<1> QED
  BY <1>3, <1>4, <1>5 DEF Prune

\* Its removal is of that entry, and takes its bytes off the total.
LEMMA SoundUnlink ==
    ASSUME Typed, Disk', NEW a \in Actors, Unlink(a), Sound(pc[a], loc[a], file, Actual)
    PROVE  Sound(pc'[a], loc'[a], file', Actual')
<1>1. /\ pc[a] = "unlink" /\ UNCHANGED <<dirs, temp, young, old, clock>>
      /\ loc[a] \in LocalAt(clock) /\ clock \in Nat /\ loc[a].todo = {}
      /\ loc[a].mode \in {"enforce", "snap"} /\ loc[a].key \in Keys
      /\ file' = Removed(loc[a].key)
  BY Holds, ModeAt DEF Unlink, Fits
<1>2. PICK k : k = loc[a].key
  OBVIOUS
<1>3. file'[k] = None /\ \A m \in Keys \ {k} : file'[m] = file[m]
  BY <1>1, <1>2, RemovedTyped DEF Typed
<1>4. \A m \in Keys : loc[a].snap[m] = file[m]
  BY <1>1 DEF Sound
<1>5. CASE loc[a].mode = "snap"
  <2>1. PICK l : l = [loc[a] EXCEPT !.snap[k] = None]
    OBVIOUS
  <2>k. k \in Keys /\ loc[a] \in LocalAt(clock) /\ clock \in Nat /\ loc[a].todo = {}
    BY <1>1, <1>2
  <2>2. l.snap[k] = None /\ \A m \in Keys \ {k} : l.snap[m] = loc[a].snap[m]
    <3>1. l.snap = [loc[a].snap EXCEPT ![k] = None] /\ loc[a].snap \in [Keys -> FileAt(clock) \cup {None}]
      BY <2>k, <2>1 DEF LocalAt, FilesAt
    <3> QED
      BY <2>k, <3>1
  <2>3. Goto(a, "prune", l)
    BY <1>2, <1>5, <2>1 DEF Unlink
  <2>4. pc'[a] = "prune" /\ loc'[a] = l
    BY <2>3, GotoIs
  <2> QED
    BY <1>3, <1>4, <2>2, <2>4 DEF Sound
<1>6. CASE loc[a].mode = "enforce"
  <2>1. loc[a].total = Actual /\ file[k] # None /\ loc[a].size = file[k].size
    BY <1>1, <1>2, <1>6 DEF Sound
  <2>2. PICK t : t = Unlinked(a)
    OBVIOUS
  <2>3. t = Actual - SizeOf(file[k])
    BY <1>2, <2>1, <2>2 DEF Unlinked, SizeOf
  <2>4. Actual' = Actual - SizeOf(file[k])
    <3>1. /\ file \in FilesAt(clock) /\ file' \in FilesAt(clock') /\ clock' \in Nat /\ k \in Keys
      BY <1>1, <1>2 DEF Typed, Disk
    <3>2. Entries(file') = Entries(file) - SizeOf(file[k]) + SizeOf(file'[k])
      BY <1>1, <1>3, <3>1, EntriesChange
    <3>3. TempBytes' = TempBytes
      BY <1>1 DEF TempBytes
    <3>4. Actual = Entries(file) + TempBytes /\ Actual' = Entries(file') + TempBytes
      BY <3>3, ActualIs, ActualNext DEF Typed
    <3>5. SizeOf(file[k]) \in Nat /\ SizeOf(file'[k]) = 0 /\ Entries(file) \in Nat /\ TempBytes \in Nat
      <4>1. file[k] \in FileAt(clock) \cup {None}
        BY <3>1 DEF FilesAt
      <4> QED
        BY <1>1, <1>3, <3>1, <4>1, SizeIsNatural, EntriesType, TempType DEF Typed, SizeOf
    <3> QED
      BY <3>2, <3>4, <3>5
  <2>5. PICK l : l = [loc[a] EXCEPT !.snap[k] = None, !.total = t]
    OBVIOUS
  <2>6. l.total = t /\ l.snap = [loc[a].snap EXCEPT ![k] = None]
    BY <1>1, <2>5 DEF LocalAt
  <2>7. \A m \in Keys : l.snap[m] = file'[m]
    BY <1>1, <1>2, <1>3, <1>4, <2>6 DEF LocalAt, FilesAt
  <2>8. Goto(a, "evict", l)
    BY <1>2, <1>6, <2>2, <2>5 DEF Unlink
  <2>9. pc'[a] = "evict" /\ loc'[a] = l
    BY <2>8, GotoIs
  <2> QED
    BY <2>3, <2>4, <2>6, <2>7, <2>9 DEF Sound
<1> QED
  BY <1>1, <1>5, <1>6

\* The thread that steps.
LEMMA SoundStep ==
    ASSUME Typed, Typed', PassInv, NEW a \in Actors, Step(a), Recorded(a), Trusted(a)'
    PROVE  Sound(pc'[a], loc'[a], file', Actual')
<1>1. pc[a] # "sweep" => Sound(pc[a], loc[a], file, Actual)
  BY DEF Trusted, Recorded, Undisturbed, PassInv
<1>r. ASSUME Return(a) PROVE Sound(pc'[a], loc'[a], file', Actual')
  BY <1>r, ReturnIs, OffPass
<1>g. ASSUME NEW s, NEW l, Goto(a, s, l), s \notin {"scan", "evict", "prune", "unlink", "store"}
      PROVE  Sound(pc'[a], loc'[a], file', Actual')
  BY <1>g, GotoIs, OffPass
<1>s. ASSUME NEW l, Goto(a, "scan", l), l.todo = Keys
      PROVE  Sound(pc'[a], loc'[a], file', Actual')
  BY <1>s, GotoIs, ScanStarts
<1>2. CASE \E k \in Keys : Get(a, k) \/ Delete(a, k) \/ \E size \in Sizes : Set(a, k, size)
  <2>1. \E l : Goto(a, "read", l) \/ Goto(a, "delete", l) \/ Goto(a, "temp", l)
    BY <1>2 DEF Get, Delete, Set
  <2> QED
    BY <2>1, <1>g
<1>3. CASE Read(a) \/ Touch(a) \/ OpenFd(a) \/ Fstat(a) \/ Utime(a) \/ Open(a)
  BY <1>3, <1>g, <1>r DEF Read, Touch, OpenFd, Fstat, Utime, Open
<1>4. CASE WriteTemp(a) \/ WriteFails(a) \/ Replace(a) \/ Account(a)
  BY <1>4, <1>g, <1>r DEF WriteTemp, WriteFails, Replace, Account
<1>5. CASE DeleteUnlink(a) \/ Forget(a) \/ Store(a)
  BY <1>5, <1>g, <1>r DEF DeleteUnlink, Forget, Store
<1>6. CASE Clear(a)
  <2>1. [Local0 EXCEPT !.mode = "snap", !.todo = Keys].todo = Keys
    BY DEF Local0
  <2> QED
    BY <1>6, <2>1, <1>s DEF Clear
<1>7. CASE Sweep(a)
  <2>1. PICK l : l = [Local0 EXCEPT !.mode = loc[a].mode]
    OBVIOUS
  <2>2. [l EXCEPT !.todo = Keys].todo = Keys
    BY <2>1 DEF Local0
  <2>3. Goto(a, "rmdir", [l EXCEPT !.todo = dirs]) \/ Goto(a, "scan", [l EXCEPT !.todo = Keys])
    BY <1>7, <2>1 DEF Sweep
  <2> QED
    BY <2>2, <2>3, <1>g, <1>s
<1>8. CASE Rmdir(a)
  <2>1. [loc[a] EXCEPT !.todo = Keys].todo = Keys
    BY Holds DEF LocalAt
  <2>2. CASE Goto(a, "scan", [loc[a] EXCEPT !.todo = Keys])
    BY <2>1, <2>2, <1>s
  <2>3. CASE \E k \in loc[a].todo : Goto(a, "rmdir", [loc[a] EXCEPT !.todo = @ \ {k}])
    BY <2>3, <1>g
  <2> QED
    BY <1>8, <2>2, <2>3 DEF Rmdir
<1>9. CASE Scan(a)
  BY <1>1, <1>9, SoundScan DEF Scan
<1>10. CASE ScanDone(a)
  BY <1>1, <1>10, SoundScanDone DEF ScanDone
<1>11. CASE Evict(a)
  BY <1>1, <1>11, SoundEvict DEF Evict
<1>12. CASE Prune(a)
  BY <1>1, <1>12, SoundPrune DEF Prune
<1>13. CASE Unlink(a)
  <2>1. Disk'
    BY DEF Typed
  <2> QED
    BY <1>1, <1>13, <2>1, SoundUnlink DEF Unlink
<1> QED
  BY <1>2, <1>3, <1>4, <1>5, <1>6, <1>7, <1>8, <1>9, <1>10, <1>11, <1>12, <1>13 DEF Step

\* At first there is no pass.
LEMMA PassInit == Init => PassInv
<1> SUFFICES ASSUME Init PROVE PassInv
  OBVIOUS
<1>1. \A a \in Actors : pc[a] = "idle"
  BY DEF Init
<1>2. \A a \in Actors : Sound(pc[a], loc[a], file, Actual)
  BY <1>1, OffPass
<1>3. Alone
  BY <1>1 DEF Alone, Init
<1> QED
  BY <1>2, <1>3 DEF PassInv

\* Every step keeps what undisturbed passes know.
LEMMA PassNext == Typed /\ Typed' /\ PassInv /\ [Next]_vars => PassInv'
<1> SUFFICES ASSUME Typed, Typed', PassInv, [Next]_vars PROVE PassInv'
  OBVIOUS
<1>1. ASSUME NEW a \in Actors, Step(a), Recorded(a) PROVE PassInv'
  <2>1. Elsewhere(a)
    BY <1>1, StepElsewhere
  <2>2. Alone'
    BY <1>1, <2>1, AloneStep
  <2>3. ASSUME NEW b \in Actors, Trusted(b)' PROVE Sound(pc'[b], loc'[b], file', Actual')
    <3>1. CASE b = a
      BY <1>1, <2>3, <3>1, SoundStep
    <3>2. CASE b # a
      BY <1>1, <2>1, <2>3, <3>2, SoundElsewhere
    <3> QED
      BY <3>1, <3>2
  <2> QED
    BY <2>2, <2>3 DEF PassInv, Sound
<1>2. ASSUME NEW p \in Procs, Crash(p), calm' = {}, UNCHANGED solo PROVE PassInv'
  <2>1. Alone'
    BY <1>2, AloneCrash DEF PassInv
  <2>2. ASSUME NEW b \in Actors, Trusted(b)' PROVE pc'[b] = "idle"
    <3>1. solo /\ p \in open
      BY <1>2, <2>2 DEF Trusted, Crash
    <3>2. pc[b] # "idle" => Proc(b) = p
      BY <3>1 DEF PassInv, Alone
    <3> QED
      BY <1>2, <3>2 DEF Crash
  <2>3. \A b \in Actors : Trusted(b)' => Sound(pc'[b], loc'[b], file', Actual')
    BY <2>2, OffPass
  <2> QED
    BY <2>1, <2>3 DEF PassInv, Sound
<1>3. ASSUME Age, UNCHANGED <<calm, solo>> PROVE PassInv'
  <2>1. UNCHANGED <<file, temp, open, pc, loc, calm, solo>> /\ old' = old + young /\ young' = 0
    BY <1>3 DEF Age
  <2>2. Actual' = Actual
    <3>1. TempBytes' = TempBytes
      <4>1. SumFunction(temp)' = SumFunction(temp)
        BY <2>1
      <4>2. young \in Nat /\ old \in Nat /\ SumFunction(temp) \in Int
        BY TempType, SumFunctionIs DEF Typed, Disk
      <4> QED
        BY <2>1, <4>1, <4>2 DEF TempBytes
    <3> QED
      BY <2>1, <3>1 DEF Actual
  <2>3. Alone'
    BY <2>1 DEF PassInv, Alone
  <2>4. \A b \in Actors : Trusted(b)' => Sound(pc'[b], loc'[b], file', Actual')
    BY <2>1, <2>2 DEF PassInv, Trusted
  <2> QED
    BY <2>3, <2>4 DEF PassInv, Sound
<1>4. CASE UNCHANGED vars
  <2>1. UNCHANGED <<file, temp, young, old, open, pc, loc, calm, solo>>
    BY <1>4 DEF vars
  <2>2. Actual' = Actual /\ file' = file
    BY <2>1, ActualSame DEF bytes
  <2>3. Alone'
    BY <2>1 DEF PassInv, Alone
  <2>4. \A b \in Actors : Trusted(b)' => Sound(pc'[b], loc'[b], file', Actual')
    BY <2>1, <2>2 DEF PassInv, Trusted
  <2> QED
    BY <2>3, <2>4 DEF PassInv, Sound
<1> QED
  BY <1>1, <1>2, <1>3, <1>4 DEF Next, Recorded

\* So it holds always.
LEMMA PassAlways == Spec => [](Typed /\ PassInv)
  BY TypedInit, TypedNext, PassInit, PassNext, PTL DEF Spec

\* A pass that nobody disturbs re-seeds the tracker with what is on the disk,
\* whatever drift it had, and ends over the cap only when no entry is left.
THEOREM PassExact == Spec => []PassReconciles
<1>1. Typed /\ PassInv => PassReconciles
  <2> SUFFICES ASSUME Typed, PassInv, NEW a \in calm, pc[a] = "store"
               PROVE  /\ loc[a].total = Actual
                      /\ loc[a].mode = "enforce" /\ Actual > Cap => \A k \in Keys : file[k] = None
    BY DEF PassReconciles
  <2>1. Sound(pc[a], loc[a], file, Actual)
    BY DEF PassInv, Trusted, Typed, Processes
  <2> QED
    BY <2>1 DEF Sound
<1> QED
  BY PassAlways, <1>1, PTL

\* An undisturbed pass evicts only over the cap, and then the entry used least
\* recently of all there are.
THEOREM EvictionIsLRU == Spec => []EvictsLeastRecent
<1>1. Typed /\ PassInv => EvictsLeastRecent
  <2> SUFFICES ASSUME Typed, PassInv, NEW a \in calm, pc[a] = "unlink", loc[a].mode = "enforce"
               PROVE  /\ Actual > Cap
                      /\ \A k \in Keys : file[k] # None => file[loc[a].key].at <= file[k].at
    BY DEF EvictsLeastRecent
  <2>1. Sound(pc[a], loc[a], file, Actual)
    BY DEF PassInv, Trusted, Typed, Processes
  <2> QED
    BY <2>1 DEF Sound
<1> QED
  BY PassAlways, <1>1, PTL

-----------------------------------------------------------------------------
(* The tracker.                                                             *)

\* Its type.
LEMMA BaseType == ASSUME Disk PROVE Base \in Nat /\ Entries(file) \in Nat
<1>1. Entries(file) \in Nat
  BY EntriesType DEF Disk
<1> QED
  BY <1>1 DEF Base, Disk

\* It depends on the files and the leftovers.
LEMMA BaseSame == ASSUME UNCHANGED <<file, young, old>> PROVE Base' = Base
  BY DEF Base

\* One entry changes.
LEMMA BaseChange ==
    ASSUME Disk, Disk', UNCHANGED <<young, old>>, NEW k \in Keys,
           \A m \in Keys \ {k} : file'[m] = file[m]
    PROVE  Base' = Base - SizeOf(file[k]) + SizeOf(file'[k])
<1>1. file \in FilesAt(clock) /\ clock \in Nat /\ file' \in FilesAt(clock') /\ clock' \in Nat
  BY DEF Disk
<1>2. Entries(file') = Entries(file) - SizeOf(file[k]) + SizeOf(file'[k])
  BY <1>1, EntriesChange
<1>3. SizeOf(file[k]) \in Nat /\ SizeOf(file'[k]) \in Nat
  <2>1. file[k] \in FileAt(clock) \cup {None} /\ file'[k] \in FileAt(clock') \cup {None}
    BY <1>1 DEF FilesAt
  <2> QED
    BY <1>1, <2>1, SizeIsNatural
<1>4. Entries(file) \in Nat /\ Entries(file') \in Nat
  BY <1>1, EntriesType
<1>5. young \in Nat /\ old \in Nat
  BY DEF Disk
<1> QED
  BY <1>2, <1>3, <1>4, <1>5 DEF Base

\* A file that is only touched keeps its size.
LEMMA BaseTouched ==
    ASSUME UNCHANGED <<young, old>>, \A m \in Keys : SizeOf(file'[m]) = SizeOf(file[m])
    PROVE  Base' = Base
<1>1. Entries(file') = Entries(file)
  <2> DEFINE g1 == [m \in Keys |-> SizeOf(file[m])]
             g2 == [m \in Keys |-> SizeOf(file'[m])]
  <2>1. \A m \in Keys : g1[m] = g2[m]
    OBVIOUS
  <2> HIDE DEF g1, g2
  <2>2. SumFunctionOnSet(g2, Keys) = SumFunctionOnSet(g1, Keys)
    BY <2>1, SumSame, InstanceIsFinite
  <2> QED
    BY <2>2 DEF Entries, g1, g2
<1> QED
  BY <1>1 DEF Base

\* While nobody is about to rename a file nothing else counts.
LEMMA BaseIsAll ==
    ASSUME Disk, \A b \in Actors : temp[b] = 0
    PROVE  Actual = Base
<1>1. SumFunctionOnSet(temp, Actors) = 0
  BY ActorsFinite, SumZero
<1>2. Entries(file) \in Nat /\ young \in Nat /\ old \in Nat
  BY BaseType DEF Disk
<1> QED
  BY <1>1, <1>2, ActualIs, TempType DEF Base

\* Without either it is 0.
LEMMA BaseOfNothing ==
    ASSUME NoFile, young = 0, old = 0
    PROVE  Base = 0
  BY EntriesNone DEF NoFile, Base

\* What is known of the only thread that may be busy.
Self(a) ==
    /\ pc[a] \in Quiet /\ Proc(a) \in open => Exact(Proc(a))
    /\ Serial(a)

\* It is known before a step without overlap, ...
LEMMA SelfBefore ==
    ASSUME SerialInv, NEW a \in Actors, Recorded(a), solo'
    PROVE  Self(a)
<1>1. solo /\ \A b \in Actors \ {a} : pc[b] = "idle"
  BY SoloStep
<1>2. pc[a] \in Quiet => \A b \in Actors : pc[b] \in Quiet
  BY <1>1 DEF Quiet
<1> QED
  BY <1>1, <1>2 DEF SerialInv, Self

\* What must be known of it afterwards.
SoloAfter ==
    /\ (\A b \in Actors : pc'[b] \in Quiet) => \A p \in open' : Exact(p)'
    /\ \A b \in Actors : Serial(b)'

\* ... and what is known afterwards is enough.
LEMMA SelfAfter ==
    ASSUME NEW a \in Actors, Elsewhere(a), Recorded(a), solo', Self(a)'
    PROVE  SoloAfter
<1>1. open' \subseteq {Proc(a)} /\ \A b \in Actors \ {a} : pc'[b] = "idle"
  BY SoloStep DEF Elsewhere
<1>2. \A b \in Actors \ {a} : Serial(b)'
  BY <1>1 DEF Serial
<1>3. Serial(a)'
  BY DEF Self
<1>4. (\A b \in Actors : pc'[b] \in Quiet) => \A p \in open' : Exact(p)'
  <2> SUFFICES ASSUME pc'[a] \in Quiet, NEW p \in open' PROVE Exact(p)'
    OBVIOUS
  <2>1. p = Proc(a)
    BY <1>1
  <2>2. Exact(Proc(a))'
    BY <2>1 DEF Self
  <2> QED
    BY <2>1, <2>2 DEF Exact
<1> QED
  BY <1>2, <1>3, <1>4 DEF SoloAfter

\* Steps that move the thread on, without a trace, from one quiet step to another.
LEMMA SelfQuiet ==
    ASSUME Typed', NEW a \in Actors, Self(a), pc[a] \in Quiet, pc'[a] \in Quiet \ {"delete"},
           UNCHANGED <<open, crashes>>, tracker' = tracker, Base' = Base,
           pc'[a] \in {"temp", "replace"} => loc'[a].old = SizeOf(file'[loc'[a].key])
    PROVE  Self(a)'
<1>1. pc'[a] \in Quiet /\ Proc(a) \in open' => Exact(Proc(a))'
  BY DEF Self, Exact
<1>2. loc'[a].mode = "none"
  <2>1. loc'[a].mode \in ModesAt(pc'[a]) /\ pc'[a] \in Steps
    BY DEF Typed, Running, Fits
  <2>2. ModesAt(pc'[a]) = {"none"}
    BY <2>1, StepModes DEF Quiet
  <2> QED
    BY <2>1, <2>2
<1>3. Serial(a)'
  BY <1>2 DEF Serial, Quiet
<1> QED
  BY <1>1, <1>3 DEF Self

\* Steps from one part of a pass to another.
LEMMA SelfPass ==
    ASSUME NEW a \in Actors, Self(a), UNCHANGED <<file, open>>,
           pc'[a] \in {"sweep", "scan", "rmdir", "evict", "prune", "unlink", "store"},
           loc'[a].mode \in {"enforce", "snap"} \/ (pc[a] # "idle" /\ loc'[a].mode = loc[a].mode)
    PROVE  Self(a)'
<1>1. pc'[a] \notin Quiet
  BY DEF Quiet
<1>2. NoFile' = NoFile
  BY DEF NoFile
<1>3. Serial(a)'
  BY <1>2 DEF Self, Serial
<1> QED
  BY <1>1, <1>3 DEF Self

\* The end of an operation.
LEMMA SelfReturn ==
    ASSUME NEW a \in Actors, pc'[a] = "idle", Proc(a) \in open' => Exact(Proc(a))'
    PROVE  Self(a)'
  BY DEF Self, Serial

\* A rename changes the disk by the size of the new entry less that of the old.
LEMMA SelfReplace ==
    ASSUME Typed, Typed', NEW a \in Actors, Replace(a), Self(a) PROVE Self(a)'
<1>1. /\ pc[a] = "replace" /\ UNCHANGED <<young, old, open, tracker, crashes>>
      /\ loc[a].key \in Keys /\ Proc(a) \in open /\ loc[a].size \in Nat /\ loc[a].old \in Nat
      /\ loc[a].mode = "none"
  BY Holds, ModeAt, SizesAreNatural DEF Replace, Fits, bounds
<1>2. tracker[Proc(a)] = Base /\ loc[a].old = SizeOf(file[loc[a].key])
  BY <1>1 DEF Self, Serial, Quiet, Exact
<1>3. CASE Return(a) /\ UNCHANGED <<file, clock>>
  <2>1. pc'[a] = "idle" /\ Base' = Base /\ tracker' = tracker
    BY <1>1, <1>3, ReturnIs, BaseSame
  <2> QED
    BY <1>1, <2>1, SelfQuiet DEF Quiet
<1>4. CASE file' = Committed(loc[a].key, loc[a].size) /\ Goto(a, "account", loc[a])
  <2>1. pc'[a] = "account" /\ loc'[a] = loc[a]
    BY <1>4, GotoIs
  <2>2. PICK k : k = loc[a].key
    OBVIOUS
  <2>3. k \in Keys /\ file'[k].size = loc[a].size /\ \A m \in Keys \ {k} : file'[m] = file[m]
    BY <1>1, <1>4, <2>2 DEF Committed, Typed, Disk, FilesAt
  <2>4. file'[k] # None
    <3>1. file'[k] = [id |-> clock + 1, size |-> loc[a].size, at |-> clock + 1] /\ clock + 1 \in Nat
      BY <1>1, <1>4, <2>2 DEF Committed, Typed, Disk, FilesAt
    <3>2. loc[a].size \in Sizes
      BY <1>1, Holds DEF Fits
    <3>3. file'[k] \in [id : Nat, size : Sizes, at : Nat]
      BY <3>1, <3>2
    <3> QED
      BY <3>3, NoneIsNothing
  <2>5. Base' = Base - SizeOf(file[k]) + SizeOf(file'[k])
    BY <1>1, <2>3, BaseChange DEF Typed
  <2>6. SizeOf(file'[k]) = loc[a].size /\ SizeOf(file[k]) = loc[a].old
    BY <1>2, <2>2, <2>3, <2>4 DEF SizeOf
  <2>7. Base \in Nat
    BY BaseType DEF Typed
  <2>8. tracker'[Proc(a)] = Base' - loc'[a].size + loc'[a].old
    BY <1>1, <1>2, <2>1, <2>5, <2>6, <2>7
  <2> QED
    BY <1>1, <2>1, <2>8 DEF Self, Serial, Quiet
<1> QED
  BY <1>3, <1>4 DEF Replace

\* The tracker follows; over the cap there is a pass.
LEMMA SelfAccount ==
    ASSUME Typed, NEW a \in Actors, Account(a), Self(a) PROVE Self(a)'
<1>1. PICK t : t = tracker[Proc(a)] + NetChange(a)
  OBVIOUS
<1>2. /\ pc[a] = "account" /\ tracker' = [tracker EXCEPT ![Proc(a)] = t] /\ UNCHANGED <<disk, open, crashes>>
      /\ IF OverCap(t) THEN Goto(a, "sweep", [Local0 EXCEPT !.mode = "enforce"]) ELSE Return(a)
  BY <1>1 DEF Account, bounds
<1>3. loc[a].size \in Int /\ loc[a].old \in Int /\ Proc(a) \in Procs
  BY Holds, SizesAreNatural
<1>4. t = Base /\ Base \in Nat
  <2>1. tracker[Proc(a)] = Base - loc[a].size + loc[a].old
    BY <1>2 DEF Self, Serial
  <2>2. Base \in Nat
    BY BaseType DEF Typed
  <2> QED
    BY <1>1, <1>3, <2>1, <2>2 DEF NetChange
<1>5. Base' = Base
  BY <1>2, BaseSame DEF disk, bytes
<1>6. CASE OverCap(t)
  <2>1. pc'[a] = "sweep" /\ loc'[a].mode = "enforce"
    BY <1>2, <1>6, GotoIs DEF Local0
  <2> QED
    BY <1>2, <2>1, SelfPass DEF disk, bytes
<1>7. CASE ~ OverCap(t)
  <2>1. pc'[a] = "idle"
    BY <1>2, <1>7, ReturnIs
  <2>2. tracker'[Proc(a)] = t
    BY <1>2, <1>3 DEF Typed, Processes
  <2>3. Base <= Cap
    BY <1>4, <1>7, CapIsPositive DEF OverCap
  <2>4. Exact(Proc(a))'
    BY <1>4, <1>5, <2>2, <2>3 DEF Exact
  <2> QED
    BY <2>1, <2>4, SelfReturn
<1> QED
  BY <1>6, <1>7

\* A removal takes the size that was measured.
LEMMA SelfDeleteUnlink ==
    ASSUME Typed, Typed', NEW a \in Actors, DeleteUnlink(a), Self(a) PROVE Self(a)'
<1>1. /\ pc[a] = "delete" /\ file' = Removed(loc[a].key)
      /\ UNCHANGED <<dirs, temp, young, old, open, tracker, clock, crashes>>
      /\ loc[a].key \in Keys /\ loc[a].mode = "none" /\ Proc(a) \in open
  BY Holds, ModeAt DEF DeleteUnlink, Fits, bounds
<1>2. PICK k : k = loc[a].key
  OBVIOUS
<1>3. file[k] # None /\ loc[a].size = file[k].size /\ Exact(Proc(a))
  BY <1>1, <1>2 DEF Self, Serial, Quiet
<1>4. Goto(a, "forget", loc[a])
  BY <1>2, <1>3 DEF DeleteUnlink
<1>5. pc'[a] = "forget" /\ loc'[a] = loc[a]
  BY <1>4, GotoIs
<1>6. k \in Keys /\ file'[k] = None /\ \A m \in Keys \ {k} : file'[m] = file[m]
  BY <1>1, <1>2, RemovedTyped DEF Typed
<1>7. Base' = Base - SizeOf(file[k]) + SizeOf(file'[k])
  BY <1>1, <1>6, BaseChange DEF Typed
<1>8. SizeOf(file'[k]) = 0 /\ SizeOf(file[k]) = loc[a].size /\ loc[a].size \in Nat
  BY <1>3, <1>6, Holds, SizesAreNatural DEF SizeOf
<1>9. Base \in Nat
  BY BaseType DEF Typed
<1>10. tracker'[Proc(a)] = Base' + loc'[a].size /\ (crashes' = 0 => Base' <= Cap)
  BY <1>1, <1>3, <1>5, <1>7, <1>8, <1>9, CapIsPositive DEF Exact
<1> QED
  BY <1>1, <1>5, <1>10 DEF Self, Serial, Quiet

\* The tracker follows.
LEMMA SelfForget ==
    ASSUME Typed, NEW a \in Actors, Forget(a), Self(a) PROVE Self(a)'
<1>1. PICK t : t = Max({0, tracker[Proc(a)] - loc[a].size})
  OBVIOUS
<1>2. tracker \in [Procs -> Int] /\ Proc(a) \in Procs /\ loc[a].size \in Int /\ pc[a] = "forget"
  BY Holds, SizesAreNatural DEF Typed, Processes, Forget
<1>3. tracker' = [tracker EXCEPT ![Proc(a)] = t] /\ UNCHANGED <<disk, open, crashes>> /\ Return(a)
  BY <1>1, <1>2 DEF Forget, bounds
<1>4. tracker[Proc(a)] = Base + loc[a].size /\ (crashes = 0 => Base <= Cap) /\ Base \in Nat
  BY <1>2, BaseType DEF Self, Serial, Typed
<1>5. t = Base
  <2>1. tracker[Proc(a)] - loc[a].size = Base
    BY <1>2, <1>4
  <2> QED
    BY <1>1, <1>4, <2>1, MaxIs
<1>6. Base' = Base
  BY <1>3, BaseSame DEF disk, bytes
<1>7. Exact(Proc(a))'
  BY <1>2, <1>3, <1>4, <1>5, <1>6 DEF Exact
<1>8. pc'[a] = "idle"
  BY <1>3, ReturnIs
<1> QED
  BY <1>7, <1>8, SelfReturn

\* When clear has nothing left in its snapshot there is nothing left.
LEMMA SelfPrune ==
    ASSUME Typed, NEW a \in Actors, Prune(a), Self(a), Sound(pc[a], loc[a], file, Actual)
    PROVE  Self(a)'
<1>1. /\ pc[a] = "prune" /\ UNCHANGED <<file, open>> /\ loc[a].todo = {} /\ loc[a] \in LocalAt(clock)
      /\ loc[a].mode = "snap"
  BY Holds, ModeAt DEF Prune, disk, bytes, Fits
<1>2. CASE Left(loc[a]) = {} /\ Goto(a, "sweep", [Local0 EXCEPT !.mode = "recount"])
  <2>1. pc'[a] = "sweep" /\ loc'[a].mode = "recount"
    BY <1>2, GotoIs DEF Local0
  <2>2. NoFile'
    BY <1>1, <1>2 DEF NoFile, Sound, Left
  <2> QED
    BY <2>1, <2>2 DEF Self, Serial, Quiet
<1>3. ASSUME NEW k, Goto(a, "unlink", [loc[a] EXCEPT !.key = k]) PROVE Self(a)'
  <2>0. PICK l : l = [loc[a] EXCEPT !.key = k]
    OBVIOUS
  <2>1. l.mode = "snap"
    BY <1>1, <2>0 DEF LocalAt
  <2>g. Goto(a, "unlink", l)
    BY <1>3, <2>0
  <2>2. pc'[a] = "unlink" /\ loc'[a].mode = "snap"
    BY <2>g, <2>1, GotoIs
  <2> QED
    BY <1>1, <2>2, SelfPass
<1>4. ASSUME NEW k, Goto(a, "prune", [loc[a] EXCEPT !.snap[k] = None]) PROVE Self(a)'
  <2>0. PICK l : l = [loc[a] EXCEPT !.snap[k] = None]
    OBVIOUS
  <2>1. l.mode = "snap"
    BY <1>1, <2>0 DEF LocalAt
  <2>g. Goto(a, "prune", l)
    BY <1>4, <2>0
  <2>2. pc'[a] = "prune" /\ loc'[a].mode = "snap"
    BY <2>g, <2>1, GotoIs
  <2> QED
    BY <1>1, <2>2, SelfPass
<1> QED
  BY <1>2, <1>3, <1>4 DEF Prune

\* What a pass finds when it is done is what the tracker becomes.
LEMMA SelfStore ==
    ASSUME Typed, SerialInv, NEW a \in Actors, Store(a), Self(a), \A b \in Actors \ {a} : pc[b] = "idle",
           Sound(pc[a], loc[a], file, Actual)
    PROVE  Self(a)'
<1>1. /\ pc[a] = "store" /\ tracker' = [tracker EXCEPT ![Proc(a)] = loc[a].total]
      /\ Return(a) /\ UNCHANGED <<disk, crashes>> /\ Proc(a) \in Procs
      /\ loc[a].mode \in {"open", "enforce", "recount"}
  BY Holds, ModeAt DEF Store, bounds
<1>2. \A b \in Actors : temp[b] = 0
  <2>1. \A b \in Actors : pc[b] # "replace"
    BY <1>1
  <2> QED
    BY <2>1 DEF SerialInv
<1>3. loc[a].total = Base /\ Base \in Nat /\ (loc[a].mode = "enforce" /\ Base > Cap => NoFile)
  BY <1>1, <1>2, BaseIsAll, BaseType DEF Typed, Sound, NoFile
<1>4. crashes = 0 => Base <= Cap
  <2> SUFFICES ASSUME crashes = 0, ~ (Base <= Cap) PROVE FALSE
    OBVIOUS
  <2>1. young = 0 /\ old = 0 /\ (open = {} => NoFile)
    BY DEF SerialInv
  <2>2. NoFile
    BY <1>1, <1>3, <2>1, CapIsPositive DEF Self, Serial
  <2> QED
    BY <2>1, <2>2, BaseOfNothing, CapIsPositive
<1>5. Base' = Base
  BY <1>1, BaseSame DEF disk, bytes
<1>6. tracker'[Proc(a)] = Base
  BY <1>1, <1>3 DEF Typed, Processes
<1>7. Exact(Proc(a))'
  BY <1>1, <1>4, <1>5, <1>6 DEF Exact
<1>8. pc'[a] = "idle"
  BY <1>1, ReturnIs
<1> QED
  BY <1>7, <1>8, SelfReturn

\* Every step of the only busy thread.
LEMMA SelfStep ==
    ASSUME Typed, Typed', PassInv, SerialInv, NEW a \in Actors, Step(a), Recorded(a), solo'
    PROVE  Self(a)'
<1>1. Self(a) /\ solo /\ open' \subseteq {Proc(a)} /\ \A b \in Actors \ {a} : pc[b] = "idle"
  BY SelfBefore, SoloStep
<1>2. Sound(pc[a], loc[a], file, Actual)
  BY <1>1 DEF PassInv, Trusted
<1>3. ASSUME NEW k \in Keys, Get(a, k) PROVE Self(a)'
  <2>1. pc[a] \in Quiet /\ UNCHANGED <<disk, open, tracker, crashes>>
    BY <1>3 DEF Get, Begin, Quiet
  <2>2. pc'[a] = "read"
    BY <1>3, GotoIs DEF Get
  <2> QED
    BY <1>1, <2>1, <2>2, SelfQuiet, BaseSame DEF Quiet, disk, bytes
<1>4. ASSUME NEW k \in Keys, Delete(a, k) PROVE Self(a)'
  <2>1. PICK l : l = [Local0 EXCEPT !.key = k, !.size = file[k].size]
    OBVIOUS
  <2>2. /\ pc[a] \in Quiet /\ UNCHANGED <<disk, open, tracker, crashes>> /\ file[k] # None
        /\ Goto(a, "delete", l)
    BY <1>4, <2>1 DEF Delete, Begin, Quiet
  <2>3. pc'[a] = "delete" /\ loc'[a] = l /\ l.key = k /\ l.size = file[k].size /\ l.mode = "none"
    BY <2>1, <2>2, GotoIs DEF Local0
  <2>4. file' = file /\ Base' = Base
    BY <2>2, BaseSame DEF disk, bytes
  <2>5. Serial(a)'
    BY <2>2, <2>3, <2>4 DEF Serial
  <2>6. Proc(a) \in open' => Exact(Proc(a))'
    BY <1>1, <2>2, <2>4 DEF Self, Exact
  <2> QED
    BY <2>5, <2>6 DEF Self
<1>5. ASSUME NEW k \in Keys, NEW size \in Sizes, Set(a, k, size) PROVE Self(a)'
  <2>1. PICK l : l = [Local0 EXCEPT !.key = k, !.size = size, !.old = SizeOf(file[k])]
    OBVIOUS
  <2>2. pc[a] \in Quiet /\ UNCHANGED <<bytes, open, tracker, crashes>> /\ Goto(a, "temp", l)
    BY <1>5, <2>1 DEF Set, Begin, Quiet
  <2>3. pc'[a] = "temp" /\ loc'[a] = l /\ l.key = k /\ l.old = SizeOf(file[k])
    BY <2>1, <2>2, GotoIs DEF Local0
  <2>4. file' = file /\ Base' = Base
    BY <2>2, BaseSame DEF bytes
  <2> QED
    BY <1>1, <2>2, <2>3, <2>4, SelfQuiet DEF Quiet
<1>6. ASSUME Read(a) \/ Touch(a) \/ OpenFd(a) \/ Fstat(a) \/ WriteFails(a) PROVE Self(a)'
  <2>1. pc[a] \in Quiet /\ UNCHANGED <<disk, open, tracker, crashes>>
    BY <1>6 DEF Read, Touch, OpenFd, Fstat, WriteFails, Quiet, bounds
  <2>2. pc'[a] \in {"idle", "touch", "open", "fstat", "utime"}
    BY <1>6, GotoIs, ReturnIs DEF Read, Touch, OpenFd, Fstat, WriteFails
  <2> QED
    BY <1>1, <2>1, <2>2, SelfQuiet, BaseSame DEF Quiet, disk, bytes
<1>7. ASSUME Utime(a) PROVE Self(a)'
  <2>1. /\ pc[a] \in Quiet /\ UNCHANGED <<young, old, open, tracker, crashes>> /\ Return(a)
        /\ loc[a].key \in Keys
    BY <1>7, Holds DEF Utime, Quiet, bounds, Fits
  <2>2. pc'[a] = "idle"
    BY <2>1, ReturnIs
  <2>3. ASSUME NEW m \in Keys PROVE SizeOf(file'[m]) = SizeOf(file[m])
    <3>1. file \in FilesAt(clock) /\ clock \in Nat /\ file' \in FilesAt(clock') /\ clock' \in Nat
      BY DEF Typed, Disk
    <3>2. CASE file[m] = None
      <4>1. file'[m] = None
        BY <1>7, <3>1, <3>2 DEF Utime, FilesAt
      <4> QED
        BY <3>2, <4>1
    <3>3. CASE file[m] # None
      <4>1. file[m] \in FileAt(clock)
        BY <3>1, <3>3 DEF FilesAt
      <4>2. PICK f : f = [file[m] EXCEPT !.at = loc[a].stamp]
        OBVIOUS
      <4>3. file'[m] = file[m] \/ file'[m] = f
        BY <1>7, <2>1, <3>1, <4>2 DEF Utime, FilesAt
      <4>4. f.size = file[m].size
        BY <4>1, <4>2 DEF FileAt
      <4>5. file'[m] # None
        <5>1. loc[a].stamp \in Nat
          BY Holds
        <5>2. f \in [id : Nat, size : Sizes, at : Nat]
          BY <4>1, <4>2, <5>1 DEF FileAt
        <5> QED
          BY <3>3, <4>3, <5>2, NoneIsNothing
      <4> QED
        BY <3>3, <4>3, <4>4, <4>5 DEF SizeOf
    <3> QED
      BY <3>2, <3>3
  <2>4. Base' = Base
    BY <2>1, <2>3, BaseTouched
  <2> QED
    BY <1>1, <2>1, <2>2, <2>4, SelfQuiet DEF Quiet
<1>8. ASSUME WriteTemp(a) PROVE Self(a)'
  <2>1. /\ pc[a] = "temp" /\ UNCHANGED <<file, young, old, open, tracker, crashes>>
        /\ Goto(a, "replace", loc[a])
    BY <1>8 DEF WriteTemp, bounds
  <2>2. pc'[a] = "replace" /\ loc'[a] = loc[a] /\ Base' = Base
    BY <2>1, GotoIs, BaseSame
  <2>3. loc[a].old = SizeOf(file[loc[a].key])
    BY <1>1, <2>1 DEF Self, Serial
  <2> QED
    BY <1>1, <2>1, <2>2, <2>3, SelfQuiet DEF Quiet
<1>9. ASSUME Open(a) PROVE Self(a)'
  <2>1. PICK l : l = [Local0 EXCEPT !.mode = "open"]
    OBVIOUS
  <2>2. UNCHANGED open /\ Proc(a) \notin open /\ Goto(a, "sweep", l)
    BY <1>9, <2>1 DEF Open
  <2>3. pc'[a] = "sweep" /\ loc'[a].mode = "open" /\ open' = {}
    BY <1>1, <2>1, <2>2, GotoIs DEF Local0
  <2> QED
    BY <2>3 DEF Self, Serial, Quiet
<1>10. ASSUME Clear(a) PROVE Self(a)'
  <2>1. PICK l : l = [Local0 EXCEPT !.mode = "snap", !.todo = Keys]
    OBVIOUS
  <2>2. UNCHANGED <<file, open>> /\ Goto(a, "scan", l)
    BY <1>10, <2>1 DEF Clear, disk, bytes
  <2>m. l.mode = "snap"
    BY <2>1 DEF Local0
  <2>3. pc'[a] = "scan" /\ loc'[a].mode = "snap"
    BY <2>2, <2>m, GotoIs
  <2> QED
    BY <1>1, <2>2, <2>3, SelfPass
<1>11. ASSUME Sweep(a) PROVE Self(a)'
  <2>1. PICK l : l = [Local0 EXCEPT !.mode = loc[a].mode]
    OBVIOUS
  <2>2. PICK m, n : m = [l EXCEPT !.todo = dirs] /\ n = [l EXCEPT !.todo = Keys]
    OBVIOUS
  <2>3. /\ UNCHANGED <<file, open>> /\ pc[a] = "sweep"
        /\ Goto(a, "rmdir", m) \/ Goto(a, "scan", n)
    BY <1>11, <2>1, <2>2 DEF Sweep
  <2>4. m.mode = loc[a].mode /\ n.mode = loc[a].mode
    BY <2>1, <2>2 DEF Local0
  <2>5. pc'[a] \in {"rmdir", "scan"} /\ loc'[a].mode = loc[a].mode
    BY <2>3, <2>4, GotoIs
  <2> QED
    BY <1>1, <2>3, <2>5, SelfPass
<1>12. ASSUME Rmdir(a) PROVE Self(a)'
  <2>1. UNCHANGED <<file, open>> /\ pc[a] = "rmdir" /\ loc[a] \in LocalAt(clock)
    BY <1>12, Holds DEF Rmdir, bytes
  <2>2. ASSUME NEW todo, NEW s \in {"rmdir", "scan"}, Goto(a, s, [loc[a] EXCEPT !.todo = todo]) PROVE Self(a)'
    <3>1. PICK l : l = [loc[a] EXCEPT !.todo = todo]
      OBVIOUS
    <3>2. l.mode = loc[a].mode
      BY <2>1, <3>1 DEF LocalAt
    <3>3. pc'[a] = s /\ loc'[a].mode = loc[a].mode
      BY <2>2, <3>1, <3>2, GotoIs
    <3> QED
      BY <1>1, <2>1, <3>3, SelfPass
  <2> QED
    BY <1>12, <2>2 DEF Rmdir
<1>13. ASSUME Scan(a) PROVE Self(a)'
  <2>1. UNCHANGED <<file, open>> /\ pc[a] = "scan" /\ loc[a] \in LocalAt(clock)
    BY <1>13, Holds DEF Scan, disk, bytes
  <2>2. PICK k : Goto(a, "scan", [loc[a] EXCEPT !.todo = @ \ {k}, !.snap[k] = file[k], !.total = @ + SizeOf(file[k])])
    BY <1>13 DEF Scan
  <2>3. PICK l : l = [loc[a] EXCEPT !.todo = @ \ {k}, !.snap[k] = file[k], !.total = @ + SizeOf(file[k])]
    OBVIOUS
  <2>4. l.mode = loc[a].mode
    BY <2>1, <2>3 DEF LocalAt
  <2>5. pc'[a] = "scan" /\ loc'[a].mode = loc[a].mode
    BY <2>2, <2>3, <2>4, GotoIs
  <2> QED
    BY <1>1, <2>1, <2>5, SelfPass
<1>14. ASSUME ScanDone(a) PROVE Self(a)'
  <2>1. UNCHANGED <<file, open>> /\ pc[a] = "scan" /\ loc[a] \in LocalAt(clock)
    BY <1>14, Holds DEF ScanDone, disk, bytes
  <2>2. PICK l : l = [loc[a] EXCEPT !.total = Counted(loc[a])]
    OBVIOUS
  <2>3. l.mode = loc[a].mode
    BY <2>1, <2>2 DEF LocalAt
  <2>4. Goto(a, "prune", loc[a]) \/ Goto(a, "evict", l) \/ Goto(a, "store", l)
    BY <1>14, <2>2 DEF ScanDone
  <2>5. pc'[a] \in {"prune", "evict", "store"} /\ loc'[a].mode = loc[a].mode
    BY <2>3, <2>4, GotoIs
  <2> QED
    BY <1>1, <2>1, <2>5, SelfPass
<1>15. ASSUME Evict(a) PROVE Self(a)'
  <2>1. UNCHANGED <<file, open>> /\ pc[a] = "evict" /\ loc[a] \in LocalAt(clock)
    BY <1>15, Holds DEF Evict, disk, bytes
  <2>2. PICK k : k = Oldest(loc[a])
    OBVIOUS
  <2>3. PICK l : l = [loc[a] EXCEPT !.key = k, !.size = loc[a].snap[k].size]
    OBVIOUS
  <2>4. PICK m : m = [loc[a] EXCEPT !.snap[k] = None, !.total = @ + SizeOf(file[k]) - loc[a].snap[k].size]
    OBVIOUS
  <2>5. l.mode = loc[a].mode /\ m.mode = loc[a].mode
    BY <2>1, <2>3, <2>4 DEF LocalAt
  <2>6. Goto(a, "store", loc[a]) \/ Goto(a, "unlink", l) \/ Goto(a, "evict", m)
    BY <1>15, <2>2, <2>3, <2>4 DEF Evict
  <2>7. pc'[a] \in {"store", "unlink", "evict"} /\ loc'[a].mode = loc[a].mode
    BY <2>5, <2>6, GotoIs
  <2> QED
    BY <1>1, <2>1, <2>7, SelfPass
<1>16. ASSUME Unlink(a) PROVE Self(a)'
  <2>1. pc[a] = "unlink" /\ loc[a] \in LocalAt(clock) /\ loc[a].mode \in {"enforce", "snap"}
    BY <1>16, Holds, ModeAt DEF Unlink
  <2>2. PICK k, t : k = loc[a].key /\ t = Unlinked(a)
    OBVIOUS
  <2>3. PICK l : l = [loc[a] EXCEPT !.snap[k] = None]
    OBVIOUS
  <2>4. PICK m : m = [loc[a] EXCEPT !.snap[k] = None, !.total = t]
    OBVIOUS
  <2>5. l.mode = loc[a].mode /\ m.mode = loc[a].mode
    BY <2>1, <2>3, <2>4 DEF LocalAt
  <2>6. Goto(a, "prune", l) \/ Goto(a, "evict", m)
    BY <1>16, <2>2, <2>3, <2>4 DEF Unlink
  <2>7. pc'[a] \in {"prune", "evict"} /\ loc'[a].mode \in {"enforce", "snap"}
    BY <2>1, <2>5, <2>6, GotoIs
  <2> QED
    BY <2>7 DEF Self, Serial, Quiet
<1>17. ASSUME Prune(a) \/ Store(a) PROVE Self(a)'
  BY <1>1, <1>2, <1>17, SelfPrune, SelfStore
<1>18. ASSUME Replace(a) \/ Account(a) \/ DeleteUnlink(a) \/ Forget(a) PROVE Self(a)'
  BY <1>1, <1>18, SelfReplace, SelfAccount, SelfDeleteUnlink, SelfForget
<1> QED
  BY <1>3, <1>4, <1>5, <1>6, <1>7, <1>8, <1>9, <1>10, <1>11, <1>12, <1>13, <1>14, <1>15, <1>16,
     <1>17, <1>18 DEF Step

\* A writer's temporary file is as large as what it is about to rename, and
\* nobody else has one.
TempIs == \A b \in Actors : temp[b] = IF pc[b] = "replace" THEN loc[b].size ELSE 0

\* Only writing and renaming touch temporary files.
LEMMA TempStep ==
    ASSUME Typed, TempIs, NEW a \in Actors, Step(a) PROVE TempIs'
<1>1. Elsewhere(a)
  BY StepElsewhere
<1>2. temp \in [Actors -> Sizes \cup {0}]
  BY DEF Typed, Disk
<1>3. CASE WriteTemp(a)
  <2>1. pc'[a] = "replace" /\ loc'[a] = loc[a] /\ temp' = [temp EXCEPT ![a] = loc[a].size]
    BY <1>3, GotoIs DEF WriteTemp
  <2> QED
    BY <1>1, <1>2, <2>1 DEF TempIs, Elsewhere
<1>4. CASE Replace(a)
  <2>1. pc'[a] # "replace" /\ temp' = [temp EXCEPT ![a] = 0]
    BY <1>4, GotoIs, ReturnIs DEF Replace
  <2> QED
    BY <1>1, <1>2, <2>1 DEF TempIs, Elsewhere
<1>5. ASSUME pc[a] # "replace", pc'[a] # "replace", temp' = temp PROVE TempIs'
  BY <1>1, <1>5 DEF TempIs, Elsewhere
<1>r. ASSUME pc[a] # "replace", temp' = temp, Return(a) PROVE TempIs'
  BY <1>5, <1>r, ReturnIs
<1>g. ASSUME pc[a] # "replace", temp' = temp, NEW s, NEW l, Goto(a, s, l), s # "replace" PROVE TempIs'
  BY <1>5, <1>g, GotoIs
<1>6. CASE \E k \in Keys : Get(a, k) \/ Delete(a, k) \/ \E size \in Sizes : Set(a, k, size)
  <2>1. /\ pc[a] # "replace" /\ temp' = temp
        /\ \E l : Goto(a, "read", l) \/ Goto(a, "delete", l) \/ Goto(a, "temp", l)
    BY <1>6 DEF Get, Delete, Set, Begin, disk, bytes
  <2> QED
    BY <2>1, <1>g
<1>7. CASE Read(a) \/ Touch(a) \/ OpenFd(a) \/ Fstat(a) \/ Utime(a) \/ WriteFails(a)
  BY <1>7, <1>g, <1>r DEF Read, Touch, OpenFd, Fstat, Utime, WriteFails, disk, bytes
<1>13. CASE Open(a) \/ Clear(a)
  <2>1. /\ pc[a] = "idle" /\ temp' = temp
        /\ \E l : Goto(a, "sweep", l) \/ Goto(a, "scan", l)
    <3>1. CASE Open(a)
      <4>1. Proc(a) = a[1] /\ a = <<a[1], a[2]>> /\ a[2] \in Threads
        BY DEF Actors, Proc
      <4>2. pc[a] = "idle"
        BY <3>1, <4>1 DEF Open
      <4> QED
        BY <3>1, <4>2 DEF Open, disk, bytes
    <3>2. CASE Clear(a)
      BY <3>2 DEF Clear, Begin, disk, bytes
    <3> QED
      BY <1>13, <3>1, <3>2
  <2> QED
    BY <2>1, <1>g
<1>8. CASE Account(a) \/ DeleteUnlink(a) \/ Forget(a) \/ Store(a)
  BY <1>8, <1>g, <1>r DEF Account, DeleteUnlink, Forget, Store, disk, bytes
<1>9. CASE Sweep(a) \/ Rmdir(a)
  BY <1>9, <1>g DEF Sweep, Rmdir, bytes
<1>10. CASE Scan(a) \/ ScanDone(a)
  BY <1>10, <1>g DEF Scan, ScanDone, disk, bytes
<1>11. CASE Evict(a) \/ Unlink(a)
  BY <1>11, <1>g DEF Evict, Unlink, disk, bytes
<1>12. CASE Prune(a)
  BY <1>12, <1>g DEF Prune, disk, bytes
<1> QED
  BY <1>3, <1>4, <1>6, <1>7, <1>8, <1>9, <1>10, <1>11, <1>12, <1>13 DEF Step

\* Before the first crash there are no leftovers, and no files before the first
\* process.
Untouched == crashes \in Nat /\ (crashes = 0 => young = 0 /\ old = 0 /\ (open = {} => NoFile))

\* Steps of threads leave no leftovers, and without a process there is no write.
LEMMA UntouchedStep ==
    ASSUME Typed, Untouched, NEW a \in Actors, Step(a) PROVE Untouched'
<1>1. crashes' = crashes /\ young' = young /\ (old' = old \/ old' = 0)
  BY DEF Step, Open, Clear, Get, Delete, Set, Read, Touch, OpenFd, Fstat, Utime, WriteTemp, WriteFails, Replace,
         Account, DeleteUnlink, Forget, Sweep, Rmdir, Scan, ScanDone, Evict, Prune, Unlink, Store,
         disk, bytes, bounds
<1>2. open \subseteq open'
  BY StepTyped DEF Stepped
<1>3. ASSUME open' = {}, NoFile PROVE NoFile'
  <2>1. ~ Replace(a)
    BY <1>2, <1>3, Holds, ModeAt DEF Replace
  <2>2. file \in FilesAt(clock)
    BY DEF Typed, Disk
  <2>3. CASE Utime(a)
    <3>1. loc[a].key \in Keys
      BY <2>3, Holds DEF Utime, Fits
    <3> QED
      BY <1>3, <2>3, <3>1 DEF Utime, NoFile
  <2>4. CASE DeleteUnlink(a) \/ Unlink(a)
    <3>1. PICK k : file' = [file EXCEPT ![k] = None]
      BY <2>4 DEF DeleteUnlink, Unlink, Removed
    <3> QED
      BY <1>3, <2>2, <3>1 DEF NoFile, FilesAt
  <2>5. CASE file' = file
    BY <1>3, <2>5 DEF NoFile
  <2> QED
    BY <2>1, <2>3, <2>4, <2>5
    DEF Step, Open, Clear, Get, Delete, Set, Read, Touch, OpenFd, Fstat, WriteTemp, WriteFails,
        Account, Forget, Sweep, Rmdir, Scan, ScanDone, Evict, Prune, Store, disk, bytes
<1> QED
  BY <1>1, <1>2, <1>3 DEF Untouched

\* At first there is nothing.
LEMMA SerialInit == Init => SerialInv
<1> SUFFICES ASSUME Init PROVE SerialInv
  OBVIOUS
<1>1. \A a \in Actors : pc[a] = "idle"
  BY DEF Init
<1>2. \A a \in Actors : Serial(a)
  BY <1>1 DEF Serial
<1>3. NoFile
  BY DEF Init, NoFile
<1> QED
  BY <1>1, <1>2, <1>3 DEF SerialInv, Init

\* The parts of the invariant.
LEMMA SerialIs ==
    ASSUME TempIs', Untouched', solo' => SoloAfter PROVE SerialInv'
  BY DEF TempIs, Untouched, SoloAfter, SerialInv

\* Every step keeps them.
LEMMA SerialNext == Typed /\ Typed' /\ PassInv /\ SerialInv /\ [Next]_vars => SerialInv'
<1> SUFFICES ASSUME Typed, Typed', PassInv, SerialInv, [Next]_vars PROVE SerialInv'
  OBVIOUS
<1>i. TempIs /\ Untouched
  BY DEF SerialInv, TempIs, Untouched
<1>1. ASSUME NEW a \in Actors, Step(a), Recorded(a) PROVE SerialInv'
  <2>1. TempIs' /\ Untouched'
    BY <1>i, <1>1, TempStep, UntouchedStep
  <2>2. ASSUME solo' PROVE SoloAfter
    BY <1>1, <2>2, SelfStep, SelfAfter, StepElsewhere
  <2> QED
    BY <2>1, <2>2, SerialIs
<1>2. ASSUME NEW p \in Procs, Crash(p), calm' = {}, UNCHANGED solo PROVE SerialInv'
  <2>1. /\ p \in open /\ crashes' = crashes + 1 /\ open' = open \ {p}
        /\ temp' = [a \in Actors |-> IF Proc(a) = p THEN 0 ELSE temp[a]]
        /\ pc' = [a \in Actors |-> IF Proc(a) = p THEN "idle" ELSE pc[a]]
        /\ loc' = [a \in Actors |-> IF Proc(a) = p THEN Local0 ELSE loc[a]]
    BY <1>2 DEF Crash
  <2>2. TempIs'
    BY <1>i, <2>1 DEF TempIs
  <2>3. Untouched'
    BY <1>i, <2>1 DEF Untouched
  <2>4. ASSUME solo' PROVE SoloAfter
    <3>1. open' = {}
      BY <1>2, <2>1, <2>4 DEF PassInv, Alone
    <3>2. ASSUME NEW b \in Actors PROVE pc'[b] = "idle"
      <4>1. pc[b] # "idle" => Proc(b) = p
        BY <1>2, <2>1, <2>4 DEF PassInv, Alone
      <4> QED
        BY <2>1, <4>1
    <3>3. \A b \in Actors : Serial(b)'
      BY <3>2 DEF Serial
    <3> QED
      BY <3>1, <3>3 DEF SoloAfter
  <2> QED
    BY <2>2, <2>3, <2>4, SerialIs
<1>3. ASSUME Age, UNCHANGED <<calm, solo>> PROVE SerialInv'
  <2>1. /\ UNCHANGED <<file, temp, open, tracker, pc, loc, crashes, solo>>
        /\ old' = old + young /\ young' = 0 /\ young > 0
    BY <1>3 DEF Age, bounds
  <2>2. Base' = Base
    BY <2>1, BaseType DEF Base, Typed, Disk
  <2>3. TempIs'
    BY <1>i, <2>1 DEF TempIs
  <2>4. Untouched'
    BY <1>i, <2>1 DEF Untouched
  <2>5. ASSUME solo' PROVE SoloAfter
    <3>1. \A p \in open' : Exact(p)' <=> Exact(p)
      BY <2>1, <2>2 DEF Exact
    <3>2. \A b \in Actors : Serial(b)' <=> Serial(b)
      BY <2>1, <2>2 DEF Serial, NoFile
    <3> QED
      BY <2>1, <2>5, <3>1, <3>2 DEF SerialInv, SoloAfter
  <2> QED
    BY <2>3, <2>4, <2>5, SerialIs
<1>4. CASE UNCHANGED vars
  <2>1. UNCHANGED <<file, temp, young, old, open, tracker, pc, loc, crashes, solo>>
    BY <1>4 DEF vars
  <2>2. Base' = Base
    BY <2>1, BaseSame
  <2>3. TempIs' /\ Untouched'
    BY <1>i, <2>1 DEF TempIs, Untouched, NoFile
  <2>5. ASSUME solo' PROVE SoloAfter
    <3>1. \A p \in open' : Exact(p)' <=> Exact(p)
      BY <2>1, <2>2 DEF Exact
    <3>2. \A b \in Actors : Serial(b)' <=> Serial(b)
      BY <2>1, <2>2 DEF Serial, NoFile
    <3> QED
      BY <2>1, <2>5, <3>1, <3>2 DEF SerialInv, SoloAfter
  <2> QED
    BY <2>3, <2>5, SerialIs
<1> QED
  BY <1>1, <1>2, <1>3, <1>4 DEF Next, Recorded

\* When operations do not overlap, in one process at a time, the tracker is what
\* the disk holds after each of them, whatever writes failed and processes
\* crashed; and before the first crash the disk never exceeds the cap.
THEOREM SequentialTracker == Spec => []SequentialExact
<1>1. Typed /\ SerialInv => SequentialExact
  <2> SUFFICES ASSUME Typed, SerialInv, solo, \A a \in Actors : pc[a] = "idle", NEW p \in open
               PROVE  tracker[p] = Actual /\ (crashes = 0 => Actual <= Cap)
    BY DEF SequentialExact
  <2>1. Exact(p)
    BY DEF SerialInv, Quiet
  <2>2. Actual = Base
    BY BaseIsAll DEF SerialInv, Typed
  <2> QED
    BY <2>1, <2>2 DEF Exact
<1>2. Spec => [](Typed /\ PassInv /\ SerialInv)
  BY TypedInit, TypedNext, PassInit, PassNext, SerialInit, SerialNext, PTL DEF Spec
<1> QED
  BY <1>1, <1>2, PTL
=============================================================================
