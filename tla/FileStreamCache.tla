---------------------------- MODULE FileStreamCache ----------------------------
(***************************************************************************)
(* FileStreamProgramCache (utils/_program_cache/_file_stream.py): compiled *)
(* programs as files of one directory, shared by processes without a lock. *)
(* A write stages a temporary file and renames it into place; an entry is  *)
(* evicted by least recent read when a process believes the directory to   *)
(* exceed its cap.  What it believes is a per-process tracker, kept up to  *)
(* date by the net change of each of its writes and re-seeded by scans.    *)
(*                                                                         *)
(* Every file-system call is a step, and so is every critical section of   *)
(* the tracker's lock.  POSIX only: the sharing violations of Windows and  *)
(* their retries are left out.  The identity of a file's content, its      *)
(* (ino, size, mtime_ns), is taken to differ from commit to commit.  Every *)
(* key has a directory of its own, named by the start of its digest.       *)
(*                                                                         *)
(* Bounds of the model: MaxOps operations and opens in all, MaxCrash       *)
(* crashes, MaxFail failing writes.                                        *)
(***************************************************************************)
EXTENDS Integers, FiniteSets, FiniteSetsExt

CONSTANTS
    Procs,      \* processes, each with one cache object on the directory
    Threads,    \* threads of a process
    Keys,       \* cache keys; a key is its path
    Sizes,      \* sizes of compiled programs
    Cap,        \* max_size_bytes
    MaxOps, MaxCrash, MaxFail,
    None        \* no file

ASSUME SizesArePositive == Sizes \subseteq Nat \ {0}
ASSUME CapIsPositive == Cap \in Nat \ {0}
ASSUME NoneIsNothing == None \notin Keys \cup [id : Nat, size : Sizes, at : Nat]
ASSUME InstanceIsFinite == IsFiniteSet(Procs) /\ IsFiniteSet(Threads) /\ IsFiniteSet(Keys)

Actors == Procs \X Threads
Proc(a) == a[1]

VARIABLES
    file,       \* file[k]: the committed entry, or None
    dirs,       \* keys whose directory exists
    temp,       \* temp[a]: size of the temporary file a is about to rename, or 0
    young, old, \* bytes of temporary files of crashed writers, recent and stale
    open,       \* processes whose cache object is in use
    tracker,    \* tracker[p]: _tracked_size_bytes
    pc, loc,    \* where each thread is, and its local variables
    clock,      \* stamps files and reads
    ops, crashes, fails,
    calm,       \* history: threads whose scan nobody has disturbed since it began
    solo        \* history: no two operations overlapped, no second process opened

vars == <<file, dirs, temp, young, old, open, tracker, pc, loc, clock, ops, crashes, fails,
          calm, solo>>

\* An entry: id stands for (ino, size, mtime_ns), at for st_atime.
File == [id : 1 .. clock, size : Sizes, at : 1 .. clock]

NoSnap == [k \in Keys |-> None]
Local0 == [key |-> None, size |-> 0, old |-> 0, id |-> 0, stamp |-> 0, fd |-> 0,
           mode |-> "none", todo |-> {}, snap |-> NoSnap, total |-> 0]

Steps == {"idle", "read", "touch", "open", "fstat", "utime", "temp", "replace", "account", "sweep", "scan", "sum",
          "evict", "unlink", "store", "prune", "rmdir", "delete", "forget"}
Modes == {"none", "open", "enforce", "snap", "recount"}

TypeOK ==
    /\ file \in [Keys -> File \cup {None}] /\ dirs \subseteq Keys
    /\ \A k \in Keys : file[k] # None => k \in dirs
    /\ temp \in [Actors -> Sizes \cup {0}]
    /\ young \in Nat /\ old \in Nat
    /\ open \subseteq Procs
    /\ tracker \in [Procs -> Int]
    /\ pc \in [Actors -> Steps]
    /\ calm \subseteq Actors /\ solo \in BOOLEAN
    /\ \A a \in Actors :
          /\ loc[a].key \in Keys \cup {None} /\ loc[a].mode \in Modes
          /\ loc[a].size \in Sizes \cup {0} /\ loc[a].old \in Sizes \cup {0}
          /\ loc[a].todo \subseteq Keys
          /\ loc[a].snap \in [Keys -> File \cup {None}]
          /\ loc[a].total \in Int
          /\ pc[a] # "idle" => Proc(a) \in open \/ loc[a].mode = "open"

Init ==
    /\ file = [k \in Keys |-> None] /\ dirs = {}
    /\ temp = [a \in Actors |-> 0]
    /\ young = 0 /\ old = 0
    /\ open = {}
    /\ tracker = [p \in Procs |-> 0]
    /\ pc = [a \in Actors |-> "idle"]
    /\ loc = [a \in Actors |-> Local0]
    /\ clock = 1 /\ ops = 0 /\ crashes = 0 /\ fails = 0
    /\ calm = {} /\ solo = TRUE

-----------------------------------------------------------------------------
SizeOf(f) == IF f = None THEN 0 ELSE f.size

\* _sum_tmp_sizes, and what _compute_total_size finds when nobody interferes.
TempBytes == SumFunction(temp) + young + old
Actual == SumFunction([k \in Keys |-> SizeOf(file[k])]) + TempBytes

Committed(k, size) == [file EXCEPT ![k] = [id |-> clock + 1, size |-> size, at |-> clock + 1]]
Removed_Truncates(k) == [file EXCEPT ![k] = IF @ = None THEN None ELSE [@ EXCEPT !.size = 0]]

Removed(k) == [file EXCEPT ![k] = None]

\* Thread a goes on to step s with locals l, or returns.
Goto(a, s, l) ==
    /\ pc' = [pc EXCEPT ![a] = s]
    /\ loc' = [loc EXCEPT ![a] = l]
Return(a) == Goto(a, "idle", Local0)

Begin(a) ==
    /\ pc[a] = "idle" /\ Proc(a) \in open
    /\ ops < MaxOps /\ ops' = ops + 1

bytes == <<file, temp, young, old>>
disk == <<bytes, dirs>>
bounds == <<ops, crashes, fails>>

-----------------------------------------------------------------------------
(* __getitem__                                                             *)

\* path.stat(); a miss returns at once.
Get(a, k) ==
    /\ Begin(a)
    /\ file[k] # None
    /\ Goto(a, "read", [Local0 EXCEPT !.key = k, !.id = file[k].id])
    /\ UNCHANGED <<disk, open, tracker, clock, crashes, fails>>

\* path.read_bytes(), which may find another file than stat did, or none.
Read(a) ==
    /\ pc[a] = "read"
    /\ IF file[loc[a].key] = None THEN Return(a) ELSE Goto(a, "touch", loc[a])
    /\ UNCHANGED <<disk, open, tracker, clock, bounds>>

\* _touch_atime: the time to write is taken before the path is opened.
Touch(a) ==
    /\ pc[a] = "touch"
    /\ clock' = clock + 1
    /\ Goto(a, "open", [loc[a] EXCEPT !.stamp = clock + 1])
    /\ UNCHANGED <<disk, open, tracker, bounds>>

\* os.open gets the file that is there now.
OpenFd(a) ==
    LET f == file[loc[a].key] IN
    /\ pc[a] = "open"
    /\ IF f = None THEN Return(a) ELSE Goto(a, "fstat", [loc[a] EXCEPT !.fd = f.id])
    /\ UNCHANGED <<disk, open, tracker, clock, bounds>>

\* The open file is touched only if it is the one that was read.
SameStat_Always(a) == TRUE

SameStat(a) == loc[a].fd = loc[a].id

Fstat(a) ==
    /\ pc[a] = "fstat"
    /\ IF SameStat(a) THEN Goto(a, "utime", loc[a]) ELSE Return(a)
    /\ UNCHANGED <<disk, open, tracker, clock, bounds>>

\* os.utime on the open file: nothing happens to a file that replaced it.
Utime(a) ==
    LET k == loc[a].key IN
    /\ pc[a] = "utime"
    /\ file' = IF file[k] # None /\ file[k].id = loc[a].fd
                 THEN [file EXCEPT ![k].at = loc[a].stamp] ELSE file
    /\ Return(a)
    /\ UNCHANGED <<dirs, temp, young, old, open, tracker, clock, bounds>>

-----------------------------------------------------------------------------
(* __setitem__                                                             *)

\* mkdir, then stat of the entry to be replaced.
Set(a, k, size) ==
    /\ Begin(a)
    /\ dirs' = dirs \cup {k}
    /\ Goto(a, "temp", [Local0 EXCEPT !.key = k, !.size = size, !.old = SizeOf(file[k])])
    /\ UNCHANGED <<bytes, open, tracker, clock, crashes, fails>>

WriteTemp(a) ==
    /\ pc[a] = "temp"
    /\ temp' = [temp EXCEPT ![a] = loc[a].size]
    /\ Goto(a, "replace", loc[a])
    /\ UNCHANGED <<file, dirs, young, old, open, tracker, clock, bounds>>

\* Writing, flushing or fsync fails: the temporary file goes, the call raises.
WriteFails(a) ==
    /\ pc[a] = "temp"
    /\ fails < MaxFail /\ fails' = fails + 1
    /\ Return(a)
    /\ UNCHANGED <<disk, open, tracker, clock, ops, crashes>>

\* os.replace, which raises if the directory is gone; the temporary file goes
\* either way.
Replace(a) ==
    /\ pc[a] = "replace"
    /\ temp' = [temp EXCEPT ![a] = 0]
    /\ IF loc[a].key \in dirs
         THEN /\ file' = Committed(loc[a].key, loc[a].size)
              /\ clock' = clock + 1
              /\ Goto(a, "account", loc[a])
         ELSE Return(a) /\ UNCHANGED <<file, clock>>
    /\ UNCHANGED <<dirs, young, old, open, tracker, bounds>>

\* The tracker takes the net change; over the cap the eviction pass follows.
NetChange_Gross(a) == loc[a].size

NetChange(a) == loc[a].size - loc[a].old

OverCap(t) == t > Cap

Account(a) ==
    LET t == tracker[Proc(a)] + NetChange(a) IN
    /\ pc[a] = "account"
    /\ tracker' = [tracker EXCEPT ![Proc(a)] = t]
    /\ IF OverCap(t) THEN Goto(a, "sweep", [Local0 EXCEPT !.mode = "enforce"]) ELSE Return(a)
    /\ UNCHANGED <<disk, open, clock, bounds>>

-----------------------------------------------------------------------------
(* __delitem__                                                             *)

Delete(a, k) ==
    /\ Begin(a)
    /\ file[k] # None
    /\ Goto(a, "delete", [Local0 EXCEPT !.key = k, !.size = file[k].size])
    /\ UNCHANGED <<disk, open, tracker, clock, crashes, fails>>

\* A file that vanished since makes it a miss.
DeleteUnlink(a) ==
    LET k == loc[a].key IN
    /\ pc[a] = "delete"
    /\ file' = Removed(k)
    /\ IF file[k] = None THEN Return(a) ELSE Goto(a, "forget", loc[a])
    /\ UNCHANGED <<dirs, temp, young, old, open, tracker, clock, bounds>>

Forget(a) ==
    LET p == Proc(a) IN
    /\ pc[a] = "forget"
    /\ tracker' = [tracker EXCEPT ![p] = Max({0, @ - loc[a].size})]
    /\ Return(a)
    /\ UNCHANGED <<disk, open, clock, bounds>>

-----------------------------------------------------------------------------
(* __init__, clear and _enforce_size_cap: sweep, scan, evict, re-seed.     *)

\* The constructor sweeps, and scans to seed the tracker.
Open(a) ==
    /\ Proc(a) \notin open
    /\ \A t \in Threads : pc[<<Proc(a), t>>] = "idle"
    /\ ops < MaxOps /\ ops' = ops + 1
    /\ Goto(a, "sweep", [Local0 EXCEPT !.mode = "open"])
    /\ UNCHANGED <<disk, open, tracker, clock, crashes, fails>>

\* clear first takes a snapshot of the entries.
Clear(a) ==
    /\ Begin(a)
    /\ Goto(a, "scan", [Local0 EXCEPT !.mode = "snap", !.todo = Keys])
    /\ UNCHANGED <<disk, open, tracker, clock, crashes, fails>>

\* _sweep_stale_tmp_files: recent ones may belong to a writer at work.  clear
\* then lists the directories.
Sweep(a) ==
    LET l == [Local0 EXCEPT !.mode = loc[a].mode] IN
    /\ pc[a] = "sweep"
    /\ old' = 0
    /\ IF l.mode = "recount" THEN Goto(a, "rmdir", [l EXCEPT !.todo = dirs])
       ELSE Goto(a, "scan", [l EXCEPT !.todo = Keys])
    /\ UNCHANGED <<file, dirs, temp, young, open, tracker, clock, bounds>>

\* clear removes directories that are empty by now.
Rmdir(a) ==
    LET l == loc[a] IN
    /\ pc[a] = "rmdir"
    /\ \/ /\ l.todo = {}
          /\ Goto(a, "scan", [l EXCEPT !.todo = Keys])
          /\ UNCHANGED dirs
       \/ \E k \in l.todo :
             /\ dirs' = IF file[k] = None THEN dirs \ {k} ELSE dirs
             /\ Goto(a, "rmdir", [l EXCEPT !.todo = @ \ {k}])
    /\ UNCHANGED <<bytes, open, tracker, clock, bounds>>

\* One entry of the directory, in whatever order it lists them.
Scan(a) ==
    LET l == loc[a] IN
    /\ pc[a] = "scan"
    /\ \E k \in l.todo :
          Goto(a, "scan", [l EXCEPT !.todo = @ \ {k}, !.snap[k] = file[k], !.total = @ + SizeOf(file[k])])
    /\ UNCHANGED <<disk, open, tracker, clock, bounds>>

\* The temporary files count as well; under the cap there is nothing to evict.
Counted_EntriesOnly(l) == l.total

Counted(l) == l.total + TempBytes

ScanDone(a) ==
    LET l == loc[a]
        total == Counted(l) IN
    /\ pc[a] = "scan" /\ l.todo = {}
    /\ CASE l.mode = "snap" -> Goto(a, "prune", l)
         [] l.mode = "enforce" /\ total > Cap -> Goto(a, "evict", [l EXCEPT !.total = total])
         [] OTHER -> Goto(a, "store", [l EXCEPT !.total = total])
    /\ UNCHANGED <<disk, open, tracker, clock, bounds>>

\* The entry of the snapshot read least recently.
Left(l) == {k \in Keys : l.snap[k] # None}
Oldest_BySize(l) == CHOOSE k \in Left(l) : \A m \in Left(l) : l.snap[k].size <= l.snap[m].size

Oldest(l) == CHOOSE k \in Left(l) : \A m \in Left(l) : l.snap[k].at <= l.snap[m].at

\* An entry that is gone, or was replaced, is left alone but accounted for.
Evict(a) ==
    LET l == loc[a]
        k == Oldest(l)
        same == file[k] # None /\ file[k].id = l.snap[k].id IN
    /\ pc[a] = "evict"
    /\ IF l.total <= Cap \/ Left(l) = {} THEN Goto(a, "store", l)
       ELSE IF same THEN Goto(a, "unlink", [l EXCEPT !.key = k, !.size = l.snap[k].size])
       ELSE Goto(a, "evict", [l EXCEPT !.snap[k] = None, !.total = @ + SizeOf(file[k]) - l.snap[k].size])
    /\ UNCHANGED <<disk, open, tracker, clock, bounds>>

\* _prune_if_stat_unchanged in clear, in any order.
Prune(a) ==
    LET l == loc[a] IN
    /\ pc[a] = "prune"
    /\ \/ /\ Left(l) = {}
          /\ Goto(a, "sweep", [Local0 EXCEPT !.mode = "recount"])
       \/ \E k \in Left(l) :
             IF file[k] # None /\ file[k].id = l.snap[k].id
               THEN Goto(a, "unlink", [l EXCEPT !.key = k])
               ELSE Goto(a, "prune", [l EXCEPT !.snap[k] = None])
    /\ UNCHANGED <<disk, open, tracker, clock, bounds>>

\* unlink removes what the path names now; finding nothing is no error.
Unlinked(a) == IF file[loc[a].key] = None THEN loc[a].total ELSE loc[a].total - loc[a].size

Unlink(a) ==
    LET l == loc[a] IN
    /\ pc[a] = "unlink"
    /\ file' = Removed(l.key)
    /\ IF l.mode = "snap" THEN Goto(a, "prune", [l EXCEPT !.snap[l.key] = None])
       ELSE Goto(a, "evict", [l EXCEPT !.snap[l.key] = None, !.total = Unlinked(a)])
    /\ UNCHANGED <<dirs, temp, young, old, open, tracker, clock, bounds>>

Store(a) ==
    /\ pc[a] = "store"
    /\ tracker' = [tracker EXCEPT ![Proc(a)] = loc[a].total]
    /\ open' = open \cup {Proc(a)}
    /\ Return(a)
    /\ UNCHANGED <<disk, clock, bounds>>

-----------------------------------------------------------------------------
(* Crashes and the age of what they leave behind.                          *)

Crash(p) ==
    /\ p \in open /\ crashes < MaxCrash
    /\ crashes' = crashes + 1
    /\ open' = open \ {p}
    /\ young' = young + SumFunctionOnSet(temp, {a \in Actors : Proc(a) = p})
    /\ temp' = [a \in Actors |-> IF Proc(a) = p THEN 0 ELSE temp[a]]
    /\ pc' = [a \in Actors |-> IF Proc(a) = p THEN "idle" ELSE pc[a]]
    /\ loc' = [a \in Actors |-> IF Proc(a) = p THEN Local0 ELSE loc[a]]
    /\ UNCHANGED <<file, dirs, old, tracker, clock, ops, fails>>

\* _TMP_STALE_AGE_SECONDS go by: longer than any write takes.
Age ==
    /\ young > 0
    /\ old' = old + young /\ young' = 0
    /\ UNCHANGED <<file, dirs, temp, open, tracker, pc, loc, clock, bounds>>

-----------------------------------------------------------------------------
Step(a) ==
    \/ Open(a) \/ Clear(a)
    \/ \E k \in Keys : Get(a, k) \/ Delete(a, k) \/ \E size \in Sizes : Set(a, k, size)
    \/ Read(a) \/ Touch(a) \/ OpenFd(a) \/ Fstat(a) \/ Utime(a)
    \/ WriteTemp(a) \/ WriteFails(a) \/ Replace(a) \/ Account(a)
    \/ DeleteUnlink(a) \/ Forget(a)
    \/ Sweep(a) \/ Rmdir(a) \/ Scan(a) \/ ScanDone(a) \/ Evict(a) \/ Prune(a) \/ Unlink(a) \/ Store(a)

\* Whose scan does a step of thread a leave undisturbed?
Undisturbed(a) ==
    {b \in calm : b = a \/ (bytes' = bytes /\ tracker'[Proc(b)] = tracker[Proc(b)])}

Next ==
    \/ \E a \in Actors :
          /\ Step(a)
          /\ calm' = Undisturbed(a) \cup (IF pc[a] = "sweep" THEN {a} ELSE {})
          /\ solo' = (solo /\ open' \subseteq {Proc(a)} /\ \A b \in Actors \ {a} : pc[b] = "idle")
    \/ \E p \in Procs : Crash(p) /\ calm' = {} /\ UNCHANGED solo
    \/ Age /\ UNCHANGED <<calm, solo>>

Spec == Init /\ [][Next]_vars

-----------------------------------------------------------------------------
(* Properties                                                              *)

\* "Cross-process drift self-corrects the next time eviction fires": whatever
\* the tracker was, a pass that nobody disturbs re-seeds it with what is on the
\* disk, and stops over the cap only when no entry is left.
PassReconciles ==
    \A a \in calm : pc[a] = "store" =>
        /\ loc[a].total = Actual
        /\ loc[a].mode = "enforce" /\ Actual > Cap => \A k \in Keys : file[k] = None

\* An undisturbed pass evicts only while the disk is over the cap, and of the
\* entries there are the one read or written least recently.
EvictsLeastRecent ==
    \A a \in calm : pc[a] = "unlink" /\ loc[a].mode = "enforce" =>
        /\ Actual > Cap
        /\ \A k \in Keys : file[k] # None => file[loc[a].key].at <= file[k].at

\* A reader that is late never makes a freshly committed entry look older than
\* its commit, although the time it writes was taken before the file was opened.
FreshIsRecent == \A k \in Keys : file[k] # None => file[k].at >= file[k].id

\* As long as operations do not overlap and one process uses the directory the
\* tracker is exact, and without leftovers of a crash the cap is hard.
SequentialExact ==
    solo /\ (\A a \in Actors : pc[a] = "idle") =>
        \A p \in open : tracker[p] = Actual /\ (crashes = 0 => Actual <= Cap)

=============================================================================
