-------------------------------- MODULE Fetch ---------------------------------
(***************************************************************************)
(* The cache of fetched sources (services/source_service.c, fetch_with):   *)
(* one directory of it, and the molto processes that find it complete or   *)
(* assemble it in a working directory beside it and move it into place.    *)
(* The cache belongs to the user, not to a project, and no lock covers it. *)
(*                                                                         *)
(* A directory is the set of its entries.  Other versions of a package and *)
(* other packages live in other directories.  The source is one that       *)
(* strips no prefix, so the tree is the working directory itself; a clone  *)
(* is an archive that never stays behind.  A crash takes the process's own *)
(* children with it.                                                       *)
(***************************************************************************)
EXTENDS Naturals, FiniteSets

CONSTANTS
  Procs,      \* molto processes
  Kept,       \* files of the source that its package ships
  Dropped,    \* files package_prune removes: tests, examples
  Manifest,   \* Project.toml
  Archive,    \* the downloaded file
  Stamp,      \* .molto-fetched
  Gone,       \* no directory
  Worlds,     \* the worlds a run covers: see WorldOK
  MaxFaults   \* bound: things that go wrong

Packed == Kept \cup Dropped
Entries == Packed \cup {Archive, Stamp}
Dirs == {"work", "dest"}
Kinds == {"plain", "carried"}   \* source_fetch, source_fetch_carried
Removals == {"clear", "replace", "sweep"}
Phases == {"out", "check", "make", "download", "open", "unpack", "prune", "rename",
           "stamp", "use"} \cup Removals

WorldOK(w) ==
  /\ w.kinds \in SUBSET Kinds
  /\ w.older \in BOOLEAN        \* a molto that did not prune filled the cache
  /\ w.faults \in SUBSET {"crash", "tear", "download", "unpack", "prune"}

\* The names differ, and what is pruned is never the manifest.
ASSUME NamesAssumption ==
  /\ Kept \cap Dropped = {} /\ Manifest \notin Dropped \cup {Archive, Stamp}
  /\ Archive \notin Packed \cup {Stamp} /\ Stamp \notin Packed
ASSUME GoneAssumption == Gone \notin Dirs /\ \A s \in SUBSET Entries : s # Gone
ASSUME FaultsAssumption == MaxFaults \in Nat
ASSUME WorldsAssumption == \A w \in Worlds : WorldOK(w)

VARIABLES
  world, faults,
  dir,      \* [Dirs -> SUBSET Entries, or Gone]
  stamp,    \* what the stamp of "dest" says: "none", "torn", "ok", "prune"
  pc, kind, \* where each process is, and what it fetches for
  todo,     \* what is left to remove or to unpack
  at,       \* the directory its tar writes to, which it follows when renamed
  good,     \* whether its fetch worked
  met       \* history: two fetches have overlapped

disk == <<dir, stamp>>
vars == <<world, faults, dir, stamp, pc, kind, todo, at, good, met>>

Needs(k) == IF k = "carried" /\ Manifest \in Packed THEN Kept ELSE Packed
StampText(k) == IF k = "carried" THEN "prune" ELSE "ok"

Holds(d, e) == dir[d] # Gone /\ e \in dir[d]

\* Slip: a stamp is a stamp, whatever it says.
CompleteAny(k) == Holds("dest", Stamp)

\* is_complete
Complete(k) ==
  /\ Holds("dest", Stamp)
  /\ \/ k = "plain"
     \/ ~Holds("dest", Manifest)
     \/ stamp = "prune"

Fetching(p) == pc[p] \notin {"out", "use"}

Init ==
  /\ world \in Worlds
  /\ faults = 0
  /\ dir = [d \in Dirs |-> IF d = "dest" /\ world.older THEN Packed \cup {Stamp} ELSE Gone]
  /\ stamp = IF world.older THEN "ok" ELSE "none"
  /\ pc = [p \in Procs |-> "out"]
  /\ kind = [p \in Procs |-> "plain"]
  /\ todo = [p \in Procs |-> {}]
  /\ at = [p \in Procs |-> Gone]
  /\ good = [p \in Procs |-> FALSE]
  /\ met = FALSE

------------------------------------------------------------------------------
(* Moving between the phases of one fetch                                    *)

Begin(p, k) ==
  /\ pc[p] = "out" /\ k \in world.kinds
  /\ pc' = [pc EXCEPT ![p] = "check"]
  /\ kind' = [kind EXCEPT ![p] = k]
  /\ met' = (met \/ \E q \in Procs : Fetching(q))
  /\ UNCHANGED <<world, faults, disk, todo, at, good>>

Blame(what) ==
  /\ what \in world.faults
  /\ faults < MaxFaults
  /\ faults' = faults + 1

Go(p, phase, list) ==
  /\ pc' = [pc EXCEPT ![p] = phase]
  /\ todo' = [todo EXCEPT ![p] = list]

\* fs_remove_tree starts by reading the directory, when there is one.
Remove(p, phase, d, after) ==
  IF dir[d] = Gone THEN Go(p, after, {}) ELSE Go(p, phase, dir[d])

After(result) == IF result THEN "use" ELSE "out"

\* fetch_with sweeps the working directory whatever came of the fetch.
Conclude(p, result) ==
  /\ good' = [good EXCEPT ![p] = result]
  /\ Remove(p, "sweep", "work", After(result))

\* What was writing to directory d now writes to e.
Follow(d, e) == at' = [q \in Procs |-> IF at[q] = d THEN e ELSE at[q]]

------------------------------------------------------------------------------
(* Looking, and clearing what an interrupted fetch left                     *)

Found(p) ==
  /\ pc[p] = "check"
  /\ Complete(kind[p])
  /\ Go(p, "use", {})
  /\ UNCHANGED <<world, faults, disk, kind, at, good, met>>

\* Slip: a working directory that is there is taken for somebody else's.
NotFoundBusy(p) ==
  /\ pc[p] = "check"
  /\ ~Complete(kind[p])
  /\ Go(p, IF dir["work"] = Gone THEN "make" ELSE "out", {})
  /\ UNCHANGED <<world, faults, disk, kind, at, good, met>>

NotFound(p) ==
  /\ pc[p] = "check"
  /\ ~Complete(kind[p])
  /\ Remove(p, "clear", "work", "make")
  /\ UNCHANGED <<world, faults, disk, kind, at, good, met>>

RemovedFrom(p) == IF pc[p] = "replace" THEN "dest" ELSE "work"

\* One file of the directory being removed; it may be gone already.
RemoveEntry(p, e) ==
  /\ pc[p] \in Removals /\ e \in todo[p]
  /\ LET d == RemovedFrom(p) IN
     /\ dir' = [dir EXCEPT ![d] = IF @ = Gone THEN Gone ELSE @ \ {e}]
     /\ stamp' = IF d = "dest" /\ e = Stamp THEN "none" ELSE stamp
  /\ todo' = [todo EXCEPT ![p] = @ \ {e}]
  /\ UNCHANGED <<world, faults, pc, kind, at, good, met>>

\* rmdir fails on a directory that somebody filled again, or removed.
Removed(p, phase, after) ==
  /\ pc[p] = phase /\ todo[p] = {}
  /\ dir[RemovedFrom(p)] = {}
  /\ dir' = [dir EXCEPT ![RemovedFrom(p)] = Gone]
  /\ Follow(RemovedFrom(p), Gone)
  /\ Go(p, after, {})
  /\ UNCHANGED <<world, faults, stamp, kind, good, met>>

NotRemoved(p, phase) ==
  /\ pc[p] = phase /\ todo[p] = {}
  /\ dir[RemovedFrom(p)] # {}

Cleared(p) == Removed(p, "clear", "make")

\* "could not clear": nothing was assembled, so nothing is swept.
ClearFails(p) ==
  /\ NotRemoved(p, "clear")
  /\ Go(p, "out", {})
  /\ UNCHANGED <<world, faults, disk, kind, at, good, met>>

------------------------------------------------------------------------------
(* Assembling                                                               *)

Make(p) ==
  /\ pc[p] = "make"
  /\ dir' = [dir EXCEPT !["work"] = IF @ = Gone THEN {} ELSE @]
  /\ Go(p, "download", {})
  /\ UNCHANGED <<world, faults, stamp, kind, at, good, met>>

Download(p) ==
  /\ pc[p] = "download"
  /\ dir["work"] # Gone
  /\ dir' = [dir EXCEPT !["work"] = @ \cup {Archive}]
  /\ Go(p, "open", {})
  /\ UNCHANGED <<world, faults, stamp, kind, at, good, met>>

\* The network, a checksum that differs, or no directory to write to.
DownloadFails(p) ==
  /\ pc[p] = "download"
  /\ \/ Blame("download")
     \/ dir["work"] = Gone /\ UNCHANGED faults
  /\ Conclude(p, FALSE)
  /\ UNCHANGED <<world, disk, kind, at, met>>

\* The checksum agrees, and tar is started in the working directory.
Open(p) ==
  /\ pc[p] = "open"
  /\ Holds("work", Archive)
  /\ Go(p, "unpack", Packed)
  /\ at' = [at EXCEPT ![p] = "work"]
  /\ UNCHANGED <<world, faults, disk, kind, good, met>>

OpenFails(p) ==
  /\ pc[p] = "open"
  /\ ~Holds("work", Archive)
  /\ Conclude(p, FALSE)
  /\ UNCHANGED <<world, faults, disk, kind, at, met>>

Extract(p, f) ==
  /\ pc[p] = "unpack" /\ f \in todo[p]
  /\ at[p] # Gone
  /\ dir' = [dir EXCEPT ![at[p]] = @ \cup {f}]
  /\ todo' = [todo EXCEPT ![p] = @ \ {f}]
  /\ UNCHANGED <<world, faults, stamp, pc, kind, at, good, met>>

UnpackFails(p) ==
  /\ pc[p] = "unpack" /\ todo[p] # {}
  /\ \/ Blame("unpack")
     \/ at[p] = Gone /\ UNCHANGED faults
  /\ Conclude(p, FALSE)
  /\ at' = [at EXCEPT ![p] = Gone]
  /\ UNCHANGED <<world, disk, kind, met>>

\* tar is done: the archive goes, by its path, and the tree must be there.
Unpacked(p) ==
  /\ pc[p] = "unpack" /\ todo[p] = {}
  /\ dir["work"] # Gone
  /\ dir' = [dir EXCEPT !["work"] = @ \ {Archive}]
  /\ at' = [at EXCEPT ![p] = Gone]
  /\ IF kind[p] = "carried" THEN Go(p, "prune", {}) ELSE Remove(p, "replace", "dest", "rename")
  /\ UNCHANGED <<world, faults, stamp, kind, good, met>>

UnpackedNowhere(p) ==
  /\ pc[p] = "unpack" /\ todo[p] = {}
  /\ dir["work"] = Gone
  /\ at' = [at EXCEPT ![p] = Gone]
  /\ Conclude(p, FALSE)
  /\ UNCHANGED <<world, faults, disk, kind, met>>

\* package_prune: a tree without a manifest is left as it is.
Prune(p) ==
  /\ pc[p] = "prune"
  /\ dir' = [dir EXCEPT !["work"] =
                IF Holds("work", Manifest) THEN @ \ (Dropped \cup {Archive}) ELSE @]
  /\ Remove(p, "replace", "dest", "rename")
  /\ UNCHANGED <<world, faults, stamp, kind, at, good, met>>

\* A manifest that cannot be read, or a file that cannot be removed after others were.
PruneFails(p) ==
  /\ pc[p] = "prune" /\ Holds("work", Manifest) /\ Blame("prune")
  /\ \E gone \in SUBSET Dropped : dir' = [dir EXCEPT !["work"] = @ \ gone]
  /\ Conclude(p, FALSE)
  /\ UNCHANGED <<world, stamp, kind, at, met>>

------------------------------------------------------------------------------
(* Installing                                                               *)

Replaced(p) == Removed(p, "replace", "rename")

ReplaceFails(p) ==
  /\ NotRemoved(p, "replace")
  /\ Conclude(p, FALSE)
  /\ UNCHANGED <<world, faults, disk, kind, at, met>>

CanRename == dir["work"] # Gone /\ dir["dest"] \in {Gone, {}}

\* rename replaces nothing but an empty directory.
Rename(p) ==
  /\ pc[p] = "rename"
  /\ CanRename
  /\ dir' = [d \in Dirs |-> IF d = "dest" THEN dir["work"] ELSE Gone]
  /\ at' = [q \in Procs |-> IF at[q] = "work" THEN "dest" ELSE Gone]
  /\ Go(p, "stamp", {})
  /\ UNCHANGED <<world, faults, stamp, kind, good, met>>

RenameFails(p) ==
  /\ pc[p] = "rename"
  /\ ~CanRename
  /\ Conclude(p, FALSE)
  /\ UNCHANGED <<world, faults, disk, kind, at, met>>

WriteStamp(p) ==
  /\ pc[p] = "stamp"
  /\ dir["dest"] # Gone
  /\ dir' = [dir EXCEPT !["dest"] = @ \cup {Stamp}]
  /\ stamp' = StampText(kind[p])
  /\ Conclude(p, TRUE)
  /\ UNCHANGED <<world, faults, kind, at, met>>

StampFails(p) ==
  /\ pc[p] = "stamp"
  /\ dir["dest"] = Gone
  /\ Conclude(p, FALSE)
  /\ UNCHANGED <<world, faults, disk, kind, at, met>>

Swept(p) == Removed(p, "sweep", After(good[p]))

\* What the last removal says is not asked.
SweepFails(p) ==
  /\ NotRemoved(p, "sweep")
  /\ Go(p, After(good[p]), {})
  /\ UNCHANGED <<world, faults, disk, kind, at, good, met>>

\* The build that asked for the source is over.
Leave(p) ==
  /\ pc[p] = "use"
  /\ Go(p, "out", {})
  /\ UNCHANGED <<world, faults, disk, kind, at, good, met>>

\* A stamp being written may be there and say nothing.
Crash(p) ==
  /\ Fetching(p)
  /\ Go(p, "out", {})
  /\ at' = [at EXCEPT ![p] = Gone]
  /\ \/ /\ Blame("crash")
        /\ UNCHANGED disk
     \/ /\ Blame("tear")
        /\ pc[p] = "stamp" /\ dir["dest"] # Gone
        /\ dir' = [dir EXCEPT !["dest"] = @ \cup {Stamp}]
        /\ stamp' = "torn"
  /\ UNCHANGED <<world, kind, good, met>>

Install(p) == Replaced(p) \/ ReplaceFails(p) \/ Rename(p) \/ RenameFails(p)
              \/ WriteStamp(p) \/ StampFails(p)
Assemble(p) == Make(p) \/ Download(p) \/ DownloadFails(p) \/ Open(p) \/ OpenFails(p)
               \/ (\E f \in Packed : Extract(p, f)) \/ UnpackFails(p) \/ Unpacked(p)
               \/ UnpackedNowhere(p) \/ Prune(p) \/ PruneFails(p)
Step(p) == Found(p) \/ NotFound(p) \/ (\E e \in Entries : RemoveEntry(p, e))
           \/ Cleared(p) \/ ClearFails(p) \/ Assemble(p) \/ Install(p)
           \/ Swept(p) \/ SweepFails(p)
Run(p) == \E k \in Kinds : Begin(p, k)
Next == \E p \in Procs : Run(p) \/ Step(p) \/ Leave(p) \/ Crash(p)

\* Processes make progress, builds end, and somebody builds again.
Fairness == \A p \in Procs : WF_vars(Step(p)) /\ WF_vars(Leave(p)) /\ WF_vars(Run(p))
Spec == Init /\ [][Next]_vars /\ Fairness

------------------------------------------------------------------------------
(* What the cache promises                                                  *)

\* Every variable keeps the type its comment gives.
TypeOK ==
  /\ faults \in 0 .. MaxFaults
  /\ dir \in [Dirs -> (SUBSET Entries) \cup {Gone}]
  /\ stamp \in {"none", "torn", "ok", "prune"}
  /\ pc \in [Procs -> Phases] /\ kind \in [Procs -> Kinds]
  /\ todo \in [Procs -> SUBSET Entries]
  /\ at \in [Procs -> Dirs \cup {Gone}] /\ good \in [Procs -> BOOLEAN]
  /\ (stamp = "none") = ~Holds("dest", Stamp)

\* The stamp is the only thing that makes a cached directory usable, because an
\* interrupted fetch leaves one that is missing files (STAMP_FILE's comment): a
\* tree that a process accepts when it looks holds what the process needs, and
\* nothing that an earlier fetch or the download left.
StampMeansWhole ==
  \A p \in Procs : pc[p] = "check" /\ Complete(kind[p]) =>
     dir["dest"] \ {Stamp} = Needs(kind[p])

\* The same, for as long as no two processes have fetched the source at once.
StampHolds == met \/ StampMeansWhole

\* And then a tree stays whole as long as a build that was given it uses it: no
\* reader ever sees a directory being filled or emptied (install's comment).
UsedIsWhole ==
  met \/ \A p \in Procs : pc[p] = "use" =>
           dir["dest"] # Gone /\ Needs(kind[p]) \subseteq dir["dest"]

\* Every fetch ends, whatever another process does to its directories.
FetchEnds == \A p \in Procs : Fetching(p) ~> ~Fetching(p)

\* However fetches fail and processes die, as long as they do so one at a time a
\* source that is missing is fetched by a later build.
Heals == []<>(met \/ \E p \in Procs : pc[p] = "use")

\* A source with its stamp is whole, and stays so while a build uses it.
SourceIsWhole == TypeOK /\ StampHolds /\ UsedIsWhole

\* Every fetch ends, and what is missing is there for a later build.
FetchesEnd == FetchEnds /\ Heals
=============================================================================
