-------------------------------- MODULE Build ---------------------------------
(***************************************************************************)
(* One workspace, built again and again while somebody edits it: planning, *)
(* compiling and linking (services/build_service.c, build_compile.c,       *)
(* build_link.c) over the workspace database (workspace/wsdb.c), which     *)
(* decides what may be skipped.                                            *)
(*                                                                         *)
(* A content is a number and a hash of it is itself (no collisions).  A    *)
(* stamp is a file's (mtime, size): every write of a file advances it.  An *)
(* object is what the compiler read to make it; a binary is the objects it *)
(* was linked from.  One molto runs at a time: wsdb_open takes a lock that *)
(* the kernel drops when the process ends, so a second one is turned away. *)
(*                                                                         *)
(* What the developer does, and when, is the world's: the properties hold  *)
(* in some worlds and not in others, and a run names the ones it covers.   *)
(***************************************************************************)
EXTENDS Naturals, FiniteSets, Functions

CONSTANTS
  Sources,    \* the project's own sources
  Packages,   \* sources of fetched dependencies: never edited
  Headers,    \* headers that every project source includes
  Manifest,   \* the file the compile settings come from
  None,       \* no entry, no file
  Worlds,     \* the worlds a run covers: see WorldOK
  MaxEdits,   \* bound: edits the developer makes
  MaxFaults   \* bound: things that go wrong

Files == Sources \cup Packages \cup Headers \cup {Manifest}
Units == Sources \cup Packages
Phases == {"idle", "plan", "submit", "record", "absorb", "link", "prune", "close"}
Faults == {"crash", "save", "compile", "link", "clean"}
Contents == 1 .. (MaxEdits + 1)
Gone == 0        \* the content of a file that is not there

\* hours: in which phases of a build each kind of file may be edited.
WorldOK(w) ==
  /\ w.reverts \in BOOLEAN     \* a file may get back a content it had before, or
                               \* come back after it was removed
  /\ w.hours \in [{"source", "header", "manifest"} -> SUBSET Phases]
  /\ w.faults \in SUBSET Faults

ASSUME BoundsAssumption == MaxEdits \in Nat /\ MaxFaults \in Nat
ASSUME FilesAssumption == /\ Sources \cap Packages = {} /\ Headers \cap Units = {}
                          /\ Manifest \notin Units \cup Headers
ASSUME WorldsAssumption == \A w \in Worlds : WorldOK(w)

VARIABLES
  world, edits, faults,
  text, stamp,       \* [Files -> Contents \cup {Gone}], [Files -> Nat]
  obj,               \* [Units -> what the object was compiled from, or None]
  newer,             \* objects written since the binary was
  bin,               \* what the binary was linked from, or None
  disk,              \* the saved workspace database
  cache,             \* {<<package, command>>}: the shared object cache
  pc,                \* the phase molto is in, "idle" when none runs
  mem,               \* the database in its memory
  listed, command,   \* the units and the settings it read when it started
  pass, todo,        \* the pass it is in, what is left of the phase
  unit, sig,         \* how far each unit is; its source's stamp at submit
  forced, ok,        \* any_compiled; the result so far
  quiet              \* history: nobody has interfered since it started

filesVars == <<text, stamp>>
outVars == <<obj, newer, bin, cache>>
planVars == <<listed, command>>
vars == <<world, edits, faults, text, stamp, obj, newer, bin, disk, cache, pc,
          mem, listed, command, pass, todo, unit, sig, forced, ok, quiet>>

Prereqs(s) == IF s \in Packages THEN {s} ELSE {s} \cup Headers
PassUnits(p) == IF p = 1 THEN listed \cap Packages ELSE listed \cap Sources
Present == Packages \cup {s \in Sources : text[s] # Gone}
EmptyDb == [obj |-> [s \in Units |-> None], memo |-> [f \in Files |-> None],
            bin |-> None]

\* What compiling s with settings c makes, of the files as they are.
Compiled(s, c) == [cmd |-> c, text |-> [f \in Prereqs(s) |-> text[f]]]
Compilable(s) == \A f \in Prereqs(s) : text[f] # Gone

------------------------------------------------------------------------------
(* The workspace database                                                   *)

\* current_hash: the memo answers for a file whose stamp it has seen.
Hash(db, f) == IF text[f] # Gone /\ db.memo[f] # None /\ db.memo[f].stamp = stamp[f]
               THEN db.memo[f].hash ELSE text[f]

\* What asking for the hashes of fs leaves in the memo.
Remember(db, fs) ==
  [db EXCEPT !.memo = [f \in Files |-> IF f \in fs /\ text[f] # Gone
                                       THEN [stamp |-> stamp[f], hash |-> Hash(db, f)]
                                       ELSE @[f]]]

\* Slip: stale is judged against the memo every artifact shares.
ObjectFreshShared(db, s, c) ==
  LET e == db.obj[s] IN
  /\ e # None
  /\ e.cmd = c
  /\ obj[s] # None
  /\ DOMAIN e.hash = Prereqs(s)
  /\ \A f \in Prereqs(s) : text[f] # Gone /\ db.memo[f] # None
                           /\ db.memo[f].hash = text[f]

\* A prerequisite that was unreadable when the entry was made has no hash.
ObjectFresh(db, s, c) ==
  LET e == db.obj[s] IN
  /\ e # None
  /\ e.cmd = c
  /\ obj[s] # None
  /\ DOMAIN e.hash = Prereqs(s)
  /\ \A f \in Prereqs(s) : text[f] # Gone /\ Hash(db, f) = e.hash[f]

RecordObject(db, s, c) ==
  LET readable == {f \in Prereqs(s) : text[f] # Gone} IN
  [Remember(db, readable) EXCEPT
     !.obj[s] = [cmd |-> c, hash |-> [f \in readable |-> Hash(db, f)]]]

\* The link command names the objects, so the set of them is part of it.
BinaryFresh(db, c, objects) ==
  /\ db.bin = [cmd |-> c, objects |-> objects]
  /\ bin # None

\* Slip: what the last link left behind is trusted if its command is.
LinkNeededForced(db, c, objects, force) ==
  \/ force
  \/ ~BinaryFresh(db, c, objects)

LinkNeeded(db, c, objects, force) ==
  \/ force
  \/ ~BinaryFresh(db, c, objects)
  \/ \E s \in objects : s \in newer \/ obj[s] = None

------------------------------------------------------------------------------
(* Opening the workspace and planning                                       *)

Init ==
  /\ world \in Worlds
  /\ edits = 0 /\ faults = 0
  /\ text = [f \in Files |-> 1]
  /\ stamp = [f \in Files |-> 1]
  /\ obj = [s \in Units |-> None]
  /\ newer = {}
  /\ bin = None
  /\ disk = EmptyDb
  /\ cache = {}
  /\ pc = "idle"
  /\ mem = EmptyDb
  /\ listed = {} /\ command = 0
  /\ pass = 1 /\ todo = {}
  /\ unit = [s \in Units |-> "out"]
  /\ sig = [s \in Units |-> 0]
  /\ forced = FALSE /\ ok = TRUE
  /\ quiet = FALSE

\* A project with no source left is refused once the database is open.
NoSources ==
  /\ pc = "idle"
  /\ Present \cap Sources = {}
  /\ unit' = [s \in Units |-> "out"]
  /\ ok' = FALSE
  /\ quiet' = TRUE
  /\ UNCHANGED <<world, edits, faults, filesVars, outVars, disk, pc, mem, planVars,
                 pass, todo, sig, forced>>

Open ==
  /\ pc = "idle"
  /\ Present \cap Sources # {}
  /\ pc' = "plan"
  /\ mem' = disk
  /\ listed' = Present
  /\ command' = text[Manifest]
  /\ pass' = 1
  /\ todo' = Present
  /\ unit' = [s \in Units |-> "out"]
  /\ forced' = FALSE
  /\ ok' = TRUE
  /\ quiet' = TRUE
  /\ UNCHANGED <<world, edits, faults, filesVars, outVars, disk, sig>>

PlanFresh(s) ==
  /\ pc = "plan" /\ s \in todo
  /\ ObjectFresh(mem, s, command)
  /\ mem' = Remember(mem, Prereqs(s))
  /\ todo' = todo \ {s}
  /\ UNCHANGED <<world, edits, faults, filesVars, outVars, disk, pc, planVars, pass,
                 unit, sig, forced, ok, quiet>>

\* Prerequisites are hashed only for an entry that is otherwise good.
Looked(s) == IF /\ mem.obj[s] # None
                /\ mem.obj[s].cmd = command
                /\ obj[s] # None
             THEN Remember(mem, Prereqs(s)) ELSE mem

\* Another project compiled this package the same way: its object is copied.
PlanTake(s) ==
  /\ pc = "plan" /\ s \in todo
  /\ ~ObjectFresh(mem, s, command)
  /\ <<s, command>> \in cache
  /\ obj' = [obj EXCEPT ![s] = Compiled(s, command)]
  /\ newer' = newer \cup {s}
  /\ mem' = RecordObject(Looked(s), s, command)
  /\ todo' = todo \ {s}
  /\ UNCHANGED <<world, edits, faults, filesVars, bin, cache, disk, pc, planVars,
                 pass, unit, sig, forced, ok, quiet>>

PlanStale(s) ==
  /\ pc = "plan" /\ s \in todo
  /\ ~ObjectFresh(mem, s, command)
  /\ <<s, command>> \notin cache
  /\ mem' = Looked(s)
  /\ unit' = [unit EXCEPT ![s] = "need"]
  /\ todo' = todo \ {s}
  /\ UNCHANGED <<world, edits, faults, filesVars, outVars, disk, pc, planVars, pass,
                 sig, forced, ok, quiet>>

Needed(p) == {s \in PassUnits(p) : unit[s] = "need"}

PlanDone ==
  /\ pc = "plan" /\ todo = {}
  /\ pc' = "submit"
  /\ todo' = Needed(1)
  /\ UNCHANGED <<world, edits, faults, filesVars, outVars, disk, mem, planVars, pass,
                 unit, sig, forced, ok, quiet>>

------------------------------------------------------------------------------
(* One pass: submit to the pool, compile in parallel, record in turn        *)

\* fs_signature answers zero for a file that is not there.
Signature(s) == IF text[s] = Gone THEN 0 ELSE stamp[s]

Submit(s) ==
  /\ pc = "submit" /\ s \in todo
  /\ sig' = [sig EXCEPT ![s] = Signature(s)]
  /\ unit' = [unit EXCEPT ![s] = "submitted"]
  /\ todo' = todo \ {s}
  /\ UNCHANGED <<world, edits, faults, filesVars, outVars, disk, pc, mem, planVars,
                 pass, forced, ok, quiet>>

Blame(kind) ==
  /\ kind \in world.faults
  /\ faults < MaxFaults
  /\ faults' = faults + 1

\* No memory for the task: the units after it are not submitted either.
SubmitRefused(s) ==
  /\ pc = "submit" /\ s \in todo
  /\ Blame("compile")
  /\ unit' = [unit EXCEPT ![s] = "broken"]
  /\ todo' = {}
  /\ UNCHANGED <<world, edits, filesVars, outVars, disk, pc, mem, planVars, pass, sig,
                 forced, ok, quiet>>

\* The pool could not be created: the pass fails before it starts.
NoPool ==
  /\ pc = "submit" /\ todo # {}
  /\ \A s \in PassUnits(pass) : unit[s] \in {"out", "need"}
  /\ Blame("compile")
  /\ ok' = FALSE
  /\ pc' = "close"
  /\ todo' = {}
  /\ UNCHANGED <<world, edits, filesVars, outVars, disk, mem, planVars, pass, unit, sig,
                 forced, quiet>>

\* Some worker's compiler, which may run while others are still submitted.
Compile(s) ==
  /\ pc = "submit"
  /\ unit[s] = "submitted" /\ Compilable(s)
  /\ obj' = [obj EXCEPT ![s] = Compiled(s, command)]
  /\ newer' = newer \cup {s}
  /\ unit' = [unit EXCEPT ![s] = "built"]
  /\ UNCHANGED <<world, edits, faults, filesVars, bin, cache, disk, pc, mem, planVars,
                 pass, todo, sig, forced, ok, quiet>>

\* A compiler that fails leaves the old object, or deletes it.
CompileFails(s) ==
  /\ pc = "submit"
  /\ unit[s] = "submitted"
  /\ IF Compilable(s) THEN Blame("compile") ELSE faults' = faults
  /\ \E left \in {obj[s], None} : obj' = [obj EXCEPT ![s] = left]
  /\ unit' = [unit EXCEPT ![s] = "broken"]
  /\ UNCHANGED <<world, edits, filesVars, newer, bin, cache, disk, pc, mem, planVars,
                 pass, todo, sig, forced, ok, quiet>>

Tried == {s \in PassUnits(pass) : unit[s] \in {"built", "broken"}}
AllTried ==
  /\ pc = "submit" /\ todo = {}
  /\ \A s \in Units : unit[s] # "submitted"

\* Slip: a failed pass goes straight to the end, what it did compile unrecorded.
WaitPoolFailFast ==
  /\ AllTried
  /\ ok' = \A s \in Tried : unit[s] # "broken"
  /\ pc' = IF ok' THEN "record" ELSE "close"
  /\ todo' = IF ok' THEN Tried ELSE {}
  /\ forced' = (forced \/ Tried # {})
  /\ UNCHANGED <<world, edits, faults, filesVars, outVars, disk, mem, planVars, pass,
                 unit, sig, quiet>>

\* task_pool_wait and task_pool_destroy: every task has run.
WaitPool ==
  /\ AllTried
  /\ pc' = "record"
  /\ todo' = Tried
  /\ ok' = \A s \in Tried : unit[s] # "broken"
  /\ forced' = (forced \/ Tried # {})
  /\ UNCHANGED <<world, edits, faults, filesVars, outVars, disk, mem, planVars, pass,
                 unit, sig, quiet>>

\* Slip: nobody asks whether the source moved under the compiler.
CheckUnitNever(s) ==
  /\ pc = "record" /\ s \in todo
  /\ IF unit[s] = "built"
     THEN pc' = "absorb" /\ todo' = {s} \cup todo
          /\ unit' = [unit EXCEPT ![s] = "checked"]
     ELSE pc' = pc /\ unit' = unit /\ todo' = todo \ {s}
  /\ UNCHANGED <<world, edits, faults, filesVars, outVars, disk, mem, planVars, pass,
                 sig, forced, ok, quiet>>

\* A unit that failed, or whose source changed since it was submitted, is not
\* recorded; what the database said of its object before stays.
CheckUnit(s) ==
  /\ pc = "record" /\ s \in todo
  /\ IF unit[s] = "built" /\ Signature(s) = sig[s]
     THEN pc' = "absorb" /\ todo' = todo
          /\ unit' = [unit EXCEPT ![s] = "checked"]
     ELSE pc' = pc /\ unit' = unit /\ todo' = todo \ {s}
  /\ UNCHANGED <<world, edits, faults, filesVars, outVars, disk, mem, planVars, pass,
                 sig, forced, ok, quiet>>

\* The prerequisites are hashed as they are now, not as the compiler read them.
Absorb(s) ==
  /\ pc = "absorb" /\ unit[s] = "checked"
  /\ mem' = RecordObject(mem, s, command)
  /\ cache' = IF s \in Packages THEN cache \cup {<<s, command>>} ELSE cache
  /\ unit' = [unit EXCEPT ![s] = "recorded"]
  /\ todo' = todo \ {s}
  /\ pc' = "record"
  /\ UNCHANGED <<world, edits, faults, filesVars, obj, newer, bin, disk, planVars,
                 pass, sig, forced, ok, quiet>>

PassDone ==
  /\ pc = "record" /\ todo = {}
  /\ IF ~ok THEN pc' = "close" /\ UNCHANGED <<pass, todo>>
     ELSE IF pass = 1 THEN pc' = "submit" /\ pass' = 2 /\ todo' = Needed(2)
     ELSE pc' = "link" /\ UNCHANGED <<pass, todo>>
  /\ UNCHANGED <<world, edits, faults, filesVars, outVars, disk, mem, planVars, unit,
                 sig, forced, ok, quiet>>

------------------------------------------------------------------------------
(* Linking, pruning, saving                                                 *)

LinkSkipped ==
  /\ pc = "link"
  /\ ~LinkNeeded(mem, command, listed, forced)
  /\ pc' = "prune"
  /\ UNCHANGED <<world, edits, faults, filesVars, outVars, disk, mem, planVars, pass,
                 todo, unit, sig, forced, ok, quiet>>

Link ==
  /\ pc = "link"
  /\ LinkNeeded(mem, command, listed, forced)
  /\ \A s \in listed : obj[s] # None
  /\ bin' = [cmd |-> command, objs |-> [s \in listed |-> obj[s]]]
  /\ newer' = {}
  /\ mem' = [mem EXCEPT !.bin = [cmd |-> command, objects |-> listed]]
  /\ pc' = "prune"
  /\ UNCHANGED <<world, edits, faults, filesVars, obj, cache, disk, planVars, pass,
                 todo, unit, sig, forced, ok, quiet>>

\* A linker that fails leaves the old binary, or deletes it.
LinkFails ==
  /\ pc = "link"
  /\ LinkNeeded(mem, command, listed, forced)
  /\ IF \A s \in listed : obj[s] # None THEN Blame("link") ELSE faults' = faults
  /\ bin' \in {bin, None}
  /\ ok' = FALSE
  /\ pc' = "close"
  /\ UNCHANGED <<world, edits, filesVars, obj, newer, cache, disk, mem, planVars, pass,
                 todo, unit, sig, forced, quiet>>

\* Objects the database knows of whose source is no longer listed; a package's
\* are outside the pruned prefix.
Prune ==
  /\ pc = "prune"
  /\ LET orphans == {s \in Sources \ listed : mem.obj[s] # None} IN
     /\ obj' = [s \in Units |-> IF s \in orphans THEN None ELSE obj[s]]
     /\ mem' = [mem EXCEPT !.obj = [s \in Units |-> IF s \in orphans THEN None
                                                    ELSE mem.obj[s]]]
  /\ pc' = "close"
  /\ UNCHANGED <<world, edits, faults, filesVars, newer, bin, cache, disk, planVars,
                 pass, todo, unit, sig, forced, ok, quiet>>

\* The process is over.  What it held in memory means nothing any more; which
\* units it compiled and how it ended are kept for the properties.
Over ==
  /\ pc' = "idle"
  /\ mem' = EmptyDb
  /\ listed' = {} /\ command' = 0
  /\ pass' = 1 /\ todo' = {}
  /\ unit' = [s \in Units |->
               IF unit[s] \in {"built", "checked", "recorded"} THEN "built" ELSE "out"]
  /\ sig' = [s \in Units |-> 0]
  /\ forced' = FALSE
  /\ UNCHANGED <<world, edits, filesVars, ok>>

\* The new database is staged and renamed over the old one.
Close ==
  /\ pc = "close"
  /\ disk' = mem
  /\ Over
  /\ UNCHANGED <<outVars, faults, quiet>>

CloseUnsaved ==
  /\ pc = "close"
  /\ Blame("save")
  /\ quiet' = FALSE
  /\ Over
  /\ UNCHANGED <<outVars, disk>>

\* The process dies, and the compilers with it: the kernel drops the lock.
Crash ==
  /\ pc # "idle"
  /\ Blame("crash")
  /\ quiet' = FALSE
  /\ Over
  /\ UNCHANGED <<outVars, disk>>

------------------------------------------------------------------------------
(* The developer                                                            *)

Kind(f) == IF f \in Sources THEN "source" ELSE IF f \in Headers THEN "header"
           ELSE "manifest"

\* A write, or the removal of a source or a header.
Edit(f) ==
  /\ f \notin Packages
  /\ pc \in world.hours[Kind(f)]
  /\ world.reverts \/ text[f] # Gone
  /\ edits < MaxEdits
  /\ edits' = edits + 1
  /\ stamp' = [stamp EXCEPT ![f] = @ + 1]
  /\ \E t \in {stamp[f] + 1}
             \cup (IF world.reverts THEN 1 .. stamp[f] ELSE {})
             \cup (IF f = Manifest THEN {} ELSE {Gone}) :
       /\ t # text[f]
       /\ text' = [text EXCEPT ![f] = t]
  /\ quiet' = FALSE
  /\ UNCHANGED <<world, faults, outVars, disk, pc, mem, planVars, pass, todo, unit, sig,
                 forced, ok>>

\* molto clean, which takes no lock; with --all, while nobody builds, the
\* database goes too.
CleanRun(all) ==
  /\ Blame("clean")
  /\ all => pc = "idle"
  /\ obj' = [s \in Units |-> None]
  /\ newer' = {}
  /\ bin' = None
  /\ disk' = IF all THEN EmptyDb ELSE disk
  /\ quiet' = FALSE
  /\ UNCHANGED <<world, edits, filesVars, cache, pc, mem, planVars, pass, todo, unit,
                 sig, forced, ok>>

------------------------------------------------------------------------------
Plan == PlanDone \/ \E s \in Units : PlanFresh(s) \/ PlanTake(s) \/ PlanStale(s)
RunPass == NoPool \/ WaitPool \/ PassDone
           \/ \E s \in Units : Submit(s) \/ SubmitRefused(s) \/ Compile(s)
                               \/ CompileFails(s) \/ CheckUnit(s) \/ Absorb(s)
Finish == LinkSkipped \/ Link \/ LinkFails \/ Prune \/ Close

Molto == NoSources \/ Open \/ Plan \/ RunPass \/ Finish

Next ==
  \/ Molto
  \/ CloseUnsaved
  \/ Crash
  \/ \E f \in Files : Edit(f)
  \/ \E all \in BOOLEAN : CleanRun(all)

Spec == Init /\ [][Next]_vars

\* molto takes its next step, and somebody always runs it again.
FairSpec == Spec /\ WF_vars(Molto)

------------------------------------------------------------------------------
(* Properties                                                               *)

Entries == [cmd : Contents,
            hash : UNION {[fs -> Contents] : fs \in SUBSET Files}]
Snapshots == {[cmd |-> c, text |-> t] :
                c \in Contents, t \in UNION {[Prereqs(s) -> Contents] : s \in Units}}
Binaries == UNION {[cmd : Contents, objs : [objects -> Snapshots]] : objects \in SUBSET Units}
Memos == [stamp : 1 .. (MaxEdits + 1), hash : Contents]
Links == [cmd : Contents, objects : SUBSET Units]
Dbs == [obj : [Units -> Entries \cup {None}],
        memo : [Files -> Memos \cup {None}],
        bin : Links \cup {None}]

ASSUME NoneAssumption ==
  None \notin Entries /\ None \notin Snapshots /\ None \notin Binaries
  /\ None \notin Memos /\ None \notin Links

\* Every variable keeps its type.
TypeOK ==
  /\ world \in Worlds
  /\ edits \in 0 .. MaxEdits /\ faults \in 0 .. MaxFaults
  /\ text \in [Files -> Contents \cup {Gone}]
  /\ stamp \in [Files -> Contents]
  /\ obj \in [Units -> Snapshots \cup {None}]
  /\ newer \in SUBSET Units
  /\ bin \in Binaries \cup {None}
  /\ disk \in Dbs /\ mem \in Dbs
  /\ cache \in SUBSET (Packages \X Contents)
  /\ pc \in Phases
  /\ listed \in SUBSET Units /\ command \in Contents \cup {0}
  /\ pass \in {1, 2} /\ todo \in SUBSET Units
  /\ unit \in [Units -> {"out", "need", "submitted", "built", "broken", "checked",
                         "recorded"}]
  /\ sig \in [Units -> 0 .. (MaxEdits + 1)]
  /\ forced \in BOOLEAN /\ ok \in BOOLEAN /\ quiet \in BOOLEAN

Settings == IF pc = "idle" THEN text[Manifest] ELSE command
Database == IF pc = "idle" THEN disk ELSE mem
CleanBinary == [cmd |-> text[Manifest],
                objs |-> [s \in Present |-> Compiled(s, text[Manifest])]]

\* An object wsdb_object_fresh answers yes for is the one a compiler would make
\* now: what the database lets a build skip never needed doing.
FreshIsRight ==
  \A s \in Units : ObjectFresh(Database, s, Settings) => obj[s] = Compiled(s, Settings)

\* A build that reports success, and that nobody disturbed, leaves the binary a
\* build from nothing would: nothing stale is linked into it.
SuccessMeansCurrent ==
  pc \in {"close", "idle"} /\ ok /\ quiet => bin = CleanBinary

\* After such a build the next one has nothing to compile, nothing to link, and
\* its database speaks of the sources there are and of no other.
NothingToRedo ==
  pc = "idle" /\ ok /\ quiet =>
    /\ \A s \in Present : ObjectFresh(disk, s, Settings)
    /\ ~LinkNeeded(disk, Settings, Present, FALSE)
    /\ {s \in Units : disk.obj[s] # None} = Present

\* The units a failed build did compile are not compiled again by the next.
FailureKeepsWork ==
  pc = "idle" /\ quiet =>
    \A s \in Units : unit[s] = "built" => ObjectFresh(disk, s, Settings)

\* The hashes recorded with an object are those of the contents it was built
\* from: "the content hash each prerequisite had when this artifact was built".
RecordMatchesObject ==
  [][\A s \in Units :
       /\ pc \in {"plan", "absorb"} /\ pc' # "idle"
       /\ mem'.obj[s] # mem.obj[s] /\ obj'[s] # None
       => \A f \in DOMAIN mem'.obj[s].hash : mem'.obj[s].hash[f] = obj'[s].text[f]]_vars

\* Once the developer leaves the files alone, molto run again and again ends up
\* with the binary of what they say, whatever was edited, killed, cleaned or
\* refused on the way, unless they cannot be compiled.
Converges ==
  <>[]((Present \cap Sources # {} /\ \A s \in Present : Compilable(s))
         => bin = CleanBinary)

\* What is recorded of a build can be relied on, in memory and in the file: a unit that is found
\* fresh has the object a compiler would make of the files as they are (wsdb_object_fresh, run_pass).
RecordsAreSound == TypeOK /\ FreshIsRight

\* A build does what has to be done and no more: a second one finds nothing, and one that failed
\* does not lose what it compiled before.
NothingIsRedone == NothingToRedo /\ FailureKeepsWork
=============================================================================
