----------------------------- MODULE Build_proofs -----------------------------
(***************************************************************************)
(* What is proved of Build for any sources, packages and headers, any      *)
(* number of edits and of things that go wrong: that what the database     *)
(* lets a build skip never needed doing, that a success is the binary a    *)
(* build from nothing would make, that nothing is redone, and that what is *)
(* recorded of an object is what it was made of.                           *)
(*                                                                         *)
(* They hold in two kinds of world, for two reasons.  In an onward world   *)
(* no content comes back, so that a record which is older than its object  *)
(* never fits the files again; anything may go wrong.  In a settled world  *)
(* contents come back, but none changes under the compiler and every build *)
(* saves its record, so that record and object agree.                      *)
(*                                                                         *)
(* And of Suite, what a build for the tests goes on to: that the tests are *)
(* linked as their manifest says, for any projects, and that what is run   *)
(* is what the sources say, after any edits and any builds that broke,     *)
(* where no executable of a shared suite has the path of another.          *)
(***************************************************************************)
EXTENDS Build, Suite, FiniteSetTheorems, TLAPS

Compiling == {"submit", "record", "absorb"}

Onward(w) ==
  /\ ~w.reverts
  /\ "absorb" \notin w.hours["source"]
  /\ w.hours["header"] \cap Compiling = {}

Settled(w) ==
  /\ (w.hours["source"] \cup w.hours["header"]) \cap Compiling = {}
  /\ w.faults \cap {"crash", "save"} = {}

------------------------------------------------------------------------------
(* The files, and what the database says of them                            *)

\* Contents and stamps move together; what never comes back has the content of its stamp.
FilesInv ==
  /\ \A f \in Files : text[f] <= stamp[f] /\ stamp[f] <= edits + 1
  /\ ~world.reverts => \A f \in Files : text[f] \in {Gone, stamp[f]}
  /\ \A s \in Packages : text[s] # Gone
  /\ text[Manifest] # Gone

\* The memo answers with the content of the stamp it has seen.
MemoTrue(db) ==
  \A f \in Files : db.memo[f] # None =>
    /\ db.memo[f].stamp <= stamp[f]
    /\ db.memo[f].stamp = stamp[f] => db.memo[f].hash = text[f]
MemoInv == MemoTrue(mem) /\ MemoTrue(disk)

\* An object is made of its own prerequisites, as they were.
ObjInv ==
  \A s \in Units : obj[s] # None =>
    /\ obj[s] \in [cmd : Contents, text : [Prereqs(s) -> Contents]]
    /\ \A f \in Prereqs(s) : obj[s].text[f] <= stamp[f]

\* So is what is recorded of one.
Shape(db) ==
  \A s \in Units : db.obj[s] # None =>
    /\ DOMAIN db.obj[s].hash \subseteq Prereqs(s)
    /\ \A f \in DOMAIN db.obj[s].hash : db.obj[s].hash[f] <= stamp[f]
ShapeInv == Shape(mem) /\ Shape(disk)

------------------------------------------------------------------------------
(* Where a build is                                                         *)

Busy == pc # "idle"

PhaseInv ==
  /\ ~Busy => mem = EmptyDb /\ todo = {} /\ listed = {}
  /\ Busy => /\ command \in Contents /\ command <= stamp[Manifest]
             /\ Packages \subseteq listed
             /\ \A s \in Units \ listed : unit[s] = "out"
  /\ pc = "plan" => /\ todo \subseteq listed /\ pass = 1 /\ ok
                    /\ \A s \in Units : unit[s] \in {"out", "need"}
                    /\ \A s \in todo : unit[s] = "out"
  /\ pc = "submit" => /\ todo \subseteq PassUnits(pass) /\ ok
                      /\ \A s \in todo : unit[s] = "need"
                      /\ \A s \in PassUnits(pass) :
                           unit[s] = "need" => \/ s \in todo
                                               \/ \E r \in PassUnits(pass) : unit[r] = "broken"
                      /\ \A s \in Units : unit[s] = "submitted" => s \in PassUnits(pass)
  /\ pc # "submit" => \A s \in Units : unit[s] # "submitted"
  /\ pc \in {"record", "absorb"} => /\ todo \subseteq PassUnits(pass)
                                    /\ ok => \A s \in PassUnits(pass) :
                                               unit[s] \notin {"need", "broken"}
                                    /\ \A s \in todo : unit[s] \in {"built", "broken", "checked"}
  /\ \A s \in Units : unit[s] = "checked" => pc = "absorb" /\ s \in todo
  /\ pc = "absorb" => \E s \in todo : \A r \in Units : unit[r] = "checked" <=> r = s
  /\ Busy /\ pass = 1 => \A s \in Sources : unit[s] \in {"out", "need"}
  /\ Busy /\ pass = 2 /\ pc # "close" => \A s \in Packages : unit[s] \in {"out", "built", "recorded"}
  /\ pc \in {"link", "prune"} => ok /\ pass = 2
  /\ pc \in {"link", "prune"} \/ (pc = "close" /\ ok) =>
       \A s \in Units : unit[s] \in {"out", "built", "recorded"}
  /\ Busy /\ quiet => listed = Present /\ command = text[Manifest]

\* Nobody has touched what is being compiled.
Still == quiet \/ Settled(world)

\* What the stamp taken at submit says of what the compiler read.
SigInv ==
  pc \in Compiling => \A s \in Units :
    /\ unit[s] = "submitted" => sig[s] <= stamp[s] /\ (sig[s] = 0 => text[s] = Gone)
    /\ unit[s] = "built" => /\ sig[s] > 0 /\ sig[s] <= stamp[s]
                            /\ Signature(s) = sig[s] => Compilable(s)
                            /\ Signature(s) = sig[s] /\ obj[s] # None =>
                                 obj[s] = Compiled(s, command)
    /\ unit[s] = "checked" => /\ Compilable(s)
                              /\ obj[s] # None => obj[s] = Compiled(s, command)

\* Every unit that was built, and that nobody touched, is recorded before the pass is over.
StillInv ==
  Still =>
    /\ pc \in Compiling =>
         \A s \in Units : unit[s] \in {"submitted", "built"} => Signature(s) = sig[s]
    /\ pc = "submit" => \A s \in Units : unit[s] = "built" => s \in PassUnits(pass)
    /\ pc \in {"record", "absorb"} => \A s \in Units : unit[s] = "built" => s \in todo
    /\ pc \in {"link", "prune", "close"} => \A s \in Units : unit[s] # "built"

------------------------------------------------------------------------------
(* Why a record can be relied on, in one kind of world and in the other     *)

Older(e, o) == e.cmd <= o.cmd /\ \A f \in DOMAIN e.hash : e.hash[f] <= o.text[f]
Matches(e, o) == e.cmd = o.cmd /\ \A f \in DOMAIN e.hash : e.hash[f] = o.text[f]
Scope == IF pc = "idle" THEN Present ELSE listed

\* No record is newer than the object or the binary it is about.
BehindObj(db) ==
  \A s \in Units : db.obj[s] # None =>
    /\ db.obj[s].cmd <= Settings
    /\ obj[s] # None => Older(db.obj[s], obj[s])
BehindBin(db) ==
  db.bin # None =>
    /\ db.bin.cmd <= Settings
    /\ Scope \subseteq db.bin.objects
    /\ bin # None => db.bin.cmd <= bin.cmd /\ DOMAIN bin.objs \subseteq db.bin.objects

OnwardObjInv ==
  Onward(world) =>
    /\ \A s \in Units : obj[s] # None => obj[s].cmd <= Settings
    /\ BehindObj(mem) /\ BehindObj(disk)

OnwardBinInv ==
  Onward(world) =>
    /\ Present \subseteq Scope
    /\ bin # None => bin.cmd <= Settings /\ Scope \subseteq DOMAIN bin.objs
    /\ BehindBin(mem) /\ BehindBin(disk)

\* The record is of the object there is, or the object is not recorded yet.
SettledObjInv ==
  Settled(world) => \A s \in Units : obj[s] # None /\ Database.obj[s] # None =>
    \/ pc \in Compiling /\ unit[s] \in {"built", "checked"}
    \/ Matches(Database.obj[s], obj[s])

SettledBinInv ==
  Settled(world) /\ bin # None => /\ Database.bin # None
                                 /\ Database.bin.cmd = bin.cmd
                                 /\ Database.bin.objects = DOMAIN bin.objs

------------------------------------------------------------------------------
(* What a build that nobody disturbs has done so far                        *)

FullEntry(s) == [cmd |-> command, hash |-> [f \in Prereqs(s) |-> text[f]]]
Through(s) == unit[s] = "recorded" \/ (unit[s] = "out" /\ ~(pc = "plan" /\ s \in todo))

WorkInv ==
  Busy /\ quiet => \A s \in listed :
    /\ Through(s) => /\ Compilable(s)
                     /\ obj[s] = Compiled(s, command)
                     /\ mem.obj[s] = FullEntry(s)
    /\ unit[s] \in {"built", "checked"} => obj[s] # None

\* An object that is not newer than the binary is the one in it.
BinInv ==
  bin # None => \A s \in DOMAIN bin.objs :
    s \notin newer /\ obj[s] # None => obj[s] = bin.objs[s]

Linked ==
  /\ bin = [cmd |-> command, objs |-> [s \in listed |-> obj[s]]]
  /\ mem.bin = [cmd |-> command, objects |-> listed]
  /\ newer \cap listed = {}

LinkedInv ==
  /\ quiet /\ (pc = "prune" \/ (pc = "close" /\ ok)) => Linked
  /\ quiet /\ pc = "close" /\ ok => \A s \in Units : mem.obj[s] # None => s \in listed

\* What such a build leaves.
IdleInv == pc = "idle" => SuccessMeansCurrent /\ NothingToRedo /\ FailureKeepsWork

\* The type invariant in four parts.
FilesOK ==
  /\ world \in Worlds /\ edits \in 0 .. MaxEdits /\ faults \in 0 .. MaxFaults
  /\ text \in [Files -> Contents \cup {Gone}]
  /\ stamp \in [Files -> Contents]
OutOK ==
  /\ obj \in [Units -> Snapshots \cup {None}]
  /\ newer \in SUBSET Units
  /\ bin \in Binaries \cup {None}
  /\ cache \in SUBSET (Packages \X Contents)
DbsOK == disk \in Dbs /\ mem \in Dbs
PlanOK ==
  /\ pc \in Phases
  /\ listed \in SUBSET Units /\ command \in Contents \cup {0}
  /\ pass \in {1, 2} /\ todo \in SUBSET Units
  /\ unit \in [Units -> {"out", "need", "submitted", "built", "broken", "checked",
                         "recorded"}]
  /\ sig \in [Units -> 0 .. (MaxEdits + 1)]
  /\ forced \in BOOLEAN /\ ok \in BOOLEAN /\ quiet \in BOOLEAN

IInv ==
  /\ Onward(world) \/ Settled(world)
  /\ FilesOK /\ OutOK /\ DbsOK /\ PlanOK
  /\ FilesInv /\ MemoInv /\ ObjInv /\ ShapeInv
  /\ PhaseInv /\ SigInv /\ StillInv
  /\ OnwardObjInv /\ OnwardBinInv /\ SettledObjInv /\ SettledBinInv
  /\ WorkInv /\ BinInv /\ LinkedInv /\ IdleInv

------------------------------------------------------------------------------
(* The database                                                             *)

\* The sets of the model, and where its files are.
LEMMA Sets ==
  /\ Contents \subseteq Nat \ {0} /\ Gone = 0 /\ Gone \notin Contents
  /\ \A s \in Units : s \in Files /\ s \in Prereqs(s) /\ Prereqs(s) \subseteq Files
  /\ Manifest \in Files /\ Packages \subseteq Units /\ Sources \subseteq Units
  /\ \A s \in Packages : Prereqs(s) = {s} /\ s \notin Sources
  /\ \A s \in Sources : Prereqs(s) = {s} \cup Headers
  BY BoundsAssumption, FilesAssumption DEF Contents, Gone, Units, Files, Prereqs

\* current_hash: the memo never hides what a file says.
LEMMA HashIsText ==
  ASSUME NEW db, MemoTrue(db), NEW f \in Files, text[f] # Gone
  PROVE  Hash(db, f) = text[f]
  BY DEF Hash, MemoTrue

LEMMA RememberIs ==
  ASSUME NEW db \in Dbs, MemoTrue(db), FilesOK, NEW fs
  PROVE  /\ Remember(db, fs) \in Dbs
         /\ MemoTrue(Remember(db, fs))
         /\ Remember(db, fs).obj = db.obj
         /\ Remember(db, fs).bin = db.bin
<1> DEFINE m == [f \in Files |-> IF f \in fs /\ text[f] # Gone
                                 THEN [stamp |-> stamp[f], hash |-> Hash(db, f)]
                                 ELSE db.memo[f]]
<1>1. Remember(db, fs) = [db EXCEPT !.memo = m]
  BY DEF Remember, Dbs
<1>2. ASSUME NEW f \in Files
      PROVE  /\ m[f] \in Memos \cup {None}
             /\ m[f] # None => /\ m[f].stamp <= stamp[f]
                               /\ m[f].stamp = stamp[f] => m[f].hash = text[f]
  <2>1. CASE f \in fs /\ text[f] # Gone
    <3>1. m[f] = [stamp |-> stamp[f], hash |-> text[f]]
      BY <2>1, HashIsText
    <3> QED
      BY <2>1, <3>1, BoundsAssumption DEF FilesOK, Memos, Contents
  <2>2. CASE ~(f \in fs /\ text[f] # Gone)
    <3>1. m[f] = db.memo[f]
      BY <2>2
    <3> QED
      BY <3>1 DEF Dbs, MemoTrue
  <2> QED
    BY <2>1, <2>2
<1>3. m \in [Files -> Memos \cup {None}]
  BY <1>2
<1>4. [db EXCEPT !.memo = m] \in Dbs
  BY <1>3 DEF Dbs
<1>5. [db EXCEPT !.memo = m].memo = m /\ [db EXCEPT !.memo = m].obj = db.obj
      /\ [db EXCEPT !.memo = m].bin = db.bin
  BY DEF Dbs
<1> HIDE DEF m
<1> QED
  BY <1>1, <1>2, <1>4, <1>5 DEF MemoTrue

Readable(s) == {f \in Prereqs(s) : text[f] # Gone}
Entry(s, c) == [cmd |-> c, hash |-> [f \in Readable(s) |-> text[f]]]

\* run_pass: what is recorded of an object is what its prerequisites say at that moment.
LEMMA RecordIs ==
  ASSUME NEW db \in Dbs, MemoTrue(db), FilesOK, NEW s \in Units, NEW c \in Contents
  PROVE  /\ RecordObject(db, s, c) \in Dbs
         /\ MemoTrue(RecordObject(db, s, c))
         /\ RecordObject(db, s, c).obj = [db.obj EXCEPT ![s] = Entry(s, c)]
         /\ RecordObject(db, s, c).bin = db.bin
         /\ Entry(s, c) \in Entries
<1> DEFINE r == Remember(db, Readable(s))
           e == [cmd |-> c, hash |-> [f \in Readable(s) |-> Hash(db, f)]]
<1>1. RecordObject(db, s, c) = [r EXCEPT !.obj[s] = e]
  BY DEF RecordObject, Readable
<1>2. r \in Dbs /\ MemoTrue(r) /\ r.obj = db.obj /\ r.bin = db.bin
  BY RememberIs
<1>3. e = Entry(s, c)
  BY HashIsText, Sets DEF Entry, Readable
<1>4. Entry(s, c) \in Entries
  <2>1. Readable(s) \in SUBSET Files
    BY Sets DEF Readable
  <2>2. [f \in Readable(s) |-> text[f]] \in [Readable(s) -> Contents]
    BY Sets DEF FilesOK, Readable
  <2> QED
    BY <2>1, <2>2 DEF Entry, Entries
<1> HIDE DEF r, e
<1>5. /\ [r EXCEPT !.obj[s] = e] \in Dbs
      /\ [r EXCEPT !.obj[s] = e].obj = [r.obj EXCEPT ![s] = e]
      /\ [r EXCEPT !.obj[s] = e].bin = r.bin
      /\ [r EXCEPT !.obj[s] = e].memo = r.memo
  BY <1>2, <1>3, <1>4 DEF Dbs
<1> QED
  BY <1>1, <1>2, <1>3, <1>4, <1>5 DEF MemoTrue

------------------------------------------------------------------------------
(* Types                                                                    *)

LEMMA TypeInParts == TypeOK <=> FilesOK /\ OutOK /\ DbsOK /\ PlanOK
  BY DEF TypeOK, FilesOK, OutOK, DbsOK, PlanOK

\* What a compiler makes, of files that are there.
LEMMA CompiledIs ==
  ASSUME FilesOK, NEW s \in Units, Compilable(s), NEW c \in Contents
  PROVE  /\ Compiled(s, c) \in Snapshots
         /\ Compiled(s, c) \in [cmd : Contents, text : [Prereqs(s) -> Contents]]
         /\ Compiled(s, c) # None
<1>1. [f \in Prereqs(s) |-> text[f]] \in [Prereqs(s) -> Contents]
  BY Sets DEF FilesOK, Compilable
<1>2. Compiled(s, c) \in Snapshots
  <2> DEFINE t == [f \in Prereqs(s) |-> text[f]]
  <2>1. t \in UNION {[Prereqs(r) -> Contents] : r \in Units}
    BY <1>1
  <2>2. Compiled(s, c) = [cmd |-> c, text |-> t]
    BY DEF Compiled
  <2> HIDE DEF t
  <2> QED
    BY <2>1, <2>2 DEF Snapshots
<1> QED
  BY <1>1, <1>2, NoneAssumption DEF Compiled

\* A package is always there.
LEMMA PackageThere == FilesInv => \A s \in Packages : Compilable(s)
  BY Sets DEF FilesInv, Compilable

\* The files keep their types: each edit moves one stamp, and there are at most MaxEdits.
LEMMA FilesTypeStep == IInv /\ [Next]_vars => FilesOK'
<1> SUFFICES ASSUME IInv, [Next]_vars PROVE FilesOK'
  OBVIOUS
<1> USE BoundsAssumption DEF Contents
<1>1. ASSUME NEW f \in Files, Edit(f) PROVE FilesOK'
  BY <1>1 DEF Edit, IInv, FilesOK, FilesInv
<1>2. ASSUME NEW s \in Units, SubmitRefused(s) PROVE FilesOK'
  BY <1>2 DEF SubmitRefused, Blame, IInv, FilesOK, filesVars
<1>3. CASE NoPool
  BY <1>3 DEF NoPool, Blame, IInv, FilesOK, filesVars
<1>4. ASSUME NEW s \in Units, CompileFails(s) PROVE FilesOK'
  BY <1>4 DEF CompileFails, Blame, IInv, FilesOK, filesVars
<1>5. CASE LinkFails
  BY <1>5 DEF LinkFails, Blame, IInv, FilesOK, filesVars
<1>6. CASE CloseUnsaved
  BY <1>6 DEF CloseUnsaved, Over, Blame, IInv, FilesOK, filesVars
<1>7. CASE Crash
  BY <1>7 DEF Crash, Over, Blame, IInv, FilesOK, filesVars
<1>8. ASSUME NEW all \in BOOLEAN, CleanRun(all) PROVE FilesOK'
  BY <1>8 DEF CleanRun, Blame, IInv, FilesOK, filesVars
<1>9. CASE UNCHANGED <<world, edits, faults, text, stamp>>
  BY <1>9 DEF IInv, FilesOK
<1> QED
  BY <1>1, <1>2, <1>3, <1>4, <1>5, <1>6, <1>7, <1>8, <1>9
  DEF Next, Molto, Plan, RunPass, Finish, PlanFresh, PlanTake, PlanStale, Submit, Compile,
      CheckUnit, Absorb, NoSources, Open, PlanDone, WaitPool, PassDone, LinkSkipped, Link,
      Prune, Close, Over, filesVars, vars

\* So do the outputs: what is put in an object is a snapshot, in a binary the objects.
LEMMA OutTypeStep == IInv /\ [Next]_vars => OutOK'
<1> SUFFICES ASSUME IInv, [Next]_vars PROVE OutOK'
  OBVIOUS
<1>a. Busy => command \in Contents
  BY DEF IInv, PhaseInv
<1>1. ASSUME NEW s \in Units, PlanTake(s) PROVE OutOK'
  <2>1. command \in Contents /\ s \in Packages
    BY <1>a, <1>1 DEF PlanTake, Busy, IInv, OutOK
  <2>2. Compiled(s, command) \in Snapshots
    BY <2>1, PackageThere, CompiledIs DEF IInv
  <2> QED
    BY <1>1, <2>2 DEF PlanTake, IInv, OutOK, filesVars
<1>2. ASSUME NEW s \in Units, Compile(s) PROVE OutOK'
  <2>1. Compiled(s, command) \in Snapshots
    BY <1>a, <1>2, CompiledIs DEF Compile, Busy, IInv
  <2> QED
    BY <1>2, <2>1 DEF Compile, IInv, OutOK, filesVars
<1>3. ASSUME NEW s \in Units, CompileFails(s) PROVE OutOK'
  BY <1>3, <1>a DEF CompileFails, IInv, OutOK
<1>4. ASSUME NEW s \in Units, Absorb(s) PROVE OutOK'
  <2>1. command \in Contents
    BY <1>a, <1>4 DEF Absorb, Busy
  <2> QED
    BY <1>4, <2>1 DEF Absorb, IInv, OutOK, filesVars
<1>5. CASE Link
  <2>1. command \in Contents /\ listed \in SUBSET Units
    BY <1>a, <1>5 DEF Link, Busy, IInv, PlanOK
  <2>2. [s \in listed |-> obj[s]] \in [listed -> Snapshots]
    BY <1>5, <2>1 DEF Link, IInv, OutOK
  <2>3. bin' \in Binaries
    BY <1>5, <2>1, <2>2 DEF Link, Binaries
  <2> QED
    BY <1>5, <2>3 DEF Link, IInv, OutOK
<1>6. CASE LinkFails
  BY <1>6, <1>a DEF LinkFails, IInv, OutOK
<1>7. CASE Prune
  BY <1>7, <1>a DEF Prune, IInv, OutOK
<1>8. ASSUME NEW all \in BOOLEAN, CleanRun(all) PROVE OutOK'
  BY <1>8, <1>a DEF CleanRun, IInv, OutOK
<1>9. CASE UNCHANGED <<obj, newer, bin, cache>>
  BY <1>9 DEF IInv, OutOK
<1> QED
  BY <1>1, <1>2, <1>3, <1>4, <1>5, <1>6, <1>7, <1>8, <1>9
  DEF Next, Molto, Plan, RunPass, Finish, PlanFresh, PlanStale, Submit, SubmitRefused,
      CheckUnit, NoSources, Open, PlanDone, NoPool, WaitPool, PassDone, LinkSkipped, Close,
      CloseUnsaved, Crash, Edit, outVars, vars

\* After a build nothing is submitted.
LEMMA OverTypes ==
  ASSUME Over
  PROVE  unit' \in [Units -> {"built", "out"}] /\ sig' \in [Units -> 0 .. (MaxEdits + 1)]
<1>1. 0 \in 0 .. (MaxEdits + 1)
  BY BoundsAssumption
<1> QED
  BY <1>1 DEF Over

\* And so does what molto holds of the build it is in.
LEMMA PlanTypeStep == IInv /\ [Next]_vars => PlanOK'
<1> SUFFICES ASSUME IInv, [Next]_vars PROVE PlanOK'
  OBVIOUS
<1> USE Sets DEF IInv, PlanOK, Phases
<1>1. ASSUME NEW s \in Units, PlanFresh(s) PROVE PlanOK'
  BY <1>1 DEF PlanFresh, planVars
<1>2. ASSUME NEW s \in Units, PlanTake(s) PROVE PlanOK'
  BY <1>2 DEF PlanTake, planVars
<1>3. ASSUME NEW s \in Units, PlanStale(s) PROVE PlanOK'
  BY <1>3 DEF PlanStale, planVars
<1>4. ASSUME NEW s \in Units, Submit(s) PROVE PlanOK'
  <2>1. stamp[s] \in Contents
    BY DEF FilesOK
  <2>2. Signature(s) \in 0 .. (MaxEdits + 1)
    BY <2>1, BoundsAssumption DEF Signature, Contents
  <2> QED
    BY <1>4, <2>2 DEF Submit, planVars
<1>5. ASSUME NEW s \in Units, SubmitRefused(s) PROVE PlanOK'
  BY <1>5 DEF SubmitRefused, Blame, planVars
<1>6. ASSUME NEW s \in Units, Compile(s) PROVE PlanOK'
  BY <1>6 DEF Compile, planVars
<1>7. ASSUME NEW s \in Units, CompileFails(s) PROVE PlanOK'
  BY <1>7 DEF CompileFails, planVars
<1>8. ASSUME NEW s \in Units, CheckUnit(s) PROVE PlanOK'
  BY <1>8 DEF CheckUnit, FilesOK, planVars
<1>9. ASSUME NEW s \in Units, Absorb(s) PROVE PlanOK'
  BY <1>9 DEF Absorb, planVars
<1>10. CASE NoSources
  BY <1>10 DEF NoSources, FilesOK, planVars
<1>11. CASE Open
  <2>1. text[Manifest] \in Contents
    BY DEF FilesOK, FilesInv
  <2> QED
    BY <1>11, <2>1 DEF Open, Present, Units
<1>12. CASE PlanDone
  BY <1>12 DEF PlanDone, FilesOK, Needed, PassUnits, planVars
<1>13. CASE NoPool
  BY <1>13 DEF NoPool, Blame, planVars
<1>14. CASE WaitPool
  BY <1>14 DEF WaitPool, Tried, PassUnits, planVars
<1>15. CASE PassDone
  BY <1>15 DEF PassDone, FilesOK, Needed, PassUnits, planVars
<1>16. CASE LinkSkipped
  BY <1>16 DEF LinkSkipped, planVars
<1>17. CASE Link
  BY <1>17 DEF Link, planVars
<1>18. CASE LinkFails
  BY <1>18 DEF LinkFails, planVars
<1>19. CASE Prune
  BY <1>19 DEF Prune, planVars
<1>20. CASE Close
  <2>1. unit' \in [Units -> {"built", "out"}] /\ sig' \in [Units -> 0 .. (MaxEdits + 1)]
    BY <1>20, OverTypes DEF Close
  <2> QED
    BY <1>20, <2>1 DEF Close, Over
<1>21. CASE CloseUnsaved
  <2>1. unit' \in [Units -> {"built", "out"}] /\ sig' \in [Units -> 0 .. (MaxEdits + 1)]
    BY <1>21, OverTypes DEF CloseUnsaved
  <2> QED
    BY <1>21, <2>1 DEF CloseUnsaved, Over
<1>22. CASE Crash
  <2>1. unit' \in [Units -> {"built", "out"}] /\ sig' \in [Units -> 0 .. (MaxEdits + 1)]
    BY <1>22, OverTypes DEF Crash
  <2> QED
    BY <1>22, <2>1 DEF Crash, Over
<1>23. ASSUME NEW f \in Files, Edit(f) PROVE PlanOK'
  BY <1>23 DEF Edit, planVars
<1>24. ASSUME NEW all \in BOOLEAN, CleanRun(all) PROVE PlanOK'
  BY <1>24 DEF CleanRun, planVars
<1>25. CASE UNCHANGED <<pc, listed, command, pass, todo, unit, sig, forced, ok, quiet>>
  BY <1>25 DEF IInv, PlanOK
<1> HIDE DEF IInv, PlanOK, Phases
<1> QED
  BY <1>1, <1>2, <1>3, <1>4, <1>5, <1>6, <1>7, <1>8, <1>9, <1>10, <1>11, <1>12, <1>13, <1>14,
     <1>15, <1>16, <1>17, <1>18, <1>19, <1>20, <1>21, <1>22, <1>23, <1>24, <1>25
  DEF Next, Molto, Plan, RunPass, Finish, vars

\* A database that has seen nothing.
LEMMA EmptyDbIs == EmptyDb \in Dbs /\ MemoTrue(EmptyDb)
  BY DEF EmptyDb, Dbs, MemoTrue

LEMMA LookedIs ==
  ASSUME IInv, NEW s \in Units
  PROVE  /\ Looked(s) \in Dbs /\ MemoTrue(Looked(s))
         /\ Looked(s).obj = mem.obj /\ Looked(s).bin = mem.bin
  BY RememberIs DEF Looked, IInv, DbsOK, MemoInv

\* What a record in memory becomes when a unit is planned or recorded.
LEMMA TakeIs ==
  ASSUME IInv, NEW s \in Units, PlanTake(s)
  PROVE  /\ mem' \in Dbs /\ MemoTrue(mem') /\ mem'.bin = mem.bin
         /\ mem'.obj = [mem.obj EXCEPT ![s] = Entry(s, command)]
         /\ Entry(s, command) \in Entries
         /\ command \in Contents /\ s \in Packages /\ Compilable(s)
<1>1. command \in Contents /\ s \in Packages
  BY DEF PlanTake, IInv, PhaseInv, Busy, OutOK
<1>2. MemoTrue(mem')
  BY <1>1, LookedIs, RecordIs DEF IInv, PlanTake
<1> QED
  BY <1>1, LookedIs, RecordIs, PackageThere DEF IInv, PlanTake

LEMMA AbsorbIs ==
  ASSUME IInv, NEW s \in Units, Absorb(s)
  PROVE  /\ mem' \in Dbs /\ MemoTrue(mem') /\ mem'.bin = mem.bin
         /\ mem'.obj = [mem.obj EXCEPT ![s] = Entry(s, command)]
         /\ Entry(s, command) \in Entries
         /\ command \in Contents
<1>1. command \in Contents
  BY DEF Absorb, IInv, PhaseInv, Busy
<1> QED
  BY <1>1, RecordIs DEF IInv, Absorb, DbsOK, MemoInv

\* The database keeps its type, in memory and in the file.
LEMMA DbsTypeStep == IInv /\ [Next]_vars => DbsOK'
<1> SUFFICES ASSUME IInv, [Next]_vars PROVE DbsOK'
  OBVIOUS
<1>1. CASE Open
  BY <1>1, EmptyDbIs DEF Open, IInv, DbsOK
<1>2. ASSUME NEW s \in Units, PlanFresh(s) PROVE DbsOK'
  BY <1>2, RememberIs DEF PlanFresh, IInv, DbsOK, MemoInv
<1>3. ASSUME NEW s \in Units, PlanTake(s) PROVE DbsOK'
  BY <1>3, TakeIs DEF PlanTake, DbsOK, IInv
<1>4. ASSUME NEW s \in Units, PlanStale(s) PROVE DbsOK'
  BY <1>4, LookedIs DEF PlanStale, IInv, DbsOK
<1>5. ASSUME NEW s \in Units, Absorb(s) PROVE DbsOK'
  BY <1>5, AbsorbIs DEF Absorb, DbsOK, IInv
<1>6. CASE Link
  <2>1. [cmd |-> command, objects |-> listed] \in Links
    BY <1>6 DEF Link, IInv, PhaseInv, PlanOK, Busy, Links
  <2> QED
    BY <1>6, <2>1 DEF Link, IInv, DbsOK, Dbs
<1>7. CASE Prune
  <2> DEFINE kept == [s \in Units |-> IF s \in {r \in Sources \ listed : mem.obj[r] # None}
                                     THEN None ELSE mem.obj[s]]
  <2>1. mem' = [mem EXCEPT !.obj = kept] /\ disk' = disk
    BY <1>7 DEF Prune
  <2>2. kept \in [Units -> Entries \cup {None}]
    BY DEF IInv, DbsOK, Dbs
  <2> HIDE DEF kept
  <2> QED
    BY <2>1, <2>2 DEF IInv, DbsOK, Dbs
<1>8. CASE Close
  BY <1>8, EmptyDbIs DEF Close, Over, IInv, DbsOK
<1>9. CASE CloseUnsaved
  BY <1>9, EmptyDbIs DEF CloseUnsaved, Over, IInv, DbsOK
<1>10. CASE Crash
  BY <1>10, EmptyDbIs DEF Crash, Over, IInv, DbsOK
<1>11. ASSUME NEW all \in BOOLEAN, CleanRun(all) PROVE DbsOK'
  BY <1>11, EmptyDbIs DEF CleanRun, IInv, DbsOK
<1>12. CASE UNCHANGED <<disk, mem>>
  BY <1>12 DEF IInv, DbsOK
<1> QED
  BY <1>1, <1>2, <1>3, <1>4, <1>5, <1>6, <1>7, <1>8, <1>9, <1>10, <1>11, <1>12
  DEF Next, Molto, Plan, RunPass, Finish, Submit, SubmitRefused, Compile, CompileFails,
      CheckUnit, NoSources, PlanDone, NoPool, WaitPool, PassDone, LinkSkipped, LinkFails, Edit,
      vars

\* The memo stays true: it is asked for the files as they are, and an edit moves the stamp.
LEMMA MemoStep == IInv /\ [Next]_vars => MemoInv'
<1> SUFFICES ASSUME IInv, [Next]_vars PROVE MemoInv'
  OBVIOUS
<1>1. CASE Open
  BY <1>1, EmptyDbIs DEF Open, IInv, MemoInv, MemoTrue, filesVars
<1>2. ASSUME NEW s \in Units, PlanFresh(s) PROVE MemoInv'
  <2>1. MemoTrue(mem')
    BY <1>2, RememberIs DEF PlanFresh, IInv, DbsOK, MemoInv
  <2> QED
    BY <1>2, <2>1 DEF PlanFresh, IInv, MemoInv, MemoTrue, filesVars
<1>3. ASSUME NEW s \in Units, PlanTake(s) PROVE MemoInv'
  <2>1. MemoTrue(mem')
    BY <1>3, TakeIs DEF PlanTake, IInv, DbsOK, MemoInv
  <2> QED
    BY <1>3, <2>1 DEF PlanTake, IInv, MemoInv, MemoTrue, filesVars
<1>4. ASSUME NEW s \in Units, PlanStale(s) PROVE MemoInv'
  <2>1. MemoTrue(mem')
    BY <1>4, LookedIs DEF PlanStale, IInv, DbsOK, MemoInv
  <2> QED
    BY <1>4, <2>1 DEF PlanStale, IInv, MemoInv, MemoTrue, filesVars
<1>5. ASSUME NEW s \in Units, Absorb(s) PROVE MemoInv'
  <2>1. MemoTrue(mem')
    BY <1>5, AbsorbIs DEF Absorb, IInv, DbsOK, MemoInv
  <2> QED
    BY <1>5, <2>1 DEF Absorb, IInv, MemoInv, MemoTrue, filesVars
<1>6. CASE Link
  <2>1. mem'.memo = mem.memo
    BY <1>6 DEF Link, IInv, DbsOK, Dbs
  <2> QED
    BY <1>6, <2>1 DEF Link, IInv, MemoInv, MemoTrue, filesVars
<1>7. CASE Prune
  <2>1. mem'.memo = mem.memo
    BY <1>7 DEF Prune, IInv, DbsOK, Dbs
  <2> QED
    BY <1>7, <2>1 DEF Prune, IInv, MemoInv, MemoTrue, filesVars
<1>8. CASE Close
  BY <1>8, EmptyDbIs DEF Close, Over, IInv, MemoInv, MemoTrue, filesVars
<1>9. CASE CloseUnsaved
  BY <1>9, EmptyDbIs DEF CloseUnsaved, Over, Blame, IInv, MemoInv, MemoTrue, filesVars
<1>10. CASE Crash
  BY <1>10, EmptyDbIs DEF Crash, Over, Blame, IInv, MemoInv, MemoTrue, filesVars
<1>11. ASSUME NEW f \in Files, Edit(f) PROVE MemoInv'
  <2> SUFFICES ASSUME NEW db \in {mem, disk}, NEW g \in Files, db.memo[g] # None
               PROVE  /\ db.memo[g].stamp <= stamp'[g]
                      /\ db.memo[g].stamp = stamp'[g] => db.memo[g].hash = text'[g]
    BY <1>11 DEF Edit, MemoInv, MemoTrue
  <2>1. /\ db.memo[g].stamp \in Nat
        /\ db.memo[g].stamp <= stamp[g]
        /\ db.memo[g].stamp = stamp[g] => db.memo[g].hash = text[g]
    BY BoundsAssumption DEF IInv, DbsOK, Dbs, Memos, MemoInv, MemoTrue
  <2>2. stamp[g] \in Nat /\ stamp'[g] = (IF g = f THEN stamp[g] + 1 ELSE stamp[g])
        /\ (g # f => text'[g] = text[g])
    BY <1>11, Sets DEF Edit, IInv, FilesOK
  <2> QED
    BY <2>1, <2>2
<1>12. ASSUME NEW all \in BOOLEAN, CleanRun(all) PROVE MemoInv'
  BY <1>12, EmptyDbIs DEF CleanRun, Blame, IInv, MemoInv, MemoTrue, filesVars
<1>13. CASE UNCHANGED <<disk, mem, text, stamp>>
  BY <1>13 DEF IInv, MemoInv, MemoTrue
<1> QED
  BY <1>1, <1>2, <1>3, <1>4, <1>5, <1>6, <1>7, <1>8, <1>9, <1>10, <1>11, <1>12, <1>13
  DEF Next, Molto, Plan, RunPass, Finish, Submit, SubmitRefused, Compile, CompileFails,
      CheckUnit, NoSources, PlanDone, NoPool, WaitPool, PassDone, LinkSkipped, LinkFails,
      filesVars, vars

------------------------------------------------------------------------------
(* Files, objects and records                                               *)

\* What an edit does to the clock of a file, and to what it says.
LEMMA EditIs ==
  ASSUME IInv, NEW f \in Files, Edit(f)
  PROVE  /\ \A g \in Files : stamp[g] \in Nat \ {0} /\ stamp'[g] \in Nat /\ stamp[g] <= stamp'[g]
         /\ stamp'[f] = stamp[f] + 1
         /\ \A g \in Files \ {f} : stamp'[g] = stamp[g] /\ text'[g] = text[g]
         /\ \/ text'[f] = stamp[f] + 1 \/ text'[f] = Gone
            \/ world.reverts /\ text'[f] \in 1 .. stamp[f]
         /\ f = Manifest => text'[f] # Gone
         /\ ~world.reverts => text[f] # Gone
         /\ f \notin Packages
<1>1. stamp' = [stamp EXCEPT ![f] = stamp[f] + 1] /\ f \notin Packages
  BY DEF Edit
<1>2. ~world.reverts => text[f] # Gone
  BY DEF Edit
<1>3. PICK t \in {stamp[f] + 1} \cup (IF world.reverts THEN 1 .. stamp[f] ELSE {})
                 \cup (IF f = Manifest THEN {} ELSE {Gone}) :
        text' = [text EXCEPT ![f] = t]
  BY DEF Edit
<1>4. \A g \in Files : stamp[g] \in Nat \ {0}
  BY Sets DEF IInv, FilesOK
<1>5. text'[f] = t /\ \A g \in Files \ {f} : text'[g] = text[g]
  BY <1>3 DEF IInv, FilesOK
<1>6. stamp'[f] = stamp[f] + 1 /\ \A g \in Files \ {f} : stamp'[g] = stamp[g]
  BY <1>1 DEF IInv, FilesOK
<1>7. f = Manifest => t # Gone
  BY <1>3, <1>4, Sets
<1>8. \/ t = stamp[f] + 1 \/ t = Gone
      \/ world.reverts /\ t \in 1 .. stamp[f]
  BY <1>3
<1>9. \A g \in Files : stamp'[g] \in Nat /\ stamp[g] <= stamp'[g]
  BY <1>4, <1>6
<1> QED
  BY <1>1, <1>2, <1>4, <1>5, <1>6, <1>7, <1>8, <1>9

\* An edit moves content and stamp together, and takes one from what is left.
LEMMA FilesStep == IInv /\ [Next]_vars => FilesInv'
<1> SUFFICES ASSUME IInv, [Next]_vars PROVE FilesInv'
  OBVIOUS
<1>1. ASSUME NEW f \in Files, Edit(f) PROVE FilesInv'
  <2>1. edits \in Nat /\ Gone = 0 /\ edits' = edits + 1 /\ world' = world
    BY <1>1, Sets DEF Edit, IInv, FilesOK
  <2>3. Manifest \in Files /\ Packages \subseteq Files
    BY Sets
  <2> QED
    BY <2>1, <2>3, <1>1, EditIs DEF IInv, FilesInv
<1>2. CASE UNCHANGED <<world, edits, text, stamp>>
  BY <1>2 DEF IInv, FilesInv
<1> QED
  BY <1>1, <1>2
  DEF Next, Molto, Plan, RunPass, Finish, PlanFresh, PlanTake, PlanStale, Submit, SubmitRefused,
      Compile, CompileFails, CheckUnit, Absorb, NoSources, Open, PlanDone, NoPool, WaitPool,
      PassDone, LinkSkipped, Link, LinkFails, Prune, Close, CloseUnsaved, Crash, CleanRun, Over,
      filesVars, vars

\* An object is of its prerequisites, none newer than its stamp; a new one is.
LEMMA CompiledFits ==
  ASSUME IInv, NEW s \in Units, Compilable(s), command \in Contents
  PROVE  /\ Compiled(s, command) \in [cmd : Contents, text : [Prereqs(s) -> Contents]]
         /\ Compiled(s, command) # None
         /\ Compiled(s, command).cmd = command
         /\ \A f \in Prereqs(s) : /\ Compiled(s, command).text[f] = text[f]
                                  /\ text[f] <= stamp[f]
<1>1. \A f \in Prereqs(s) : text[f] <= stamp[f]
  BY Sets DEF IInv, FilesInv
<1>2. /\ Compiled(s, command).cmd = command
      /\ \A f \in Prereqs(s) : Compiled(s, command).text[f] = text[f]
  BY DEF Compiled
<1> QED
  BY <1>1, <1>2, CompiledIs DEF IInv

\* What becomes an object is what was there when it was compiled.
LEMMA ObjStep == IInv /\ [Next]_vars => ObjInv'
<1> SUFFICES ASSUME IInv, [Next]_vars PROVE ObjInv'
  OBVIOUS
<1>1. ASSUME NEW s \in Units, PlanTake(s) PROVE ObjInv'
  <2>1. command \in Contents /\ Compilable(s)
    BY <1>1, TakeIs DEF PlanTake, Busy, IInv, PhaseInv
  <2> DEFINE o == Compiled(s, command)
  <2>2. /\ o \in [cmd : Contents, text : [Prereqs(s) -> Contents]]
        /\ \A f \in Prereqs(s) : o.text[f] <= stamp[f]
    BY <2>1, CompiledFits
  <2>3. obj' = [obj EXCEPT ![s] = o] /\ stamp' = stamp
    BY <1>1 DEF PlanTake, filesVars
  <2> HIDE DEF o
  <2> QED
    BY <2>2, <2>3 DEF IInv, ObjInv, OutOK
<1>2. ASSUME NEW s \in Units, Compile(s) PROVE ObjInv'
  <2>1. command \in Contents /\ Compilable(s)
    BY <1>2 DEF Compile, Busy, IInv, PhaseInv
  <2> DEFINE o == Compiled(s, command)
  <2>2. /\ o \in [cmd : Contents, text : [Prereqs(s) -> Contents]]
        /\ \A f \in Prereqs(s) : o.text[f] <= stamp[f]
    BY <2>1, CompiledFits
  <2>3. obj' = [obj EXCEPT ![s] = o] /\ stamp' = stamp
    BY <1>2 DEF Compile, filesVars
  <2> HIDE DEF o
  <2> QED
    BY <2>2, <2>3 DEF IInv, ObjInv, OutOK
<1>3. ASSUME NEW s \in Units, CompileFails(s) PROVE ObjInv'
  BY <1>3 DEF CompileFails, IInv, ObjInv, filesVars
<1>4. CASE Prune
  BY <1>4 DEF Prune, IInv, ObjInv, filesVars
<1>5. ASSUME NEW f \in Files, Edit(f) PROVE ObjInv'
  <2>1. \A g \in Files : stamp[g] \in Nat /\ stamp'[g] \in Nat /\ stamp[g] <= stamp'[g]
    BY <1>5, EditIs
  <2>2. ASSUME NEW s \in Units, obj[s] # None, NEW g \in Prereqs(s)
        PROVE  obj[s].text[g] <= stamp'[g]
    <3>1. obj[s].text[g] \in Nat /\ obj[s].text[g] <= stamp[g] /\ g \in Files
      BY <2>2, Sets DEF IInv, ObjInv
    <3> QED
      BY <2>1, <3>1
  <2> QED
    BY <1>5, <2>2 DEF Edit, outVars, IInv, ObjInv
<1>6. ASSUME NEW all \in BOOLEAN, CleanRun(all) PROVE ObjInv'
  BY <1>6 DEF CleanRun, ObjInv
<1>7. CASE UNCHANGED <<obj, stamp>>
  BY <1>7 DEF IInv, ObjInv
<1> QED
  BY <1>1, <1>2, <1>3, <1>4, <1>5, <1>6, <1>7
  DEF Next, Molto, Plan, RunPass, Finish, PlanFresh, PlanStale, Submit, SubmitRefused,
      CheckUnit, Absorb, NoSources, Open, PlanDone, NoPool, WaitPool, PassDone, LinkSkipped,
      Link, LinkFails, Close, CloseUnsaved, Crash, Over, filesVars, outVars, vars

\* What is recorded has one hash for every prerequisite that can be read.
LEMMA EntryFits ==
  ASSUME IInv, NEW s \in Units, NEW c \in Contents
  PROVE  /\ Entry(s, c) # None
         /\ Entry(s, c).cmd = c
         /\ DOMAIN Entry(s, c).hash = Readable(s)
         /\ Readable(s) \subseteq Prereqs(s)
         /\ \A f \in Readable(s) : Entry(s, c).hash[f] = text[f] /\ text[f] <= stamp[f]
<1>1. Entry(s, c) \in Entries
  BY RecordIs DEF IInv, DbsOK, MemoInv
<1>2. /\ Entry(s, c).cmd = c
      /\ DOMAIN Entry(s, c).hash = Readable(s)
      /\ \A f \in Readable(s) : Entry(s, c).hash[f] = text[f]
  BY DEF Entry
<1>3. Readable(s) \subseteq Prereqs(s) /\ \A f \in Readable(s) : text[f] <= stamp[f]
  BY Sets DEF Readable, IInv, FilesInv
<1> QED
  BY <1>1, <1>2, <1>3, NoneAssumption

\* What is recorded is of the prerequisites that could be read.
LEMMA ShapeStep == IInv /\ [Next]_vars => ShapeInv'
<1> SUFFICES ASSUME IInv, [Next]_vars PROVE ShapeInv'
  OBVIOUS
<1>1. CASE Open
  BY <1>1 DEF Open, IInv, ShapeInv, Shape, filesVars
<1>2. ASSUME NEW s \in Units, PlanFresh(s) PROVE ShapeInv'
  <2>1. mem'.obj = mem.obj /\ disk' = disk /\ stamp' = stamp
    BY <1>2, RememberIs DEF PlanFresh, filesVars, IInv, DbsOK, MemoInv
  <2> QED
    BY <2>1 DEF IInv, ShapeInv, Shape
<1>3. ASSUME NEW s \in Units, PlanTake(s) PROVE ShapeInv'
  <2>1. /\ mem'.obj = [mem.obj EXCEPT ![s] = Entry(s, command)] /\ command \in Contents
        /\ disk' = disk /\ stamp' = stamp
    BY <1>3, TakeIs DEF PlanTake, filesVars
  <2>2. mem.obj \in [Units -> Entries \cup {None}]
    BY DEF IInv, DbsOK, Dbs
  <2> QED
    BY <2>1, <2>2, EntryFits DEF IInv, ShapeInv, Shape
<1>4. ASSUME NEW s \in Units, PlanStale(s) PROVE ShapeInv'
  <2>1. mem'.obj = mem.obj /\ disk' = disk /\ stamp' = stamp
    BY <1>4, LookedIs DEF PlanStale, filesVars
  <2> QED
    BY <2>1 DEF IInv, ShapeInv, Shape
<1>5. ASSUME NEW s \in Units, Absorb(s) PROVE ShapeInv'
  <2>1. /\ mem'.obj = [mem.obj EXCEPT ![s] = Entry(s, command)] /\ command \in Contents
        /\ disk' = disk /\ stamp' = stamp
    BY <1>5, AbsorbIs DEF Absorb, filesVars
  <2>2. mem.obj \in [Units -> Entries \cup {None}]
    BY DEF IInv, DbsOK, Dbs
  <2> QED
    BY <2>1, <2>2, EntryFits DEF IInv, ShapeInv, Shape
<1>6. CASE Link
  <2>1. mem'.obj = mem.obj /\ disk' = disk /\ stamp' = stamp
    BY <1>6 DEF Link, filesVars
  <2> QED
    BY <2>1 DEF IInv, ShapeInv, Shape
<1>7. CASE Prune
  <2>1. /\ \A s \in Units : mem'.obj[s] \in {mem.obj[s], None}
        /\ disk' = disk /\ stamp' = stamp
    BY <1>7 DEF Prune, filesVars
  <2> QED
    BY <2>1 DEF IInv, ShapeInv, Shape
<1>8. CASE Close
  BY <1>8 DEF Close, Over, IInv, ShapeInv, Shape, EmptyDb, filesVars
<1>9. CASE CloseUnsaved
  BY <1>9 DEF CloseUnsaved, Over, Blame, IInv, ShapeInv, Shape, EmptyDb, filesVars
<1>10. CASE Crash
  BY <1>10 DEF Crash, Over, Blame, IInv, ShapeInv, Shape, EmptyDb, filesVars
<1>11. ASSUME NEW f \in Files, Edit(f) PROVE ShapeInv'
  <2> SUFFICES ASSUME NEW db \in {mem, disk}, NEW s \in Units, db.obj[s] # None,
                      NEW g \in DOMAIN db.obj[s].hash
               PROVE  db.obj[s].hash[g] <= stamp'[g]
    BY <1>11 DEF Edit, IInv, ShapeInv, Shape
  <2>1. db.obj[s] \in Entries
    BY DEF IInv, DbsOK, Dbs
  <2>2. db.obj[s].hash[g] \in Contents
    BY <2>1 DEF Entries
  <2>3. db.obj[s].hash[g] <= stamp[g] /\ g \in Files
    BY Sets DEF IInv, ShapeInv, Shape
  <2> QED
    <3>1. db.obj[s].hash[g] \in Nat /\ stamp[g] \in Nat /\ stamp'[g] \in Nat /\ stamp[g] <= stamp'[g]
      BY <1>11, <2>2, <2>3, EditIs, Sets
    <3> QED
      BY <2>3, <3>1
<1>12. ASSUME NEW all \in BOOLEAN, CleanRun(all) PROVE ShapeInv'
  BY <1>12 DEF CleanRun, Blame, IInv, ShapeInv, Shape, EmptyDb, filesVars
<1>13. CASE UNCHANGED <<mem, disk, stamp>>
  BY <1>13 DEF IInv, ShapeInv, Shape
<1> QED
  BY <1>1, <1>2, <1>3, <1>4, <1>5, <1>6, <1>7, <1>8, <1>9, <1>10, <1>11, <1>12, <1>13
  DEF Next, Molto, Plan, RunPass, Finish, Submit, SubmitRefused, Compile, CompileFails,
      CheckUnit, NoSources, PlanDone, NoPool, WaitPool, PassDone, LinkSkipped, LinkFails,
      filesVars, vars

------------------------------------------------------------------------------
(* Where a build is                                                         *)

\* Each step of the build moves on the units it is about, and no other.
LEMMA PhaseStep == IInv /\ [Next]_vars => PhaseInv'
<1> SUFFICES ASSUME IInv, [Next]_vars PROVE PhaseInv'
  OBVIOUS
<1> USE Sets DEF IInv, PlanOK, PhaseInv, Busy, PassUnits, Phases, Units
<1>1. CASE NoSources
  BY <1>1 DEF NoSources, planVars
<1>2. CASE Open
  <2>1. text[Manifest] \in Contents /\ text[Manifest] <= stamp[Manifest]
    BY DEF FilesInv, FilesOK
  <2> QED
    BY <1>2, <2>1 DEF Open, filesVars, Present
<1>3. ASSUME NEW s \in Units, PlanFresh(s) PROVE PhaseInv'
  BY <1>3 DEF PlanFresh, filesVars, planVars, Present
<1>4. ASSUME NEW s \in Units, PlanTake(s) PROVE PhaseInv'
  BY <1>4 DEF PlanTake, filesVars, planVars, Present
<1>5. ASSUME NEW s \in Units, PlanStale(s) PROVE PhaseInv'
  BY <1>5 DEF PlanStale, filesVars, planVars, Present
<1>6. CASE PlanDone
  BY <1>6 DEF PlanDone, filesVars, planVars, Needed, Present
<1>7. CASE NoPool
  BY <1>7 DEF NoPool, filesVars, planVars, Present
<1>8. CASE WaitPool
  BY <1>8 DEF WaitPool, filesVars, planVars, Tried, AllTried, Present
<1>9. CASE PassDone
  BY <1>9 DEF PassDone, filesVars, planVars, Needed, Present
<1>10. ASSUME NEW s \in Units, Submit(s) PROVE PhaseInv'
  BY <1>10 DEF Submit, filesVars, planVars, Present
<1>11. ASSUME NEW s \in Units, SubmitRefused(s) PROVE PhaseInv'
  BY <1>11 DEF SubmitRefused, filesVars, planVars, Present
<1>12. ASSUME NEW s \in Units, Compile(s) PROVE PhaseInv'
  BY <1>12 DEF Compile, filesVars, planVars, Present
<1>13. ASSUME NEW s \in Units, CompileFails(s) PROVE PhaseInv'
  BY <1>13 DEF CompileFails, filesVars, planVars, Present
<1>14. ASSUME NEW s \in Units, CheckUnit(s) PROVE PhaseInv'
  BY <1>14 DEF CheckUnit, filesVars, planVars, Present
<1>15. ASSUME NEW s \in Units, Absorb(s) PROVE PhaseInv'
  BY <1>15 DEF Absorb, filesVars, planVars, Present
<1>16. CASE LinkSkipped
  BY <1>16 DEF LinkSkipped, filesVars, planVars, Present
<1>17. CASE Link
  BY <1>17 DEF Link, filesVars, planVars, Present
<1>18. CASE LinkFails
  BY <1>18 DEF LinkFails, filesVars, planVars, Present
<1>19. CASE Prune
  BY <1>19 DEF Prune, filesVars, planVars, Present
<1>20. CASE Close
  BY <1>20 DEF Close, Over
<1>21. CASE CloseUnsaved
  BY <1>21 DEF CloseUnsaved, Over
<1>22. CASE Crash
  BY <1>22 DEF Crash, Over
<1>23. ASSUME NEW f \in Files, Edit(f) PROVE PhaseInv'
  <2>1. quiet' = FALSE /\ UNCHANGED <<pc, mem, todo, listed, command, unit, pass, ok>>
    BY <1>23 DEF Edit, planVars
  <2>2. Busy => command \in Nat /\ stamp[Manifest] \in Nat /\ stamp'[Manifest] \in Nat
              /\ command <= stamp[Manifest] /\ stamp[Manifest] <= stamp'[Manifest]
    BY <1>23, EditIs
  <2>3. Busy => command <= stamp'[Manifest]
    BY <2>2
  <2> QED
    BY <2>1, <2>3
<1>24. ASSUME NEW all \in BOOLEAN, CleanRun(all) PROVE PhaseInv'
  BY <1>24 DEF CleanRun, filesVars, planVars
<1>25. CASE UNCHANGED <<pc, mem, todo, listed, command, stamp, unit, pass, ok, quiet, text>>
  BY <1>25 DEF Present
<1> HIDE DEF IInv, PlanOK, PhaseInv, Busy, PassUnits
<1> QED
  BY <1>1, <1>2, <1>3, <1>4, <1>5, <1>6, <1>7, <1>8, <1>9, <1>10, <1>11, <1>12, <1>13, <1>14,
     <1>15, <1>16, <1>17, <1>18, <1>19, <1>20, <1>21, <1>22, <1>23, <1>24, <1>25
  DEF Next, Molto, Plan, RunPass, Finish, vars

------------------------------------------------------------------------------
(* Under the compiler                                                       *)

\* While units are compiled only a source may change, where nothing ever comes back, and the
\* manifest, which has been read.
LEMMA EditWhileCompiling ==
  ASSUME IInv, NEW f \in Files, Edit(f), pc \in Compiling
  PROVE  \/ f = Manifest
         \/ f \in Sources /\ Onward(world) /\ ~Settled(world) /\ pc # "absorb"
<1>1. f \in Sources \/ f \in Headers \/ f = Manifest
  BY DEF Edit, Files
<1>2. CASE f \in Sources
  <2>1. pc \in world.hours["source"]
    BY <1>2 DEF Edit, Kind
  <2> QED
    BY <1>2, <2>1 DEF IInv, Onward, Settled
<1>3. CASE f \in Headers
  <2>1. pc \in world.hours["header"]
    BY <1>3, FilesAssumption DEF Edit, Kind, Units
  <2> QED
    BY <2>1 DEF IInv, Onward, Settled
<1> QED
  BY <1>1, <1>2, <1>3

\* The prerequisites of another unit are not affected by the edit of a source.
LEMMA OtherUnits ==
  ASSUME IInv, NEW f \in Files, Edit(f), NEW s \in Units, f \notin Prereqs(s)
  PROVE  /\ \A g \in Prereqs(s) : text'[g] = text[g] /\ stamp'[g] = stamp[g]
         /\ Signature(s)' = Signature(s)
         /\ Compilable(s)' = Compilable(s)
         /\ \A c : Compiled(s, c)' = Compiled(s, c)
<1>1. \A g \in Prereqs(s) : text'[g] = text[g] /\ stamp'[g] = stamp[g]
  BY EditIs, Sets
<1>2. s \in Prereqs(s)
  BY Sets
<1>3. Signature(s)' = Signature(s)
  BY <1>1, <1>2 DEF Signature
<1>4. Compilable(s)' = Compilable(s)
  BY <1>1 DEF Compilable
<1>5. \A c : Compiled(s, c)' = Compiled(s, c)
  BY <1>1 DEF Compiled
<1> QED
  BY <1>1, <1>3, <1>4, <1>5

\* A source that is edited under the compiler gets another stamp, and stays what it is.
LEMMA SigStep == IInv /\ [Next]_vars => SigInv'
<1> SUFFICES ASSUME IInv, [Next]_vars PROVE SigInv'
  OBVIOUS
<1>1. ASSUME NEW s \in Units, PlanTake(s) PROVE SigInv'
  BY <1>1, Sets
  DEF PlanTake, IInv, PhaseInv, PlanOK, OutOK, SigInv, Compiling, Signature, Compilable,
      Compiled
<1>2. CASE PlanDone
  BY <1>2, Sets
  DEF PlanDone, IInv, PhaseInv, PlanOK, OutOK, SigInv, Compiling, Signature, Compilable,
      Compiled, filesVars
<1>3. CASE PassDone
  BY <1>3, Sets
  DEF PassDone, IInv, PhaseInv, PlanOK, OutOK, SigInv, Compiling, Signature, Compilable,
      Compiled, filesVars, outVars, planVars
<1>4. ASSUME NEW s \in Units, Submit(s) PROVE SigInv'
  <2>1. /\ stamp[s] \in Nat \ {0} /\ Gone = 0
        /\ Signature(s) <= stamp[s] /\ (Signature(s) = 0 => text[s] = Gone)
    <3>1. stamp[s] \in Nat \ {0} /\ Gone = 0
      BY Sets DEF IInv, FilesOK
    <3> QED
      BY <3>1 DEF Signature
  <2>2. /\ UNCHANGED <<stamp, text, obj, command, pc>> /\ pc = "submit"
        /\ unit' = [unit EXCEPT ![s] = "submitted"] /\ sig' = [sig EXCEPT ![s] = Signature(s)]
    BY <1>4 DEF Submit, filesVars, outVars, planVars
  <2>3. \A r \in Units \ {s} : unit'[r] = unit[r] /\ sig'[r] = sig[r]
    BY <2>2 DEF IInv, PlanOK
  <2>4. unit'[s] = "submitted" /\ sig'[s] = Signature(s)
    BY <2>2 DEF IInv, PlanOK
  <2>5. SigInv
    BY DEF IInv
  <2> QED
    BY <2>1, <2>2, <2>3, <2>4, <2>5 DEF SigInv, Signature, Compilable, Compiled
<1>5. ASSUME NEW s \in Units, SubmitRefused(s) PROVE SigInv'
  BY <1>5, Sets
  DEF SubmitRefused, Blame, IInv, PhaseInv, PlanOK, OutOK, SigInv, Compiling, Signature,
      Compilable, Compiled, filesVars, outVars, planVars
<1>6. ASSUME NEW s \in Units, Compile(s) PROVE SigInv'
  BY <1>6, Sets
  DEF Compile, IInv, PhaseInv, PlanOK, OutOK, SigInv, Compiling, Signature, Compilable,
      Compiled, filesVars, planVars
<1>7. ASSUME NEW s \in Units, CompileFails(s) PROVE SigInv'
  BY <1>7, Sets
  DEF CompileFails, Blame, IInv, PhaseInv, PlanOK, OutOK, SigInv, Compiling, Signature,
      Compilable, Compiled, filesVars, planVars
<1>8. CASE WaitPool
  BY <1>8
  DEF WaitPool, IInv, SigInv, Compiling, AllTried, Signature, Compilable, Compiled, filesVars,
      outVars, planVars
<1>9. CASE NoPool
  BY <1>9, Sets
  DEF NoPool, Blame, IInv, PhaseInv, PlanOK, OutOK, SigInv, Compiling, Signature, Compilable,
      Compiled, filesVars
<1>10. ASSUME NEW s \in Units, CheckUnit(s) PROVE SigInv'
  BY <1>10, Sets
  DEF CheckUnit, IInv, PhaseInv, PlanOK, OutOK, SigInv, Compiling, Signature, Compilable,
      Compiled, filesVars, outVars, planVars
<1>11. ASSUME NEW s \in Units, Absorb(s) PROVE SigInv'
  BY <1>11, Sets
  DEF Absorb, IInv, PhaseInv, PlanOK, OutOK, SigInv, Compiling, Signature, Compilable, Compiled,
      filesVars, planVars
<1>12. CASE Open
  BY <1>12, Sets
  DEF Open, IInv, PhaseInv, PlanOK, OutOK, SigInv, Compiling, Signature, Compilable, Compiled
<1>13. CASE Close
  BY <1>13, Sets
  DEF Close, Over, IInv, PhaseInv, PlanOK, OutOK, SigInv, Compiling, Signature, Compilable,
      Compiled
<1>14. CASE CloseUnsaved
  BY <1>14, Sets
  DEF CloseUnsaved, Over, Blame, IInv, PhaseInv, PlanOK, OutOK, SigInv, Compiling, Signature,
      Compilable, Compiled
<1>15. CASE Crash
  BY <1>15, Sets
  DEF Crash, Over, Blame, IInv, PhaseInv, PlanOK, OutOK, SigInv, Compiling, Signature,
      Compilable, Compiled
<1>16. CASE Prune
  BY <1>16, Sets
  DEF Prune, IInv, PhaseInv, PlanOK, OutOK, SigInv, Compiling, Signature, Compilable, Compiled
<1>17. ASSUME NEW f \in Files, Edit(f) PROVE SigInv'
  <2>1. UNCHANGED <<pc, unit, sig, obj, command>>
    BY <1>17 DEF Edit, outVars, planVars
  <2> SUFFICES ASSUME pc \in Compiling, NEW s \in Units
               PROVE  /\ unit[s] = "submitted" => /\ sig[s] <= stamp'[s]
                                                  /\ sig[s] = 0 => text'[s] = Gone
                      /\ unit[s] = "built" =>
                           /\ sig[s] > 0 /\ sig[s] <= stamp'[s]
                           /\ Signature(s)' = sig[s] => Compilable(s)'
                           /\ Signature(s)' = sig[s] /\ obj[s] # None =>
                                obj[s] = Compiled(s, command)'
                      /\ unit[s] = "checked" => /\ Compilable(s)'
                                                /\ obj[s] # None => obj[s] = Compiled(s, command)'
    BY <2>1 DEF SigInv
  <2>2. CASE f \notin Prereqs(s)
    BY <2>1, <2>2, <1>17, OtherUnits, Sets DEF IInv, SigInv
  <2>3. CASE f \in Prereqs(s)
    <3>1. f = s /\ Onward(world) /\ pc # "absorb" /\ text[s] # Gone
      BY <2>3, <1>17, EditWhileCompiling, EditIs, FilesAssumption, Sets
      DEF Onward, Prereqs, Units
    <3>2. unit[s] # "checked"
      BY <3>1 DEF IInv, PhaseInv
    <3>3. /\ stamp'[s] = stamp[s] + 1 /\ stamp[s] \in Nat \ {0} /\ sig[s] \in Nat
          /\ unit[s] \in {"submitted", "built"} => sig[s] <= stamp[s] /\ sig[s] > 0
      BY <1>17, <3>1, EditIs DEF IInv, PlanOK, SigInv
    <3>4. unit[s] \in {"submitted", "built"} => Signature(s)' # sig[s]
      BY <3>3 DEF Signature
    <3> QED
      BY <3>1, <3>2, <3>3, <3>4
  <2> QED
    BY <2>2, <2>3
<1>18. ASSUME NEW all \in BOOLEAN, CleanRun(all) PROVE SigInv'
  BY <1>18, Sets
  DEF CleanRun, Blame, IInv, PhaseInv, PlanOK, OutOK, SigInv, Compiling, Signature, Compilable,
      Compiled, filesVars
<1>19. CASE NoSources
  BY <1>19, Sets
  DEF NoSources, IInv, PhaseInv, PlanOK, OutOK, SigInv, Compiling, Signature, Compilable,
      Compiled, filesVars
<1>20. ASSUME NEW s \in Units, PlanStale(s) PROVE SigInv'
  BY <1>20, Sets
  DEF PlanStale, IInv, PhaseInv, PlanOK, OutOK, SigInv, Compiling, Signature, Compilable,
      Compiled, filesVars
<1>21. CASE Link
  BY <1>21, Sets
  DEF Link, IInv, PhaseInv, PlanOK, OutOK, SigInv, Compiling, Signature, Compilable, Compiled
<1>22. CASE LinkFails
  BY <1>22, Sets
  DEF LinkFails, Blame, IInv, PhaseInv, PlanOK, OutOK, SigInv, Compiling, Signature, Compilable,
      Compiled
<1>23. CASE LinkSkipped
  BY <1>23, Sets
  DEF LinkSkipped, IInv, PhaseInv, PlanOK, OutOK, SigInv, Compiling, Signature, Compilable,
      Compiled, filesVars
<1>24. CASE UNCHANGED <<pc, unit, sig, stamp, text, obj, command>>
  BY <1>24 DEF IInv, SigInv, Signature, Compilable, Compiled
<1> QED
  BY <1>1, <1>2, <1>3, <1>4, <1>5, <1>6, <1>7, <1>8, <1>9, <1>10, <1>11, <1>12, <1>13, <1>14,
     <1>15, <1>16, <1>17, <1>18, <1>19, <1>20, <1>21, <1>22, <1>23, <1>24
  DEF Next, Molto, Plan, RunPass, Finish, PlanFresh, filesVars, outVars, planVars, vars

\* Every unit that is submitted is recorded, or has failed, or was edited.
LEMMA StillStep == IInv /\ [Next]_vars => StillInv'
<1> SUFFICES ASSUME IInv, [Next]_vars PROVE StillInv'
  OBVIOUS
<1>1. ASSUME NEW s \in Units, PlanFresh(s) PROVE StillInv'
  BY <1>1, Sets DEF PlanFresh, IInv, PhaseInv, PlanOK, Still, StillInv, Compiling, Signature
<1>2. ASSUME NEW s \in Units, PlanTake(s) PROVE StillInv'
  BY <1>2, Sets DEF PlanTake, IInv, PhaseInv, PlanOK, Still, StillInv, Compiling
<1>3. ASSUME NEW s \in Units, PlanStale(s) PROVE StillInv'
  BY <1>3, Sets DEF PlanStale, IInv, PhaseInv, PlanOK, Still, StillInv, Compiling, Signature
<1>4. ASSUME NEW s \in Units, Submit(s) PROVE StillInv'
  BY <1>4, Sets
  DEF Submit, IInv, PhaseInv, PlanOK, Still, StillInv, Compiling, Signature, PassUnits,
      filesVars, planVars
<1>5. ASSUME NEW s \in Units, SubmitRefused(s) PROVE StillInv'
  BY <1>5, Sets
  DEF SubmitRefused, Blame, IInv, PhaseInv, PlanOK, Still, StillInv, Compiling, Signature,
      PassUnits, filesVars, planVars
<1>6. ASSUME NEW s \in Units, Compile(s) PROVE StillInv'
  BY <1>6, Sets
  DEF Compile, IInv, PhaseInv, PlanOK, Still, StillInv, Compiling, Signature, PassUnits,
      filesVars, planVars
<1>7. ASSUME NEW s \in Units, CompileFails(s) PROVE StillInv'
  BY <1>7, Sets
  DEF CompileFails, Blame, IInv, PhaseInv, PlanOK, Still, StillInv, Compiling, Signature,
      PassUnits, filesVars, planVars
<1>8. ASSUME NEW s \in Units, CheckUnit(s) PROVE StillInv'
  BY <1>8, Sets
  DEF CheckUnit, IInv, PhaseInv, PlanOK, Still, StillInv, Compiling, Signature, filesVars
<1>9. ASSUME NEW s \in Units, Absorb(s) PROVE StillInv'
  BY <1>9, Sets
  DEF Absorb, IInv, PhaseInv, PlanOK, Still, StillInv, Compiling, Signature, filesVars
<1>10. CASE NoSources
  BY <1>10, Sets DEF NoSources, IInv, PhaseInv, PlanOK, Still, StillInv, Compiling, Signature
<1>11. CASE Open
  BY <1>11, Sets DEF Open, IInv, PhaseInv, PlanOK, Still, StillInv, Compiling
<1>12. CASE PlanDone
  BY <1>12, Sets DEF PlanDone, IInv, PhaseInv, PlanOK, Still, StillInv, Compiling, Signature
<1>13. CASE NoPool
  BY <1>13, Sets
  DEF NoPool, Blame, IInv, PhaseInv, PlanOK, Still, StillInv, Compiling, Signature
<1>14. CASE WaitPool
  BY <1>14, Sets
  DEF WaitPool, IInv, PhaseInv, PlanOK, Still, StillInv, Compiling, Signature, PassUnits,
      filesVars, AllTried, Tried
<1>15. CASE PassDone
  BY <1>15, Sets DEF PassDone, IInv, PhaseInv, PlanOK, Still, StillInv, Compiling, Signature
<1>16. CASE LinkSkipped
  BY <1>16, Sets DEF LinkSkipped, IInv, PhaseInv, PlanOK, Still, StillInv, Compiling, Signature
<1>17. CASE Link
  BY <1>17, Sets DEF Link, IInv, PhaseInv, PlanOK, Still, StillInv, Compiling
<1>18. CASE LinkFails
  BY <1>18, Sets DEF LinkFails, Blame, IInv, PhaseInv, PlanOK, Still, StillInv, Compiling
<1>19. CASE Prune
  BY <1>19, Sets DEF Prune, IInv, PhaseInv, PlanOK, Still, StillInv, Compiling
<1>20. CASE Close
  BY <1>20, Sets DEF Close, Over, IInv, PhaseInv, PlanOK, Still, StillInv, Compiling
<1>21. CASE CloseUnsaved
  BY <1>21, Sets
  DEF CloseUnsaved, Over, Blame, IInv, PhaseInv, PlanOK, Still, StillInv, Compiling
<1>22. CASE Crash
  BY <1>22, Sets DEF Crash, Over, Blame, IInv, PhaseInv, PlanOK, Still, StillInv, Compiling
<1>23. ASSUME NEW f \in Files, Edit(f) PROVE StillInv'
  <2>1. UNCHANGED <<pc, unit, sig, world, todo, listed, pass>> /\ quiet' = FALSE
    BY <1>23 DEF Edit, outVars, planVars
  <2>2. Still' => Still /\ Settled(world)
    BY <2>1 DEF Still
  <2>3. ASSUME Settled(world), pc \in Compiling, NEW s \in Units
        PROVE  Signature(s)' = Signature(s)
    <3>1. f \notin Prereqs(s)
      BY <2>3, <1>23, EditWhileCompiling, FilesAssumption DEF Prereqs, Units
    <3> QED
      BY <3>1, <1>23, OtherUnits
  <2> QED
    BY <2>1, <2>2, <2>3 DEF IInv, StillInv, PassUnits
<1>24. ASSUME NEW all \in BOOLEAN, CleanRun(all) PROVE StillInv'
  BY <1>24, Sets
  DEF CleanRun, Blame, IInv, PhaseInv, PlanOK, Still, StillInv, Compiling, Signature, PassUnits,
      filesVars, planVars
<1>25. CASE UNCHANGED <<vars>>
  BY <1>25 DEF IInv, StillInv, Still, Signature, PassUnits, vars
<1> QED
  BY <1>1, <1>2, <1>3, <1>4, <1>5, <1>6, <1>7, <1>8, <1>9, <1>10, <1>11, <1>12, <1>13, <1>14,
     <1>15, <1>16, <1>17, <1>18, <1>19, <1>20, <1>21, <1>22, <1>23, <1>24, <1>25
  DEF Next, Molto, Plan, RunPass, Finish

------------------------------------------------------------------------------
(* Records in an onward world                                               *)

\* The types the comparisons need.
LEMMA Numbers ==
  ASSUME IInv
  PROVE  /\ Settings \in Nat /\ text[Manifest] \in Nat
         /\ \A s \in Units : obj[s] # None => /\ obj[s].cmd \in Nat
                                             /\ \A f \in Prereqs(s) : obj[s].text[f] \in Nat
         /\ \A db \in {mem, disk}, s \in Units : db.obj[s] # None =>
              db.obj[s].cmd \in Nat /\ \A f \in DOMAIN db.obj[s].hash : db.obj[s].hash[f] \in Nat
         /\ \A db \in {mem, disk} : db.bin # None => db.bin.cmd \in Nat
         /\ bin # None => bin.cmd \in Nat
<1>1. Settings \in Nat /\ text[Manifest] \in Nat
  BY Sets DEF Settings, IInv, PhaseInv, Busy, FilesInv, FilesOK
<1>2. ASSUME NEW s \in Units, obj[s] # None
      PROVE  obj[s].cmd \in Nat /\ \A f \in Prereqs(s) : obj[s].text[f] \in Nat
  BY <1>2, Sets DEF IInv, ObjInv
<1>3. ASSUME NEW db \in {mem, disk}, NEW s \in Units, db.obj[s] # None
      PROVE  db.obj[s].cmd \in Nat /\ \A f \in DOMAIN db.obj[s].hash : db.obj[s].hash[f] \in Nat
  <2>1. db.obj[s] \in Entries
    BY <1>3 DEF IInv, DbsOK, Dbs
  <2>2. db.obj[s].cmd \in Nat
    BY <2>1, Sets DEF Entries
  <2>3. ASSUME NEW f \in DOMAIN db.obj[s].hash PROVE db.obj[s].hash[f] \in Nat
    <3>1. PICK fs \in SUBSET Files : db.obj[s].hash \in [fs -> Contents]
      BY <2>1 DEF Entries
    <3> QED
      BY <2>3, <3>1, Sets
  <2> QED
    BY <2>2, <2>3
<1>4. ASSUME NEW db \in {mem, disk}, db.bin # None PROVE db.bin.cmd \in Nat
  BY <1>4, Sets DEF IInv, DbsOK, Dbs, Links
<1>5. ASSUME bin # None PROVE bin.cmd \in Nat
  <2>1. PICK objects \in SUBSET Units : bin \in [cmd : Contents, objs : [objects -> Snapshots]]
    BY <1>5 DEF IInv, OutOK, Binaries
  <2> QED
    BY <2>1, Sets
<1> QED
  BY <1>1, <1>2, <1>3, <1>4, <1>5

\* The settings a build reads are the newest, and so are those the next one will.
LEMMA SettingsGrow ==
  ASSUME IInv, Onward(world)
  PROVE  /\ Settings <= text[Manifest]
         /\ Busy => Settings = command
         /\ ~Busy => Settings = text[Manifest]
         /\ \A f \in Files : Edit(f) => text[Manifest] <= text'[Manifest]
<1>1. text[Manifest] = stamp[Manifest] /\ Manifest \in Files
  BY Sets DEF IInv, FilesInv, Onward
<1>2. Settings <= text[Manifest] /\ (Busy => Settings = command) /\ (~Busy => Settings = text[Manifest])
  BY <1>1, Numbers DEF Settings, Busy, IInv, PhaseInv
<1>3. ASSUME NEW f \in Files, Edit(f) PROVE text[Manifest] <= text'[Manifest]
  BY <1>1, <1>3, EditIs, Numbers DEF Onward
<1> QED
  BY <1>2, <1>3

\* What is compiled now is no older than any record of the same unit.
LEMMA CompiledIsNewest ==
  ASSUME IInv, Onward(world), Busy, NEW s \in Units, Compilable(s),
         NEW db \in {mem, disk}, db.obj[s] # None
  PROVE  Older(db.obj[s], Compiled(s, command))
<1>1. \A f \in Prereqs(s) : text[f] = stamp[f]
  BY Sets DEF IInv, FilesInv, Onward, Compilable
<1>2. db.obj[s].cmd <= command
  BY SettingsGrow DEF IInv, OnwardObjInv, BehindObj
<1>3. \A f \in DOMAIN db.obj[s].hash : f \in Prereqs(s) /\ db.obj[s].hash[f] <= stamp[f]
  BY DEF IInv, ShapeInv, Shape
<1>4. command \in Contents
  BY DEF IInv, PhaseInv
<1> QED
  BY <1>1, <1>2, <1>3, <1>4, CompiledFits DEF Older

\* What is recorded at the same moment is no newer.
LEMMA EntryIsOlder ==
  ASSUME IInv, NEW s \in Units, Compilable(s), command \in Contents
  PROVE  /\ Entry(s, command).cmd = command
         /\ Older(Entry(s, command), Compiled(s, command))
<1>1. \A f \in Prereqs(s) : text[f] \in Nat
  BY Sets DEF IInv, FilesOK, Compilable
<1>2. command \in Nat
  BY Sets
<1>3. ASSUME NEW f \in DOMAIN Entry(s, command).hash
      PROVE  Entry(s, command).hash[f] <= Compiled(s, command).text[f]
  <2>1. f \in Prereqs(s) /\ Entry(s, command).hash[f] = text[f]
    BY <1>3, EntryFits
  <2> QED
    BY <1>1, <2>1, CompiledFits
<1> QED
  BY <1>2, <1>3, EntryFits, CompiledFits DEF Older

\* In an onward world what is compiled is newer than every record there is of it.
LEMMA OnwardObjStep == IInv /\ [Next]_vars => OnwardObjInv'
<1> SUFFICES ASSUME IInv, [Next]_vars PROVE OnwardObjInv'
  OBVIOUS
<1>1. CASE Open
  <2>1. mem' = disk /\ disk' = disk /\ UNCHANGED <<world, obj>> /\ Settings' = Settings
    BY <1>1 DEF Open, outVars, Settings
  <2> QED
    BY <2>1 DEF IInv, OnwardObjInv, BehindObj
<1>2. ASSUME NEW s \in Units, PlanFresh(s) PROVE OnwardObjInv'
  <2>1. /\ \A r \in Units : mem'.obj[r] \in {mem.obj[r], None} /\ obj'[r] \in {obj[r], None}
        /\ UNCHANGED <<world, disk>> /\ Settings' = Settings
    BY <1>2, RememberIs DEF PlanFresh, IInv, DbsOK, Dbs, MemoInv, Settings, outVars, planVars
  <2> QED
    BY <2>1 DEF IInv, OnwardObjInv, BehindObj
<1>3. ASSUME NEW s \in Units, PlanTake(s) PROVE OnwardObjInv'
  <2>1. /\ obj' = [obj EXCEPT ![s] = Compiled(s, command)]
        /\ UNCHANGED <<world, pc, command, text, disk>>
    BY <1>3 DEF PlanTake, filesVars, planVars
  <2>2. Busy /\ Compilable(s) /\ command \in Contents /\ Settings' = Settings
    BY <1>3, <2>1, TakeIs DEF PlanTake, Busy, Settings
  <2>3. /\ Compiled(s, command).cmd = command
        /\ Onward(world) => \A db \in {mem, disk} : db.obj[s] # None => Older(db.obj[s], Compiled(s, command))
    BY <2>2, CompiledFits, CompiledIsNewest
  <2>4. Onward(world) => command <= Settings
    BY <2>2, SettingsGrow, Numbers
  <2>5. /\ mem'.obj = [mem.obj EXCEPT ![s] = Entry(s, command)]
        /\ mem.obj \in [Units -> Entries \cup {None}]
    BY <1>3, TakeIs DEF IInv, DbsOK, Dbs
  <2>6. /\ Entry(s, command).cmd = command
        /\ Older(Entry(s, command), Compiled(s, command))
    BY <2>2, EntryIsOlder
  <2> QED
    BY <2>1, <2>2, <2>3, <2>4, <2>5, <2>6 DEF IInv, OutOK, OnwardObjInv, BehindObj
<1>4. ASSUME NEW s \in Units, PlanStale(s) PROVE OnwardObjInv'
  <2>1. /\ \A r \in Units : mem'.obj[r] \in {mem.obj[r], None} /\ obj'[r] \in {obj[r], None}
        /\ UNCHANGED <<world, disk>> /\ Settings' = Settings
    BY <1>4, LookedIs DEF PlanStale, IInv, DbsOK, Dbs, MemoInv, Settings, outVars, planVars
  <2> QED
    BY <2>1 DEF IInv, OnwardObjInv, BehindObj
<1>5. CASE PlanDone
  BY <1>5 DEF PlanDone, IInv, OnwardObjInv, BehindObj, Settings, outVars, planVars
<1>6. CASE NoPool
  BY <1>6 DEF NoPool, Blame, IInv, OnwardObjInv, BehindObj, Settings, outVars, planVars
<1>7. CASE WaitPool
  BY <1>7 DEF WaitPool, AllTried, IInv, OnwardObjInv, BehindObj, Settings, outVars, planVars
<1>8. CASE PassDone
  BY <1>8 DEF PassDone, IInv, OnwardObjInv, BehindObj, Settings, outVars, planVars
<1>9. ASSUME NEW s \in Units, Compile(s) PROVE OnwardObjInv'
  <2>1. /\ obj' = [obj EXCEPT ![s] = Compiled(s, command)]
        /\ UNCHANGED <<world, pc, command, text, disk>>
    BY <1>9 DEF Compile, filesVars, planVars
  <2>2. Busy /\ Compilable(s) /\ command \in Contents /\ Settings' = Settings
    BY <1>9, <2>1 DEF Compile, Busy, IInv, PhaseInv, Settings
  <2>3. /\ Compiled(s, command).cmd = command
        /\ Onward(world) => \A db \in {mem, disk} : db.obj[s] # None => Older(db.obj[s], Compiled(s, command))
    BY <2>2, CompiledFits, CompiledIsNewest
  <2>4. Onward(world) => command <= Settings
    BY <2>2, SettingsGrow, Numbers
  <2>5. mem' = mem
    BY <1>9 DEF Compile
  <2> QED
    BY <2>1, <2>2, <2>3, <2>4, <2>5 DEF IInv, OutOK, OnwardObjInv, BehindObj
<1>10. ASSUME NEW s \in Units, CompileFails(s) PROVE OnwardObjInv'
  <2>1. /\ \A r \in Units : mem'.obj[r] \in {mem.obj[r], None} /\ obj'[r] \in {obj[r], None}
        /\ UNCHANGED <<world, disk>> /\ Settings' = Settings
    BY <1>10 DEF CompileFails, IInv, DbsOK, Dbs, Settings, planVars
  <2> QED
    BY <2>1 DEF IInv, OnwardObjInv, BehindObj
<1>11. ASSUME NEW s \in Units, CheckUnit(s) PROVE OnwardObjInv'
  BY <1>11 DEF CheckUnit, IInv, OnwardObjInv, BehindObj, Settings, outVars, planVars
<1>12. ASSUME NEW s \in Units, Absorb(s) PROVE OnwardObjInv'
  <2>1. /\ UNCHANGED <<world, obj, command, text, disk>>
        /\ Busy /\ pc' # "idle"
    BY <1>12 DEF Absorb, filesVars, planVars, Busy
  <2>2. Settings' = Settings /\ Settings = command /\ command \in Contents
    BY <2>1, SettingsGrow DEF Settings, Busy, IInv, PhaseInv
  <2>3. /\ mem'.obj = [mem.obj EXCEPT ![s] = Entry(s, command)]
        /\ mem.obj \in [Units -> Entries \cup {None}]
    BY <1>12, AbsorbIs DEF IInv, DbsOK, Dbs
  <2>4. obj[s] # None => Compilable(s) /\ obj[s] = Compiled(s, command)
    BY <1>12 DEF Absorb, IInv, SigInv, Compiling
  <2>5. Entry(s, command).cmd = command /\ (obj[s] # None => Older(Entry(s, command), obj[s]))
    BY <2>2, <2>4, EntryFits, EntryIsOlder
  <2> QED
    BY <2>1, <2>2, <2>3, <2>5, Numbers DEF IInv, OnwardObjInv, BehindObj
<1>13. CASE LinkSkipped
  BY <1>13 DEF LinkSkipped, IInv, OnwardObjInv, BehindObj, Settings, outVars, planVars
<1>14. CASE Link
  <2>1. /\ \A r \in Units : mem'.obj[r] \in {mem.obj[r], None} /\ obj'[r] \in {obj[r], None}
        /\ UNCHANGED <<world, disk>> /\ Settings' = Settings
    BY <1>14 DEF Link, IInv, DbsOK, Dbs, Settings, planVars
  <2> QED
    BY <2>1 DEF IInv, OnwardObjInv, BehindObj
<1>15. CASE LinkFails
  BY <1>15 DEF LinkFails, Blame, IInv, OnwardObjInv, BehindObj, Settings, planVars
<1>16. CASE Prune
  <2>1. /\ \A r \in Units : mem'.obj[r] \in {mem.obj[r], None} /\ obj'[r] \in {obj[r], None}
        /\ UNCHANGED <<world, disk>> /\ Settings' = Settings
    BY <1>16 DEF Prune, IInv, DbsOK, Dbs, Settings, planVars
  <2> QED
    BY <2>1 DEF IInv, OnwardObjInv, BehindObj
<1>17. CASE Close
  <2>1. /\ mem' = EmptyDb /\ disk' \in {mem, disk} /\ UNCHANGED <<world, obj, text>>
        /\ pc' = "idle"
    BY <1>17 DEF Close, Over, filesVars, outVars
  <2>2. Onward(world) => Settings <= Settings' /\ Settings' \in Nat
    BY <2>1, SettingsGrow, Numbers DEF Settings
  <2> QED
    BY <2>1, <2>2, Numbers DEF IInv, OnwardObjInv, BehindObj, EmptyDb
<1>18. CASE CloseUnsaved
  <2>1. /\ mem' = EmptyDb /\ disk' \in {mem, disk} /\ UNCHANGED <<world, obj, text>>
        /\ pc' = "idle"
    BY <1>18 DEF CloseUnsaved, Over, filesVars, outVars
  <2>2. Onward(world) => Settings <= Settings' /\ Settings' \in Nat
    BY <2>1, SettingsGrow, Numbers DEF Settings
  <2> QED
    BY <2>1, <2>2, Numbers DEF IInv, OnwardObjInv, BehindObj, EmptyDb
<1>19. CASE Crash
  <2>1. /\ mem' = EmptyDb /\ disk' \in {mem, disk} /\ UNCHANGED <<world, obj, text>>
        /\ pc' = "idle"
    BY <1>19 DEF Crash, Over, filesVars, outVars
  <2>2. Onward(world) => Settings <= Settings' /\ Settings' \in Nat
    BY <2>1, SettingsGrow, Numbers DEF Settings
  <2> QED
    BY <2>1, <2>2, Numbers DEF IInv, OnwardObjInv, BehindObj, EmptyDb
<1>20. ASSUME NEW f \in Files, Edit(f) PROVE OnwardObjInv'
  <2>1. UNCHANGED <<world, obj, mem, disk, pc, command>>
    BY <1>20 DEF Edit, outVars, planVars
  <2>2. Onward(world) => Settings <= Settings' /\ Settings' \in Nat
    BY <2>1, <1>20, SettingsGrow, Numbers, EditIs, Sets DEF Settings, Busy, Onward
  <2> QED
    BY <2>1, <2>2, Numbers DEF IInv, OnwardObjInv, BehindObj
<1>21. ASSUME NEW all \in BOOLEAN, CleanRun(all) PROVE OnwardObjInv'
  <2>1. /\ \A s \in Units : obj'[s] = None
        /\ UNCHANGED <<world, mem>> /\ disk' \in {disk, EmptyDb} /\ Settings' = Settings
    BY <1>21 DEF CleanRun, Settings, filesVars, planVars
  <2> QED
    BY <2>1 DEF IInv, OnwardObjInv, BehindObj, EmptyDb
<1>22. CASE UNCHANGED <<world, pc, text, command, obj, mem, disk>>
  BY <1>22 DEF IInv, OnwardObjInv, BehindObj, Settings
<1> QED
  BY <1>1, <1>2, <1>3, <1>4, <1>5, <1>6, <1>7, <1>8, <1>9, <1>10, <1>11, <1>12, <1>13, <1>14,
     <1>15, <1>16, <1>17, <1>18, <1>19, <1>20, <1>21, <1>22
  DEF Next, Molto, Plan, RunPass, Finish, Submit, SubmitRefused, NoSources, filesVars, outVars,
      planVars, vars

\* So is what is linked, and from no fewer objects than there are sources left.
LEMMA OnwardBinStep == IInv /\ [Next]_vars => OnwardBinInv'
<1> SUFFICES ASSUME IInv, [Next]_vars PROVE OnwardBinInv'
  OBVIOUS
<1>1. CASE Open
  <2>1. mem' = disk /\ disk' = disk /\ UNCHANGED <<world, bin, text>> /\ Settings' = Settings
        /\ Scope = Present /\ Scope' = Present /\ Present' = Present
    BY <1>1 DEF Open, filesVars, outVars, Settings, Scope, Present
  <2> QED
    BY <2>1 DEF IInv, OnwardBinInv, BehindBin
<1>2. ASSUME NEW s \in Units, PlanFresh(s) PROVE OnwardBinInv'
  <2>1. /\ UNCHANGED <<world, disk, bin, text, listed>> /\ mem'.bin = mem.bin
        /\ Settings' = Settings /\ Scope' = Scope /\ Present' = Present
    BY <1>2, RememberIs
    DEF PlanFresh, IInv, DbsOK, Dbs, MemoInv, Settings, Scope, Present, filesVars, outVars,
        planVars
  <2> QED
    BY <2>1 DEF IInv, OnwardBinInv, BehindBin
<1>3. ASSUME NEW s \in Units, PlanTake(s) PROVE OnwardBinInv'
  <2>1. /\ UNCHANGED <<world, disk, bin, text, listed>> /\ mem'.bin = mem.bin
        /\ Settings' = Settings /\ Scope' = Scope /\ Present' = Present
    BY <1>3, TakeIs
    DEF PlanTake, IInv, DbsOK, Dbs, MemoInv, Settings, Scope, Present, filesVars, planVars
  <2> QED
    BY <2>1 DEF IInv, OnwardBinInv, BehindBin
<1>4. ASSUME NEW s \in Units, PlanStale(s) PROVE OnwardBinInv'
  <2>1. /\ UNCHANGED <<world, disk, bin, text, listed>> /\ mem'.bin = mem.bin
        /\ Settings' = Settings /\ Scope' = Scope /\ Present' = Present
    BY <1>4, LookedIs
    DEF PlanStale, IInv, DbsOK, Dbs, MemoInv, Settings, Scope, Present, filesVars, outVars,
        planVars
  <2> QED
    BY <2>1 DEF IInv, OnwardBinInv, BehindBin
<1>5. CASE PlanDone
  BY <1>5
  DEF PlanDone, IInv, OnwardBinInv, BehindBin, Settings, Scope, Present, filesVars, outVars,
      planVars
<1>6. CASE NoPool
  BY <1>6
  DEF NoPool, Blame, IInv, OnwardBinInv, BehindBin, Settings, Scope, Present, filesVars,
      outVars, planVars
<1>7. CASE WaitPool
  BY <1>7
  DEF WaitPool, AllTried, IInv, OnwardBinInv, BehindBin, Settings, Scope, Present, filesVars,
      outVars, planVars
<1>8. CASE PassDone
  BY <1>8
  DEF PassDone, IInv, OnwardBinInv, BehindBin, Settings, Scope, Present, filesVars, outVars,
      planVars
<1>9. ASSUME NEW s \in Units, CheckUnit(s) PROVE OnwardBinInv'
  BY <1>9
  DEF CheckUnit, IInv, OnwardBinInv, BehindBin, Settings, Scope, Present, filesVars, outVars,
      planVars
<1>10. ASSUME NEW s \in Units, Absorb(s) PROVE OnwardBinInv'
  <2>1. /\ UNCHANGED <<world, disk, bin, text, listed>> /\ mem'.bin = mem.bin
        /\ Settings' = Settings /\ Scope' = Scope /\ Present' = Present
    BY <1>10, AbsorbIs
    DEF Absorb, IInv, DbsOK, Dbs, MemoInv, Settings, Scope, Present, filesVars, planVars
  <2> QED
    BY <2>1 DEF IInv, OnwardBinInv, BehindBin
<1>11. CASE LinkSkipped
  BY <1>11
  DEF LinkSkipped, IInv, OnwardBinInv, BehindBin, Settings, Scope, Present, filesVars, outVars,
      planVars
<1>12. CASE Link
  <2>1. /\ UNCHANGED <<world, disk, text, listed, command>> /\ Settings' = Settings
        /\ Scope' = Scope /\ Present' = Present /\ Scope = listed
    BY <1>12 DEF Link, filesVars, planVars, Settings, Scope, Present
  <2>2. bin' = [cmd |-> command, objs |-> [s \in listed |-> obj[s]]]
    BY <1>12 DEF Link
  <2>3. mem'.bin = [cmd |-> command, objects |-> listed]
    BY <1>12 DEF Link, IInv, DbsOK, Dbs
  <2>4. Settings = command
    BY <1>12 DEF Link, Settings
  <2> QED
    BY <2>1, <2>2, <2>3, <2>4, Numbers DEF IInv, OnwardBinInv, BehindBin
<1>13. CASE LinkFails
  <2>1. /\ UNCHANGED <<world, mem, disk, text, listed, command>> /\ Settings' = Settings
        /\ Scope' = Scope /\ Present' = Present /\ bin' \in {bin, None}
    BY <1>13 DEF LinkFails, filesVars, planVars, Settings, Scope, Present
  <2> QED
    BY <2>1 DEF IInv, OnwardBinInv, BehindBin
<1>14. CASE Prune
  <2>1. /\ UNCHANGED <<world, disk, bin, text, listed>> /\ mem'.bin = mem.bin
        /\ Settings' = Settings /\ Scope' = Scope /\ Present' = Present
    BY <1>14 DEF Prune, IInv, DbsOK, Dbs, MemoInv, Settings, Scope, Present, filesVars, planVars
  <2> QED
    BY <2>1 DEF IInv, OnwardBinInv, BehindBin
<1>15. CASE Close
  <2>1. /\ mem' = EmptyDb /\ disk' \in {mem, disk} /\ UNCHANGED <<world, bin, text>>
        /\ pc' = "idle"
    BY <1>15 DEF Close, Over, filesVars, outVars
  <2>2. Onward(world) => /\ Settings <= Settings' /\ Settings' \in Nat
                         /\ Scope' = Present' /\ Present' = Present /\ Present \subseteq Scope
    BY <2>1, SettingsGrow, Numbers DEF Settings, Scope, Present, IInv, OnwardBinInv
  <2> QED
    BY <2>1, <2>2, Numbers DEF IInv, OnwardBinInv, BehindBin, EmptyDb
<1>16. CASE CloseUnsaved
  <2>1. /\ mem' = EmptyDb /\ disk' \in {mem, disk} /\ UNCHANGED <<world, bin, text>>
        /\ pc' = "idle"
    BY <1>16 DEF CloseUnsaved, Over, filesVars, outVars
  <2>2. Onward(world) => /\ Settings <= Settings' /\ Settings' \in Nat
                         /\ Scope' = Present' /\ Present' = Present /\ Present \subseteq Scope
    BY <2>1, SettingsGrow, Numbers DEF Settings, Scope, Present, IInv, OnwardBinInv
  <2> QED
    BY <2>1, <2>2, Numbers DEF IInv, OnwardBinInv, BehindBin, EmptyDb
<1>17. CASE Crash
  <2>1. /\ mem' = EmptyDb /\ disk' \in {mem, disk} /\ UNCHANGED <<world, bin, text>>
        /\ pc' = "idle"
    BY <1>17 DEF Crash, Over, filesVars, outVars
  <2>2. Onward(world) => /\ Settings <= Settings' /\ Settings' \in Nat
                         /\ Scope' = Present' /\ Present' = Present /\ Present \subseteq Scope
    BY <2>1, SettingsGrow, Numbers DEF Settings, Scope, Present, IInv, OnwardBinInv
  <2> QED
    BY <2>1, <2>2, Numbers DEF IInv, OnwardBinInv, BehindBin, EmptyDb
<1>18. ASSUME NEW f \in Files, Edit(f) PROVE OnwardBinInv'
  <2>1. UNCHANGED <<world, bin, mem, disk, pc, command, listed>>
    BY <1>18 DEF Edit, outVars, planVars
  <2>2. Onward(world) => Settings <= Settings' /\ Settings' \in Nat
    BY <2>1, <1>18, SettingsGrow, Numbers, EditIs, Sets DEF Settings, Busy, Onward
  <2>3. Onward(world) => Present' \subseteq Present
    BY <1>18, EditIs, Sets DEF Onward, Present
  <2>4. Onward(world) => Present' \subseteq Scope' /\ Scope' \subseteq Scope
    BY <2>1, <2>3 DEF Scope, IInv, OnwardBinInv
  <2> QED
    BY <2>1, <2>2, <2>4, Numbers DEF IInv, OnwardBinInv, BehindBin
<1>19. ASSUME NEW all \in BOOLEAN, CleanRun(all) PROVE OnwardBinInv'
  <2>1. /\ UNCHANGED <<world, mem, text, listed>> /\ bin' = None /\ disk' \in {disk, EmptyDb}
        /\ Settings' = Settings /\ Scope' = Scope /\ Present' = Present
    BY <1>19 DEF CleanRun, Settings, Scope, Present, filesVars, planVars
  <2> QED
    BY <2>1 DEF IInv, OnwardBinInv, BehindBin, EmptyDb
<1>20. CASE UNCHANGED <<world, pc, text, command, listed, bin, mem, disk>>
  BY <1>20 DEF IInv, OnwardBinInv, BehindBin, Settings, Scope, Present
<1> QED
  BY <1>1, <1>2, <1>3, <1>4, <1>5, <1>6, <1>7, <1>8, <1>9, <1>10, <1>11, <1>12, <1>13, <1>14,
     <1>15, <1>16, <1>17, <1>18, <1>19, <1>20
  DEF Next, Molto, Plan, RunPass, Finish, Submit, SubmitRefused, Compile, CompileFails,
      NoSources, filesVars, outVars, planVars, vars

------------------------------------------------------------------------------
(* Records in a settled world                                               *)

\* In a settled world a unit that was compiled is recorded before anything changes.
LEMMA SettledObjStep == IInv /\ [Next]_vars => SettledObjInv'
<1> SUFFICES ASSUME IInv, [Next]_vars PROVE SettledObjInv'
  OBVIOUS
<1>1. ASSUME NEW s \in Units, PlanFresh(s) PROVE SettledObjInv'
  <2>1. /\ \A r \in Units : mem'.obj[r] \in {mem.obj[r], None} /\ obj'[r] \in {obj[r], None}
        /\ UNCHANGED <<world, unit>> /\ pc # "idle" /\ pc' # "idle"
        /\ pc \notin Compiling
    BY <1>1, RememberIs DEF PlanFresh, IInv, DbsOK, Dbs, MemoInv, Compiling, outVars
  <2> QED
    BY <2>1 DEF IInv, SettledObjInv, Matches, Database
<1>2. ASSUME NEW s \in Units, PlanTake(s) PROVE SettledObjInv'
  <2>1. /\ obj' = [obj EXCEPT ![s] = Compiled(s, command)] /\ UNCHANGED <<world, pc>>
        /\ pc = "plan" /\ command \in Contents /\ Compilable(s)
    BY <1>2, TakeIs DEF PlanTake
  <2>2. /\ mem'.obj = [mem.obj EXCEPT ![s] = Entry(s, command)]
        /\ mem.obj \in [Units -> Entries \cup {None}]
    BY <1>2, TakeIs DEF IInv, DbsOK, Dbs
  <2>3. Matches(Entry(s, command), Compiled(s, command))
    BY <2>1, EntryFits, CompiledFits DEF Matches
  <2> QED
    BY <2>1, <2>2, <2>3 DEF IInv, OutOK, SettledObjInv, Database, Compiling
<1>3. ASSUME NEW s \in Units, PlanStale(s) PROVE SettledObjInv'
  <2>1. mem'.obj = mem.obj /\ UNCHANGED <<world, obj, pc>> /\ pc = "plan"
    BY <1>3, LookedIs DEF PlanStale, outVars
  <2> QED
    BY <2>1 DEF IInv, SettledObjInv, Database, Compiling
<1>4. ASSUME NEW s \in Units, Submit(s) PROVE SettledObjInv'
  BY <1>4 DEF Submit, IInv, SettledObjInv, Matches, Database, PlanOK, OutOK, PhaseInv, outVars
<1>5. ASSUME NEW s \in Units, SubmitRefused(s) PROVE SettledObjInv'
  BY <1>5
  DEF SubmitRefused, Blame, IInv, SettledObjInv, Matches, Database, PlanOK, OutOK, PhaseInv,
      outVars
<1>6. ASSUME NEW s \in Units, Compile(s) PROVE SettledObjInv'
  BY <1>6 DEF Compile, IInv, SettledObjInv, Matches, Database, PlanOK, Compiling
<1>7. ASSUME NEW s \in Units, CompileFails(s) PROVE SettledObjInv'
  BY <1>7 DEF CompileFails, Blame, IInv, SettledObjInv, Matches, Database, PlanOK
<1>8. ASSUME NEW s \in Units, CheckUnit(s) PROVE SettledObjInv'
  BY <1>8
  DEF CheckUnit, IInv, SettledObjInv, Matches, Database, PlanOK, OutOK, Compiling, outVars
<1>9. ASSUME NEW s \in Units, Absorb(s) PROVE SettledObjInv'
  <2>1. UNCHANGED <<world, obj>> /\ pc = "absorb" /\ pc' = "record" /\ command \in Contents
        /\ \A r \in Units \ {s} : unit'[r] = unit[r]
    BY <1>9, AbsorbIs DEF Absorb, IInv, PlanOK
  <2>2. /\ mem'.obj = [mem.obj EXCEPT ![s] = Entry(s, command)]
        /\ mem.obj \in [Units -> Entries \cup {None}]
    BY <1>9, AbsorbIs DEF IInv, DbsOK, Dbs
  <2>3. obj[s] # None => Matches(Entry(s, command), obj[s])
    <3>1. obj[s] # None => Compilable(s) /\ obj[s] = Compiled(s, command)
      BY <1>9 DEF Absorb, IInv, SigInv, Compiling
    <3> QED
      BY <2>1, <3>1, EntryFits, CompiledFits DEF Matches
  <2> QED
    BY <2>1, <2>2, <2>3 DEF IInv, SettledObjInv, Database, Compiling
<1>10. CASE NoSources
  BY <1>10
  DEF NoSources, IInv, SettledObjInv, Matches, Database, PlanOK, OutOK, Compiling, outVars
<1>11. CASE Open
  BY <1>11 DEF Open, IInv, SettledObjInv, Matches, Database, PlanOK, Compiling, outVars
<1>12. CASE PlanDone
  BY <1>12
  DEF PlanDone, IInv, SettledObjInv, Matches, Database, PlanOK, OutOK, PhaseInv, outVars
<1>13. CASE NoPool
  <2>1. Settled(world) => \A s \in Units : unit[s] \notin {"built", "checked"}
    BY <1>13 DEF NoPool, IInv, PhaseInv, StillInv, Still
  <2> QED
    BY <1>13, <2>1 DEF NoPool, IInv, SettledObjInv, Database, outVars
<1>14. CASE WaitPool
  BY <1>14
  DEF WaitPool, IInv, SettledObjInv, Matches, Database, PlanOK, OutOK, PhaseInv, Compiling,
      AllTried, outVars
<1>15. CASE PassDone
  <2>1. Settled(world) => \A s \in Units : unit[s] \notin {"built", "checked"}
    BY <1>15 DEF PassDone, IInv, PhaseInv, StillInv, Still
  <2> QED
    BY <1>15, <2>1 DEF PassDone, IInv, SettledObjInv, Database, outVars
<1>16. CASE LinkSkipped
  BY <1>16
  DEF LinkSkipped, IInv, SettledObjInv, Matches, Database, PlanOK, OutOK, Compiling, outVars
<1>17. CASE Link
  <2>1. /\ \A r \in Units : mem'.obj[r] \in {mem.obj[r], None} /\ obj'[r] \in {obj[r], None}
        /\ UNCHANGED <<world, unit>> /\ pc # "idle" /\ pc' # "idle"
        /\ pc \notin Compiling
    BY <1>17 DEF Link, IInv, DbsOK, Dbs, Compiling
  <2> QED
    BY <2>1 DEF IInv, SettledObjInv, Matches, Database
<1>18. CASE LinkFails
  <2>1. /\ \A r \in Units : mem'.obj[r] \in {mem.obj[r], None} /\ obj'[r] \in {obj[r], None}
        /\ UNCHANGED <<world, unit>> /\ pc # "idle" /\ pc' # "idle"
        /\ pc \notin Compiling
    BY <1>18 DEF LinkFails, IInv, DbsOK, Dbs, Compiling
  <2> QED
    BY <2>1 DEF IInv, SettledObjInv, Matches, Database
<1>19. CASE Prune
  <2>1. /\ \A r \in Units : mem'.obj[r] \in {mem.obj[r], None} /\ obj'[r] \in {obj[r], None}
        /\ UNCHANGED <<world, unit>> /\ pc # "idle" /\ pc' # "idle"
        /\ pc \notin Compiling
    BY <1>19 DEF Prune, IInv, DbsOK, Dbs, Compiling
  <2> QED
    BY <2>1 DEF IInv, SettledObjInv, Matches, Database
<1>20. CASE Close
  BY <1>20 DEF Close, Over, IInv, SettledObjInv, Matches, Database, PlanOK, Compiling, outVars
<1>21. CASE CloseUnsaved
  <2>1. ~Settled(world) /\ world' = world
    BY <1>21 DEF CloseUnsaved, Blame, Settled, Over
  <2> QED
    BY <2>1 DEF SettledObjInv
<1>22. CASE Crash
  <2>1. ~Settled(world) /\ world' = world
    BY <1>22 DEF Crash, Blame, Settled, Over
  <2> QED
    BY <2>1 DEF SettledObjInv
<1>23. ASSUME NEW all \in BOOLEAN, CleanRun(all) PROVE SettledObjInv'
  BY <1>23 DEF CleanRun, Blame, IInv, SettledObjInv, Matches, Database, PlanOK
<1>24. CASE UNCHANGED <<world, pc, obj, unit, mem, disk>>
  BY <1>24 DEF IInv, SettledObjInv, Matches, Database
<1> QED
  BY <1>1, <1>2, <1>3, <1>4, <1>5, <1>6, <1>7, <1>8, <1>9, <1>10, <1>11, <1>12, <1>13, <1>14,
     <1>15, <1>16, <1>17, <1>18, <1>19, <1>20, <1>21, <1>22, <1>23, <1>24
  DEF Next, Molto, Plan, RunPass, Finish, Edit, outVars, vars

\* And the binary there is, if there is one, is the one that was recorded.
LEMMA SettledBinStep == IInv /\ [Next]_vars => SettledBinInv'
<1> SUFFICES ASSUME IInv, [Next]_vars PROVE SettledBinInv'
  OBVIOUS
<1>1. ASSUME NEW s \in Units, PlanFresh(s) PROVE SettledBinInv'
  <2>1. UNCHANGED <<world, disk, bin>> /\ mem'.bin = mem.bin /\ pc # "idle" /\ pc' # "idle"
    BY <1>1, RememberIs DEF PlanFresh, IInv, DbsOK, MemoInv, outVars
  <2> QED
    BY <2>1 DEF IInv, SettledBinInv, Database
<1>2. ASSUME NEW s \in Units, PlanTake(s) PROVE SettledBinInv'
  <2>1. UNCHANGED <<world, disk, bin>> /\ mem'.bin = mem.bin /\ pc # "idle" /\ pc' # "idle"
    BY <1>2, TakeIs DEF PlanTake, IInv
  <2> QED
    BY <2>1 DEF IInv, SettledBinInv, Database
<1>3. ASSUME NEW s \in Units, PlanStale(s) PROVE SettledBinInv'
  <2>1. UNCHANGED <<world, disk, bin>> /\ mem'.bin = mem.bin /\ pc # "idle" /\ pc' # "idle"
    BY <1>3, LookedIs DEF PlanStale, IInv, DbsOK, outVars
  <2> QED
    BY <2>1 DEF IInv, SettledBinInv, Database
<1>4. ASSUME NEW s \in Units, CheckUnit(s) PROVE SettledBinInv'
  BY <1>4 DEF CheckUnit, IInv, SettledBinInv, Database, outVars
<1>5. ASSUME NEW s \in Units, Absorb(s) PROVE SettledBinInv'
  <2>1. UNCHANGED <<world, disk, bin>> /\ mem'.bin = mem.bin /\ pc # "idle" /\ pc' # "idle"
    BY <1>5, AbsorbIs DEF Absorb, IInv
  <2> QED
    BY <2>1 DEF IInv, SettledBinInv, Database
<1>6. CASE Open
  BY <1>6 DEF Open, IInv, SettledBinInv, Database, outVars
<1>7. CASE PlanDone
  BY <1>7 DEF PlanDone, IInv, SettledBinInv, Database, outVars
<1>8. CASE NoPool
  BY <1>8 DEF NoPool, Blame, IInv, SettledBinInv, Database, outVars
<1>9. CASE WaitPool
  BY <1>9 DEF WaitPool, IInv, SettledBinInv, Database, AllTried, outVars
<1>10. CASE PassDone
  BY <1>10 DEF PassDone, IInv, SettledBinInv, Database, outVars
<1>11. CASE LinkSkipped
  BY <1>11 DEF LinkSkipped, IInv, SettledBinInv, Database, outVars
<1>12. CASE Link
  <2>1. bin' = [cmd |-> command, objs |-> [s \in listed |-> obj[s]]] /\ pc' # "idle"
    BY <1>12 DEF Link
  <2>2. mem'.bin = [cmd |-> command, objects |-> listed] /\ mem'.bin # None
    <3>1. [cmd |-> command, objects |-> listed] \in Links
      BY <1>12 DEF Link, IInv, PhaseInv, Busy, PlanOK, Links
    <3> QED
      BY <1>12, <3>1, NoneAssumption DEF Link, IInv, DbsOK, Dbs
  <2> QED
    BY <2>1, <2>2 DEF SettledBinInv, Database
<1>13. CASE LinkFails
  BY <1>13 DEF LinkFails, Blame, IInv, SettledBinInv, Database
<1>14. CASE Prune
  <2>1. UNCHANGED <<world, disk, bin>> /\ mem'.bin = mem.bin /\ pc # "idle" /\ pc' # "idle"
    BY <1>14 DEF Prune, IInv
  <2> QED
    BY <2>1 DEF IInv, SettledBinInv, Database
<1>15. CASE Close
  BY <1>15 DEF Close, Over, IInv, SettledBinInv, Database, outVars
<1>16. CASE CloseUnsaved
  <2>1. ~Settled(world) /\ world' = world
    BY <1>16 DEF CloseUnsaved, Blame, Settled, Over
  <2> QED
    BY <2>1 DEF SettledBinInv
<1>17. CASE Crash
  <2>1. ~Settled(world) /\ world' = world
    BY <1>17 DEF Crash, Blame, Settled, Over
  <2> QED
    BY <2>1 DEF SettledBinInv
<1>18. ASSUME NEW all \in BOOLEAN, CleanRun(all) PROVE SettledBinInv'
  BY <1>18 DEF CleanRun, Blame, IInv, SettledBinInv
<1>19. CASE UNCHANGED <<world, pc, bin, mem, disk>>
  BY <1>19 DEF IInv, SettledBinInv, Database
<1> QED
  BY <1>1, <1>2, <1>3, <1>4, <1>5, <1>6, <1>7, <1>8, <1>9, <1>10, <1>11, <1>12, <1>13, <1>14,
     <1>15, <1>16, <1>17, <1>18, <1>19
  DEF Next, Molto, Plan, RunPass, Finish, Submit, SubmitRefused, Compile, CompileFails,
      NoSources, Edit, outVars, vars

------------------------------------------------------------------------------
(* A unit that is found fresh                                               *)

\* A snapshot of the right settings and the right contents is what a compiler would make.
LEMMA SameSnapshot ==
  ASSUME IInv, NEW s \in Units, NEW c, obj[s] # None, obj[s].cmd = c,
         \A f \in Prereqs(s) : obj[s].text[f] = text[f]
  PROVE  obj[s] = Compiled(s, c)
<1>1. obj[s] \in [cmd : Contents, text : [Prereqs(s) -> Contents]]
  BY DEF IInv, ObjInv
<1>2. obj[s].text = [f \in Prereqs(s) |-> text[f]]
  BY <1>1
<1>3. obj[s] = [cmd |-> obj[s].cmd, text |-> obj[s].text]
  BY <1>1
<1> QED
  BY <1>2, <1>3 DEF Compiled

\* wsdb_object_fresh: in an onward world the record is too old to fit unless it is of this very
\* object; in a settled one it is of this object, or the object was made a moment ago.
LEMMA FreshRight ==
  ASSUME IInv, NEW s \in Units, ObjectFresh(Database, s, Settings)
  PROVE  obj[s] = Compiled(s, Settings) /\ Compilable(s)
<1> DEFINE e == Database.obj[s]
<1>1. Database \in {mem, disk}
  BY DEF Database
<1>2. /\ e # None /\ e.cmd = Settings /\ obj[s] # None /\ DOMAIN e.hash = Prereqs(s)
      /\ \A f \in Prereqs(s) : text[f] # Gone /\ Hash(Database, f) = e.hash[f]
  BY DEF ObjectFresh
<1>3. \A f \in Prereqs(s) : e.hash[f] = text[f]
  BY <1>1, <1>2, HashIsText, Sets DEF IInv, MemoInv
<1>4. Compilable(s)
  BY <1>2 DEF Compilable
<1>5. CASE Onward(world)
  <2>1. Older(e, obj[s]) /\ obj[s].cmd <= Settings
    BY <1>1, <1>2, <1>5 DEF IInv, OnwardObjInv, BehindObj
  <2>2. obj[s].cmd = Settings
    BY <2>1, <1>2, Numbers DEF Older
  <2>3. ASSUME NEW f \in Prereqs(s) PROVE obj[s].text[f] = text[f]
    <3>1. text[f] = stamp[f]
      BY <1>2, <1>5, Sets DEF IInv, FilesInv, Onward
    <3>2. text[f] <= obj[s].text[f] /\ obj[s].text[f] <= stamp[f]
      BY <1>2, <1>3, <2>1 DEF Older, IInv, ObjInv
    <3>3. stamp[f] \in Nat /\ obj[s].text[f] \in Nat
      BY <1>2, Numbers, Sets DEF IInv, FilesOK
    <3> QED
      BY <3>1, <3>2, <3>3
  <2> QED
    BY <1>2, <1>4, <2>2, <2>3, SameSnapshot
<1>6. CASE Settled(world)
  <2>1. CASE Matches(e, obj[s])
    BY <1>2, <1>3, <1>4, <2>1, SameSnapshot DEF Matches
  <2>2. CASE pc \in Compiling /\ unit[s] \in {"built", "checked"}
    <3>1. Signature(s) = sig[s] \/ unit[s] = "checked"
      BY <1>6, <2>2 DEF IInv, StillInv, Still
    <3>2. obj[s] = Compiled(s, command)
      BY <1>2, <2>2, <3>1 DEF IInv, SigInv
    <3> QED
      BY <1>4, <2>2, <3>2 DEF Settings, Compiling
  <2> QED
    BY <1>2, <1>6, <2>1, <2>2 DEF IInv, SettledObjInv
<1> QED
  BY <1>5, <1>6 DEF IInv

\* With every prerequisite there, what is recorded is the whole entry.
LEMMA EntryIsFull ==
  ASSUME NEW s \in Units, Compilable(s)
  PROVE  Entry(s, command) = FullEntry(s)
<1>1. Readable(s) = Prereqs(s)
  BY DEF Readable, Compilable
<1> QED
  BY <1>1 DEF Entry, FullEntry

\* And a whole entry of the object there is is found fresh.
LEMMA FullIsFresh ==
  ASSUME IInv, NEW s \in Units, Compilable(s), command \in Contents,
         obj[s] = Compiled(s, command), mem.obj[s] = FullEntry(s)
  PROVE  ObjectFresh(mem, s, command)
<1>1. mem.obj[s] = Entry(s, command) /\ Readable(s) = Prereqs(s)
  BY EntryIsFull DEF Readable, Compilable
<1>2. \A f \in Prereqs(s) : Hash(mem, f) = text[f]
  BY HashIsText, Sets DEF IInv, MemoInv, Compilable
<1> QED
  BY <1>1, <1>2, EntryFits, CompiledFits DEF ObjectFresh, Compilable

\* A unit that is through has the object a compiler would make, and the whole entry of it.
LEMMA WorkStep == IInv /\ [Next]_vars => WorkInv'
<1> SUFFICES ASSUME IInv, [Next]_vars PROVE WorkInv'
  OBVIOUS
<1>1. ASSUME NEW s \in Units, PlanFresh(s) PROVE WorkInv'
  <2>1. /\ UNCHANGED <<text, command, listed, quiet, obj, unit, pc>> /\ pc = "plan"
        /\ todo' = todo \ {s} /\ mem'.obj = mem.obj
    BY <1>1, RememberIs DEF PlanFresh, filesVars, planVars, outVars, IInv, DbsOK, MemoInv
  <2>2. ObjectFresh(Database, s, Settings) /\ Settings = command /\ Database = mem
    BY <1>1 DEF PlanFresh, Database, Settings
  <2>3. obj[s] = Compiled(s, command) /\ Compilable(s)
    BY <2>2, FreshRight
  <2>4. mem.obj[s] = FullEntry(s)
    <3>1. /\ mem.obj[s] # None /\ mem.obj[s].cmd = command /\ DOMAIN mem.obj[s].hash = Prereqs(s)
          /\ \A f \in Prereqs(s) : mem.obj[s].hash[f] = text[f]
      BY <2>2, HashIsText, Sets DEF ObjectFresh, IInv, MemoInv
    <3>2. mem.obj[s] \in Entries
      BY <3>1 DEF IInv, DbsOK, Dbs
    <3>3. PICK fs \in SUBSET Files : mem.obj[s].hash \in [fs -> Contents]
      BY <3>2 DEF Entries
    <3>4. mem.obj[s].hash = [f \in Prereqs(s) |-> text[f]]
      BY <3>1, <3>3
    <3>5. mem.obj[s] = [cmd |-> mem.obj[s].cmd, hash |-> mem.obj[s].hash]
      BY <3>2 DEF Entries
    <3> QED
      BY <3>1, <3>4, <3>5 DEF FullEntry
  <2> QED
    BY <2>1, <2>3, <2>4 DEF IInv, WorkInv, Through, Busy, Compiled, FullEntry, Compilable
<1>2. ASSUME NEW s \in Units, PlanTake(s) PROVE WorkInv'
  <2>1. /\ UNCHANGED <<text, command, listed, quiet, unit, pc>> /\ pc = "plan"
        /\ todo' = todo \ {s} /\ obj' = [obj EXCEPT ![s] = Compiled(s, command)]
    BY <1>2 DEF PlanTake, filesVars, planVars
  <2>2. mem'.obj = [mem.obj EXCEPT ![s] = FullEntry(s)] /\ Compilable(s)
        /\ mem.obj \in [Units -> Entries \cup {None}] /\ listed \subseteq Units
    BY <1>2, TakeIs, EntryIsFull DEF IInv, DbsOK, Dbs, PlanOK
  <2>3. \A r \in listed : unit[r] \notin {"built", "checked"}
    BY <2>1 DEF IInv, PhaseInv, PlanOK
  <2> QED
    BY <2>1, <2>2, <2>3 DEF IInv, OutOK, WorkInv, Through, Busy, Compiled, FullEntry, Compilable
<1>3. ASSUME NEW s \in Units, PlanStale(s) PROVE WorkInv'
  <2>1. /\ UNCHANGED <<text, command, listed, quiet, obj, pc>> /\ pc = "plan" /\ listed \subseteq Units
        /\ todo' = todo \ {s} /\ mem'.obj = mem.obj /\ unit' = [unit EXCEPT ![s] = "need"]
    BY <1>3, LookedIs DEF PlanStale, filesVars, planVars, outVars, IInv, PlanOK
  <2> QED
    BY <2>1 DEF IInv, PlanOK, WorkInv, Through, Busy, Compiled, FullEntry, Compilable
<1>4. ASSUME NEW s \in Units, Submit(s) PROVE WorkInv'
  BY <1>4
  DEF Submit, IInv, WorkInv, Through, Busy, Compiled, FullEntry, Compilable, PlanOK, filesVars,
      outVars, planVars
<1>5. ASSUME NEW s \in Units, SubmitRefused(s) PROVE WorkInv'
  BY <1>5
  DEF SubmitRefused, Blame, IInv, WorkInv, Through, Busy, Compiled, FullEntry, Compilable,
      PlanOK, filesVars, outVars, planVars
<1>6. ASSUME NEW s \in Units, Compile(s) PROVE WorkInv'
  <2>1. /\ UNCHANGED <<text, command, listed, quiet, pc, mem>> /\ pc = "submit" /\ listed \subseteq Units
        /\ unit' = [unit EXCEPT ![s] = "built"] /\ obj' = [obj EXCEPT ![s] = Compiled(s, command)]
        /\ Compilable(s) /\ command \in Contents
    BY <1>6 DEF Compile, filesVars, planVars, IInv, PlanOK, PhaseInv, Busy
  <2>2. Compiled(s, command) # None
    BY <2>1, CompiledFits
  <2> QED
    BY <2>1, <2>2
    DEF IInv, PlanOK, OutOK, WorkInv, Through, Busy, Compiled, FullEntry, Compilable
<1>7. ASSUME NEW s \in Units, CompileFails(s) PROVE WorkInv'
  BY <1>7
  DEF CompileFails, Blame, IInv, WorkInv, Through, Busy, Compiled, FullEntry, Compilable,
      filesVars, planVars
<1>8. ASSUME NEW s \in Units, CheckUnit(s) PROVE WorkInv'
  BY <1>8
  DEF CheckUnit, IInv, WorkInv, Through, Busy, Compiled, FullEntry, Compilable, PlanOK,
      filesVars, outVars, planVars
<1>9. ASSUME NEW s \in Units, Absorb(s) PROVE WorkInv'
  <2>1. /\ UNCHANGED <<text, command, listed, quiet, obj>> /\ pc = "absorb" /\ pc' = "record"
        /\ unit' = [unit EXCEPT ![s] = "recorded"] /\ listed \subseteq Units /\ unit[s] = "checked"
    BY <1>9 DEF Absorb, filesVars, planVars, IInv, PlanOK
  <2>2. Compilable(s) /\ (obj[s] # None => obj[s] = Compiled(s, command))
    BY <2>1 DEF IInv, SigInv, Compiling
  <2>3. mem'.obj = [mem.obj EXCEPT ![s] = FullEntry(s)]
        /\ mem.obj \in [Units -> Entries \cup {None}]
    BY <1>9, <2>2, AbsorbIs, EntryIsFull DEF IInv, DbsOK, Dbs
  <2> QED
    BY <2>1, <2>2, <2>3
    DEF IInv, PlanOK, WorkInv, Through, Busy, Compiled, FullEntry, Compilable
<1>10. CASE NoSources
  BY <1>10 DEF NoSources, IInv, WorkInv, Through, Busy, Compiled, FullEntry, Compilable, PlanOK
<1>11. CASE Open
  <2>1. pc' = "plan" /\ todo' = listed' /\ \A s \in Units : unit'[s] = "out"
    BY <1>11 DEF Open
  <2>2. listed' \subseteq Units
    BY <1>11, Sets DEF Open, Present
  <2> QED
    BY <2>1, <2>2 DEF WorkInv, Through
<1>12. CASE PlanDone
  BY <1>12
  DEF PlanDone, IInv, WorkInv, Through, Busy, Compiled, FullEntry, Compilable, PlanOK, OutOK,
      filesVars, outVars, planVars
<1>13. CASE NoPool
  BY <1>13
  DEF NoPool, Blame, IInv, WorkInv, Through, Busy, Compiled, FullEntry, Compilable, PlanOK,
      filesVars, outVars, planVars
<1>14. CASE WaitPool
  BY <1>14
  DEF WaitPool, IInv, WorkInv, Through, Busy, Compiled, FullEntry, Compilable, PlanOK, OutOK,
      AllTried, filesVars, outVars, planVars
<1>15. CASE PassDone
  BY <1>15
  DEF PassDone, IInv, WorkInv, Through, Busy, Compiled, FullEntry, Compilable, PlanOK, OutOK,
      filesVars, outVars, planVars
<1>16. CASE LinkSkipped
  BY <1>16
  DEF LinkSkipped, IInv, WorkInv, Through, Busy, Compiled, FullEntry, Compilable, PlanOK,
      filesVars, outVars, planVars
<1>17. CASE Link
  <2>1. /\ UNCHANGED <<text, command, listed, quiet>> /\ pc # "idle"
        /\ \A s \in listed : mem'.obj[s] = mem.obj[s]
    BY <1>17 DEF Link, filesVars, planVars, IInv, DbsOK
  <2> QED
    BY <1>17, <2>1 DEF Link, IInv, WorkInv, Through, Busy, Compiled, FullEntry, Compilable
<1>18. CASE LinkFails
  BY <1>18
  DEF LinkFails, Blame, IInv, WorkInv, Through, Busy, Compiled, FullEntry, Compilable,
      filesVars, planVars
<1>19. CASE Prune
  <2>1. /\ UNCHANGED <<text, command, listed, quiet, unit>> /\ pc = "prune" /\ pc' = "close"
        /\ \A s \in listed : mem'.obj[s] = mem.obj[s] /\ obj'[s] = obj[s]
    BY <1>19 DEF Prune, filesVars, planVars, IInv, PlanOK
  <2> QED
    BY <2>1 DEF IInv, WorkInv, Through, Busy, Compiled, FullEntry, Compilable
<1>20. CASE Close
  BY <1>20 DEF Close, Over, IInv, WorkInv, Through, Busy, Compiled, FullEntry, Compilable
<1>21. CASE CloseUnsaved
  BY <1>21
  DEF CloseUnsaved, Over, Blame, IInv, WorkInv, Through, Busy, Compiled, FullEntry, Compilable
<1>22. CASE Crash
  BY <1>22 DEF Crash, Over, Blame, IInv, WorkInv, Through, Busy, Compiled, FullEntry, Compilable
<1>23. ASSUME NEW f \in Files, Edit(f) PROVE WorkInv'
  <2>1. quiet' = FALSE
    BY <1>23 DEF Edit
  <2> QED
    BY <2>1 DEF WorkInv
<1>24. ASSUME NEW all \in BOOLEAN, CleanRun(all) PROVE WorkInv'
  BY <1>24 DEF CleanRun, Blame, IInv, WorkInv, Through, Busy, Compiled, FullEntry, Compilable
<1>25. CASE UNCHANGED <<vars>>
  BY <1>25 DEF IInv, WorkInv, Through, Busy, Compiled, FullEntry, Compilable, vars
<1> QED
  BY <1>1, <1>2, <1>3, <1>4, <1>5, <1>6, <1>7, <1>8, <1>9, <1>10, <1>11, <1>12, <1>13, <1>14,
     <1>15, <1>16, <1>17, <1>18, <1>19, <1>20, <1>21, <1>22, <1>23, <1>24, <1>25
  DEF Next, Molto, Plan, RunPass, Finish

------------------------------------------------------------------------------
(* The binary                                                               *)

\* An object that is put in place is newer than the binary until the binary is linked again.
LEMMA BinStep == IInv /\ [Next]_vars => BinInv'
<1> SUFFICES ASSUME IInv, [Next]_vars PROVE BinInv'
  OBVIOUS
<1>1. ASSUME NEW s \in Units, PlanTake(s) PROVE BinInv'
  <2>1. newer' = newer \cup {s} /\ bin' = bin /\ \A r \in Units \ {s} : obj'[r] = obj[r]
    BY <1>1 DEF PlanTake, IInv, OutOK
  <2>2. bin # None => DOMAIN bin.objs \subseteq Units
    BY DEF IInv, OutOK, Binaries
  <2> QED
    BY <2>1, <2>2 DEF IInv, BinInv
<1>2. ASSUME NEW s \in Units, Compile(s) PROVE BinInv'
  <2>1. newer' = newer \cup {s} /\ bin' = bin /\ \A r \in Units \ {s} : obj'[r] = obj[r]
    BY <1>2 DEF Compile, IInv, OutOK
  <2>2. bin # None => DOMAIN bin.objs \subseteq Units
    BY DEF IInv, OutOK, Binaries
  <2> QED
    BY <2>1, <2>2 DEF IInv, BinInv
<1>3. ASSUME NEW s \in Units, CompileFails(s) PROVE BinInv'
  <2>1. newer' = newer /\ bin' = bin /\ \A r \in Units : obj'[r] \in {obj[r], None}
    BY <1>3 DEF CompileFails, IInv, OutOK
  <2>2. bin # None => DOMAIN bin.objs \subseteq Units
    BY DEF IInv, OutOK, Binaries
  <2> QED
    BY <2>1, <2>2 DEF IInv, BinInv
<1>4. CASE Link
  <2>1. bin' = [cmd |-> command, objs |-> [s \in listed |-> obj[s]]] /\ obj' = obj
    BY <1>4 DEF Link
  <2> QED
    BY <2>1 DEF BinInv
<1>5. CASE LinkFails
  BY <1>5 DEF LinkFails, Blame, IInv, BinInv
<1>6. CASE Prune
  <2>1. newer' = newer /\ bin' = bin /\ \A r \in Units : obj'[r] \in {obj[r], None}
    BY <1>6 DEF Prune, IInv, OutOK
  <2>2. bin # None => DOMAIN bin.objs \subseteq Units
    BY DEF IInv, OutOK, Binaries
  <2> QED
    BY <2>1, <2>2 DEF IInv, BinInv
<1>7. ASSUME NEW all \in BOOLEAN, CleanRun(all) PROVE BinInv'
  BY <1>7 DEF CleanRun, Blame, IInv, BinInv
<1>8. CASE UNCHANGED <<obj, newer, bin>>
  BY <1>8 DEF IInv, BinInv, OutOK
<1> QED
  BY <1>1, <1>2, <1>3, <1>4, <1>5, <1>6, <1>7, <1>8
  DEF Next, Molto, Plan, RunPass, Finish, PlanFresh, PlanStale, Submit, SubmitRefused,
      CheckUnit, Absorb, NoSources, Open, PlanDone, NoPool, WaitPool, PassDone, LinkSkipped,
      Close, CloseUnsaved, Crash, Edit, outVars, vars

\* link_needed: when nothing has to be linked, the binary is the one a linker would make.
LEMMA SkippedIsLinked ==
  ASSUME IInv, LinkSkipped
  PROVE  Linked
<1>1. /\ ~forced /\ BinaryFresh(mem, command, listed)
      /\ \A s \in listed : s \notin newer /\ obj[s] # None
      /\ pc = "link"
  BY DEF LinkSkipped, LinkNeeded
<1>2. mem.bin = [cmd |-> command, objects |-> listed] /\ bin # None
  BY <1>1 DEF BinaryFresh
<1>3. mem.bin # None
  <2>1. command \in Contents /\ listed \in SUBSET Units
    BY <1>1 DEF IInv, PhaseInv, Busy, PlanOK
  <2>2. [cmd |-> command, objects |-> listed] \in Links
    BY <2>1 DEF Links
  <2> QED
    BY <1>2, <2>2, NoneAssumption
<1>4. mem.bin.cmd = command /\ mem.bin.objects = listed
  BY <1>2
<1>5. bin.cmd = command /\ DOMAIN bin.objs = listed
  <2>1. CASE Onward(world)
    <3>1. /\ command <= bin.cmd /\ bin.cmd <= Settings
          /\ Scope \subseteq DOMAIN bin.objs /\ DOMAIN bin.objs \subseteq listed
      BY <1>2, <1>3, <1>4, <2>1 DEF IInv, OnwardBinInv, BehindBin
    <3>2. Settings = command /\ Scope = listed
      BY <1>1 DEF Settings, Scope
    <3>3. command \in Nat /\ bin.cmd \in Nat
      BY <1>2, <3>2, Numbers
    <3>4. bin.cmd = command
      BY <3>1, <3>2, <3>3
    <3> QED
      BY <3>1, <3>2, <3>4
  <2>2. CASE Settled(world)
    BY <1>1, <1>2, <1>4, <2>2 DEF IInv, SettledBinInv, Database
  <2> QED
    BY <2>1, <2>2 DEF IInv
<1>6. PICK objects \in SUBSET Units : bin \in [cmd : Contents, objs : [objects -> Snapshots]]
  BY <1>2 DEF IInv, OutOK, Binaries
<1>7. bin.objs = [s \in listed |-> obj[s]]
  <2>1. \A s \in listed : bin.objs[s] = obj[s]
    BY <1>1, <1>2, <1>5 DEF IInv, BinInv
  <2> QED
    BY <1>5, <1>6, <2>1
<1>8. bin = [cmd |-> bin.cmd, objs |-> bin.objs]
  BY <1>6
<1>9. newer \cap listed = {}
  BY <1>1
<1> QED
  BY <1>2, <1>5, <1>7, <1>8, <1>9 DEF Linked

\* A build that gets to the end has the binary of its objects, and has recorded it.
LEMMA LinkedStep == IInv /\ [Next]_vars => LinkedInv'
<1> SUFFICES ASSUME IInv, [Next]_vars PROVE LinkedInv'
  OBVIOUS
<1>1. ASSUME NEW s \in Units, PlanFresh(s) PROVE LinkedInv'
  BY <1>1 DEF PlanFresh, IInv, LinkedInv
<1>2. ASSUME NEW s \in Units, PlanTake(s) PROVE LinkedInv'
  BY <1>2 DEF PlanTake, IInv, LinkedInv
<1>3. ASSUME NEW s \in Units, PlanStale(s) PROVE LinkedInv'
  BY <1>3 DEF PlanStale, IInv, LinkedInv
<1>4. ASSUME NEW s \in Units, Submit(s) PROVE LinkedInv'
  BY <1>4 DEF Submit, IInv, LinkedInv
<1>5. ASSUME NEW s \in Units, SubmitRefused(s) PROVE LinkedInv'
  BY <1>5 DEF SubmitRefused, Blame, IInv, LinkedInv
<1>6. ASSUME NEW s \in Units, Compile(s) PROVE LinkedInv'
  BY <1>6 DEF Compile, IInv, LinkedInv
<1>7. ASSUME NEW s \in Units, CompileFails(s) PROVE LinkedInv'
  BY <1>7 DEF CompileFails, Blame, IInv, LinkedInv
<1>8. ASSUME NEW s \in Units, CheckUnit(s) PROVE LinkedInv'
  BY <1>8 DEF CheckUnit, IInv, LinkedInv
<1>9. ASSUME NEW s \in Units, Absorb(s) PROVE LinkedInv'
  BY <1>9 DEF Absorb, IInv, LinkedInv
<1>10. CASE NoSources
  BY <1>10 DEF NoSources, IInv, LinkedInv
<1>11. CASE Open
  BY <1>11 DEF Open, IInv, LinkedInv
<1>12. CASE PlanDone
  BY <1>12 DEF PlanDone, IInv, LinkedInv
<1>13. CASE NoPool
  BY <1>13 DEF NoPool, Blame, IInv, LinkedInv
<1>14. CASE WaitPool
  BY <1>14 DEF WaitPool, IInv, LinkedInv, Linked
<1>15. CASE PassDone
  BY <1>15 DEF PassDone, IInv, LinkedInv
<1>16. CASE LinkSkipped
  <2>1. Linked /\ pc' = "prune" /\ UNCHANGED <<bin, command, listed, obj, mem, newer>>
    BY <1>16, SkippedIsLinked DEF LinkSkipped, outVars, planVars
  <2> QED
    BY <2>1 DEF LinkedInv, Linked
<1>17. CASE Link
  <2>1. /\ bin' = [cmd |-> command, objs |-> [s \in listed |-> obj[s]]] /\ newer' = {}
        /\ pc' = "prune" /\ UNCHANGED <<command, listed, obj>>
    BY <1>17 DEF Link, planVars
  <2>2. mem'.bin = [cmd |-> command, objects |-> listed]
    BY <1>17 DEF Link, IInv, DbsOK, Dbs
  <2> QED
    BY <2>1, <2>2 DEF LinkedInv, Linked
<1>18. CASE LinkFails
  BY <1>18 DEF LinkFails, Blame, IInv, LinkedInv
<1>19. CASE Prune
  <2>1. /\ UNCHANGED <<bin, command, listed, newer, quiet>> /\ pc = "prune" /\ listed \subseteq Units
        /\ mem'.bin = mem.bin /\ \A s \in listed : obj'[s] = obj[s]
        /\ \A s \in Sources \ listed : mem'.obj[s] = None
    BY <1>19 DEF Prune, planVars, IInv, PlanOK, Units
  <2>2. \A s \in Units : mem'.obj[s] # None => s \in listed
    BY <2>1 DEF IInv, PhaseInv, Busy, Units
  <2>3. [s \in listed |-> obj[s]] = [s \in listed |-> obj'[s]]
    BY <2>1
  <2> QED
    BY <2>1, <2>2, <2>3 DEF IInv, LinkedInv, Linked
<1>20. CASE Close
  BY <1>20 DEF Close, Over, IInv, LinkedInv
<1>21. CASE CloseUnsaved
  BY <1>21 DEF CloseUnsaved, Over, Blame, IInv, LinkedInv
<1>22. CASE Crash
  BY <1>22 DEF Crash, Over, Blame, IInv, LinkedInv
<1>23. ASSUME NEW f \in Files, Edit(f) PROVE LinkedInv'
  BY <1>23 DEF Edit, IInv, LinkedInv
<1>24. ASSUME NEW all \in BOOLEAN, CleanRun(all) PROVE LinkedInv'
  BY <1>24 DEF CleanRun, Blame, IInv, LinkedInv
<1>25. CASE UNCHANGED <<vars>>
  BY <1>25 DEF IInv, LinkedInv, Linked, vars
<1> QED
  BY <1>1, <1>2, <1>3, <1>4, <1>5, <1>6, <1>7, <1>8, <1>9, <1>10, <1>11, <1>12, <1>13, <1>14,
     <1>15, <1>16, <1>17, <1>18, <1>19, <1>20, <1>21, <1>22, <1>23, <1>24, <1>25
  DEF Next, Molto, Plan, RunPass, Finish

\* A build that is closing has done, and recorded, all that it says it has.
LEMMA ClosingIsDone ==
  ASSUME IInv, pc = "close", quiet
  PROVE  /\ command \in Contents /\ listed = Present /\ command = text[Manifest]
         /\ \A s \in Units : unit[s] \in {"built", "checked", "recorded"} =>
              s \in listed /\ ObjectFresh(mem, s, command)
         /\ ok => /\ \A s \in listed : obj[s] = Compiled(s, command) /\ obj[s] # None
                                       /\ ObjectFresh(mem, s, command)
                  /\ \A s \in Units : mem.obj[s] # None <=> s \in listed
                  /\ Linked /\ bin # None
<1>1. command \in Contents /\ listed = Present /\ command = text[Manifest] /\ listed \subseteq Units
  BY DEF IInv, PhaseInv, Busy, PlanOK
<1>2. ASSUME NEW s \in listed, Through(s)
      PROVE  /\ obj[s] = Compiled(s, command) /\ obj[s] # None
             /\ ObjectFresh(mem, s, command) /\ mem.obj[s] # None
  <2>1. s \in Units /\ Compilable(s) /\ obj[s] = Compiled(s, command) /\ mem.obj[s] = FullEntry(s)
    BY <1>1, <1>2 DEF IInv, WorkInv, Busy
  <2>2. ObjectFresh(mem, s, command)
    BY <1>1, <2>1, FullIsFresh
  <2> QED
    BY <2>1, <2>2 DEF ObjectFresh
<1>3. ASSUME NEW s \in Units, unit[s] \in {"built", "checked", "recorded"}
      PROVE  s \in listed /\ Through(s)
  BY <1>3 DEF IInv, PhaseInv, Busy, StillInv, Still, Through
<1>4. ASSUME ok, NEW s \in listed PROVE Through(s)
  BY <1>1, <1>4 DEF IInv, PhaseInv, StillInv, Still, Through
<1>5. ok => \A s \in Units : mem.obj[s] # None <=> s \in listed
  BY <1>1, <1>2, <1>4 DEF IInv, LinkedInv
<1>6. ok => Linked /\ bin # None
  <2> SUFFICES ASSUME ok PROVE Linked /\ bin # None
    OBVIOUS
  <2>1. Linked
    BY DEF IInv, LinkedInv
  <2>2. [s \in listed |-> obj[s]] \in [listed -> Snapshots]
    BY <1>1, <1>2, <1>4 DEF IInv, OutOK
  <2>3. bin \in Binaries
    BY <1>1, <2>1, <2>2 DEF Linked, Binaries
  <2> QED
    BY <2>1, <2>3, NoneAssumption
<1> QED
  BY <1>1, <1>2, <1>3, <1>4, <1>5, <1>6

\* So the next one finds nothing to do.
LEMMA CloseLeaves ==
  ASSUME IInv, Close, quiet
  PROVE  (SuccessMeansCurrent /\ NothingToRedo /\ FailureKeepsWork)'
<1>1. /\ pc = "close" /\ pc' = "idle" /\ disk' = mem
      /\ UNCHANGED <<text, stamp, obj, newer, bin, ok, quiet>>
      /\ \A s \in Units : unit'[s] = "built" <=> unit[s] \in {"built", "checked", "recorded"}
  BY DEF Close, Over, filesVars, outVars
<1>2. /\ Present' = Present /\ Settings' = text[Manifest]
      /\ \A s \in Units, c \in Contents : ObjectFresh(mem, s, c) => ObjectFresh(disk, s, c)'
  BY <1>1 DEF Present, Settings, ObjectFresh, Hash
<1>3. command = text[Manifest] /\ listed = Present
  BY <1>1, ClosingIsDone
<1>5. FailureKeepsWork'
  <2>1. \A s \in Units : unit'[s] = "built" => ObjectFresh(mem, s, text[Manifest])
    BY <1>1, <1>3, ClosingIsDone
  <2> QED
    BY <1>1, <1>2, <2>1 DEF FailureKeepsWork, ObjectFresh, Hash
<1>6. ASSUME ok
      PROVE  SuccessMeansCurrent' /\ NothingToRedo'
  <2>1. /\ \A s \in Present : obj[s] = Compiled(s, text[Manifest]) /\ obj[s] # None
                             /\ ObjectFresh(mem, s, text[Manifest])
        /\ \A s \in Units : mem.obj[s] # None <=> s \in Present
        /\ bin = [cmd |-> text[Manifest], objs |-> [s \in Present |-> obj[s]]] /\ bin # None
        /\ mem.bin = [cmd |-> text[Manifest], objects |-> Present]
        /\ newer \cap Present = {}
    BY <1>1, <1>3, <1>6, ClosingIsDone DEF Linked
  <2>2. bin = CleanBinary
    BY <2>1 DEF CleanBinary
  <2>3. CleanBinary' = CleanBinary
    BY <1>1 DEF CleanBinary, Compiled, Present
  <2>4. SuccessMeansCurrent'
    BY <1>1, <2>2, <2>3 DEF SuccessMeansCurrent
  <2>5. \A s \in Present : ObjectFresh(mem, s, text[Manifest])
    BY <2>1
  <2>6. (\A s \in Present : ObjectFresh(disk, s, Settings))'
    BY <1>1, <1>2, <2>5 DEF ObjectFresh, Hash
  <2>7. BinaryFresh(mem, text[Manifest], Present)
    BY <2>1 DEF BinaryFresh
  <2>8. (~LinkNeeded(disk, Settings, Present, FALSE))'
    BY <1>1, <1>2, <2>1, <2>7 DEF LinkNeeded, BinaryFresh
  <2>9. ({s \in Units : disk.obj[s] # None} = Present)'
    BY <1>1, <1>2, <1>3, <2>1, Sets DEF Present
  <2> QED
    BY <2>4, <2>6, <2>8, <2>9 DEF NothingToRedo
<1>7. CASE ~ok
  BY <1>1, <1>5, <1>7 DEF SuccessMeansCurrent, NothingToRedo
<1> QED
  BY <1>5, <1>6, <1>7

\* Nobody but a build that ends undisturbed claims that nothing is left to do.
LEMMA IdleStep == IInv /\ [Next]_vars => IdleInv'
<1> SUFFICES ASSUME IInv, [Next]_vars PROVE IdleInv'
  OBVIOUS
<1>1. ASSUME NEW s \in Units, PlanFresh(s) PROVE IdleInv'
  BY <1>1 DEF PlanFresh, IInv, IdleInv
<1>2. ASSUME NEW s \in Units, PlanTake(s) PROVE IdleInv'
  BY <1>2 DEF PlanTake, IInv, IdleInv
<1>3. ASSUME NEW s \in Units, PlanStale(s) PROVE IdleInv'
  BY <1>3 DEF PlanStale, IInv, IdleInv
<1>4. ASSUME NEW s \in Units, Submit(s) PROVE IdleInv'
  BY <1>4 DEF Submit, IInv, IdleInv
<1>5. ASSUME NEW s \in Units, SubmitRefused(s) PROVE IdleInv'
  BY <1>5 DEF SubmitRefused, Blame, IInv, IdleInv
<1>6. ASSUME NEW s \in Units, Compile(s) PROVE IdleInv'
  BY <1>6 DEF Compile, IInv, IdleInv
<1>7. ASSUME NEW s \in Units, CompileFails(s) PROVE IdleInv'
  BY <1>7 DEF CompileFails, Blame, IInv, IdleInv
<1>8. ASSUME NEW s \in Units, CheckUnit(s) PROVE IdleInv'
  BY <1>8 DEF CheckUnit, IInv, IdleInv
<1>9. ASSUME NEW s \in Units, Absorb(s) PROVE IdleInv'
  BY <1>9 DEF Absorb, IInv, IdleInv
<1>10. CASE NoSources
  <2>1. ok' = FALSE /\ \A s \in Units : unit'[s] = "out"
    BY <1>10 DEF NoSources
  <2> QED
    BY <2>1 DEF IdleInv, SuccessMeansCurrent, NothingToRedo, FailureKeepsWork
<1>11. CASE Open
  <2>1. pc' # "idle"
    BY <1>11 DEF Open
  <2> QED
    BY <2>1 DEF IdleInv
<1>12. CASE PlanDone
  BY <1>12 DEF PlanDone, IInv, IdleInv
<1>13. CASE NoPool
  BY <1>13 DEF NoPool, Blame, IInv, IdleInv
<1>14. CASE WaitPool
  BY <1>14 DEF WaitPool, IInv, IdleInv, PhaseInv
<1>15. CASE PassDone
  BY <1>15 DEF PassDone, IInv, IdleInv
<1>16. CASE LinkSkipped
  <2>1. pc' # "idle"
    BY <1>16 DEF LinkSkipped
  <2> QED
    BY <2>1 DEF IdleInv
<1>17. CASE Link
  <2>1. pc' # "idle"
    BY <1>17 DEF Link
  <2> QED
    BY <2>1 DEF IdleInv
<1>18. CASE LinkFails
  <2>1. pc' # "idle"
    BY <1>18 DEF LinkFails
  <2> QED
    BY <2>1 DEF IdleInv
<1>19. CASE Prune
  <2>1. pc' # "idle"
    BY <1>19 DEF Prune
  <2> QED
    BY <2>1 DEF IdleInv
<1>20. CASE Close
  <2>1. CASE quiet
    BY <1>20, <2>1, CloseLeaves DEF IdleInv
  <2>2. CASE ~quiet
    <3>1. quiet' = quiet
      BY <1>20 DEF Close
    <3> QED
      BY <2>2, <3>1 DEF IdleInv, SuccessMeansCurrent, NothingToRedo, FailureKeepsWork
  <2> QED
    BY <2>1, <2>2
<1>21. CASE CloseUnsaved
  <2>1. quiet' = FALSE
    BY <1>21 DEF CloseUnsaved
  <2> QED
    BY <2>1 DEF IdleInv, SuccessMeansCurrent, NothingToRedo, FailureKeepsWork
<1>22. CASE Crash
  <2>1. quiet' = FALSE
    BY <1>22 DEF Crash
  <2> QED
    BY <2>1 DEF IdleInv, SuccessMeansCurrent, NothingToRedo, FailureKeepsWork
<1>23. ASSUME NEW f \in Files, Edit(f) PROVE IdleInv'
  <2>1. quiet' = FALSE
    BY <1>23 DEF Edit
  <2> QED
    BY <2>1 DEF IdleInv, SuccessMeansCurrent, NothingToRedo, FailureKeepsWork
<1>24. ASSUME NEW all \in BOOLEAN, CleanRun(all) PROVE IdleInv'
  <2>1. quiet' = FALSE
    BY <1>24 DEF CleanRun
  <2> QED
    BY <2>1 DEF IdleInv, SuccessMeansCurrent, NothingToRedo, FailureKeepsWork
<1>25. CASE UNCHANGED <<vars>>
  BY <1>25
  DEF vars, IInv, IdleInv, SuccessMeansCurrent, NothingToRedo, FailureKeepsWork, CleanBinary,
      Present, Compiled, Settings, ObjectFresh, Hash, LinkNeeded, BinaryFresh
<1> QED
  BY <1>1, <1>2, <1>3, <1>4, <1>5, <1>6, <1>7, <1>8, <1>9, <1>10, <1>11, <1>12, <1>13, <1>14,
     <1>15, <1>16, <1>17, <1>18, <1>19, <1>20, <1>21, <1>22, <1>23, <1>24, <1>25
  DEF Next, Molto, Plan, RunPass, Finish

------------------------------------------------------------------------------
(* The results.                                                             *)

\* A workspace that was never built.
LEMMA InitHolds ==
  ASSUME Init, \A w \in Worlds : Onward(w) \/ Settled(w)
  PROVE  IInv
<1> USE BoundsAssumption, Sets
<1>1. 1 \in Contents /\ FilesOK
  BY DEF Init, FilesOK, Contents
<1>2. OutOK /\ PlanOK
  <2>1. 0 \in 0 .. (MaxEdits + 1)
    OBVIOUS
  <2>2. OutOK
    BY DEF Init, OutOK
  <2>3. sig \in [Units -> 0 .. (MaxEdits + 1)]
    BY <2>1 DEF Init
  <2> QED
    BY <2>2, <2>3 DEF Init, PlanOK, Phases
<1>3. DbsOK /\ MemoInv
  BY EmptyDbIs DEF Init, DbsOK, MemoInv
<1>4. FilesInv /\ ObjInv /\ ShapeInv
  BY DEF Init, FilesInv, ObjInv, ShapeInv, Shape, EmptyDb, Gone
<1>5. PhaseInv /\ SigInv /\ StillInv
  BY DEF Init, PhaseInv, SigInv, StillInv, Busy, Compiling
<1>6. OnwardObjInv /\ OnwardBinInv /\ SettledObjInv /\ SettledBinInv
  BY DEF Init, OnwardObjInv, BehindObj, OnwardBinInv, BehindBin, SettledObjInv, SettledBinInv,
      EmptyDb, Scope
<1>7. WorkInv /\ BinInv /\ LinkedInv /\ IdleInv
  BY DEF Init, WorkInv, Busy, BinInv, LinkedInv, IdleInv, SuccessMeansCurrent, NothingToRedo,
      FailureKeepsWork
<1>8. Onward(world) \/ Settled(world)
  BY DEF Init
<1> QED
  BY <1>1, <1>2, <1>3, <1>4, <1>5, <1>6, <1>7, <1>8 DEF IInv

LEMMA WorldStays == [Next]_vars => world' = world
  BY DEF Next, Molto, Plan, RunPass, Finish, NoSources, Open, PlanFresh, PlanTake, PlanStale,
      PlanDone, NoPool, WaitPool, PassDone, Submit, SubmitRefused, Compile, CompileFails,
      CheckUnit, Absorb, LinkSkipped, Link, LinkFails, Prune, Close, CloseUnsaved, Crash, Over,
      Edit, CleanRun, filesVars, outVars, planVars, vars

LEMMA StepHolds == IInv /\ [Next]_vars => IInv'
<1> SUFFICES ASSUME IInv, [Next]_vars PROVE IInv'
  OBVIOUS
<1>1. (Onward(world) \/ Settled(world))'
  BY WorldStays DEF IInv, Onward, Settled
<1>2. FilesOK' /\ OutOK' /\ DbsOK' /\ PlanOK'
  BY FilesTypeStep, OutTypeStep, DbsTypeStep, PlanTypeStep
<1>3. FilesInv' /\ MemoInv' /\ ObjInv' /\ ShapeInv'
  BY FilesStep, MemoStep, ObjStep, ShapeStep
<1>4. PhaseInv' /\ SigInv' /\ StillInv'
  BY PhaseStep, SigStep, StillStep
<1>5. OnwardObjInv' /\ OnwardBinInv' /\ SettledObjInv' /\ SettledBinInv'
  BY OnwardObjStep, OnwardBinStep, SettledObjStep, SettledBinStep
<1>6. WorkInv' /\ BinInv' /\ LinkedInv' /\ IdleInv'
  BY WorkStep, BinStep, LinkedStep, IdleStep
<1> QED
  BY <1>1, <1>2, <1>3, <1>4, <1>5, <1>6 DEF IInv

LEMMA Inductive ==
  ASSUME \A w \in Worlds : Onward(w) \/ Settled(w)
  PROVE  Spec => []IInv
<1>1. Init => IInv
  BY InitHolds
<1>2. IInv /\ [Next]_vars => IInv'
  BY StepHolds
<1> QED
  BY <1>1, <1>2, PTL DEF Spec

\* wsdb_object_fresh, run_pass: whatever was edited, killed, cleaned or refused, a unit that the
\* database says is fresh has the object a compiler would make of the files as they are.
THEOREM RecordsSound ==
  ASSUME \A w \in Worlds : Onward(w) \/ Settled(w)
  PROVE  Spec => []RecordsAreSound
<1>1. IInv => RecordsAreSound
  BY FreshRight, TypeInParts DEF IInv, RecordsAreSound, FreshIsRight
<1> QED
  BY <1>1, Inductive, PTL

\* build_service_run: a build that says it succeeded, and that nobody disturbed, leaves the binary
\* a build from nothing would.
THEOREM SuccessIsCurrent ==
  ASSUME \A w \in Worlds : Onward(w) \/ Settled(w)
  PROVE  Spec => []SuccessMeansCurrent
<1>1. IInv => SuccessMeansCurrent
  <2> SUFFICES ASSUME IInv, pc \in {"close", "idle"}, ok, quiet PROVE bin = CleanBinary
    BY DEF SuccessMeansCurrent
  <2>1. CASE pc = "idle"
    BY <2>1 DEF IInv, IdleInv, SuccessMeansCurrent
  <2>2. CASE pc = "close"
    <3>1. /\ listed = Present /\ command = text[Manifest] /\ Linked
          /\ \A s \in listed : obj[s] = Compiled(s, command)
      BY <2>2, ClosingIsDone
    <3> QED
      BY <3>1 DEF Linked, CleanBinary
  <2> QED
    BY <2>1, <2>2
<1> QED
  BY <1>1, Inductive, PTL

\* plan_objects, link_needed, wsdb_prune: after such a build the next one compiles, links and
\* prunes nothing; and what a failed build did compile is not compiled again.
THEOREM NothingRedone ==
  ASSUME \A w \in Worlds : Onward(w) \/ Settled(w)
  PROVE  Spec => []NothingIsRedone
<1>1. IInv => NothingIsRedone
  BY DEF IInv, IdleInv, NothingIsRedone, NothingToRedo, FailureKeepsWork
<1> QED
  BY <1>1, Inductive, PTL

\* What one step adds to the record of a unit.
LEMMA RecordedStep ==
  ASSUME IInv, [Next]_vars, NEW s \in Units, pc \in {"plan", "absorb"}, pc' # "idle",
         mem'.obj[s] # mem.obj[s], obj'[s] # None, NEW f \in DOMAIN mem'.obj[s].hash
  PROVE  mem'.obj[s].hash[f] = obj'[s].text[f]
<1>1. ASSUME NEW r \in Units, PlanTake(r)
      PROVE  mem'.obj[s].hash[f] = obj'[s].text[f]
  <2>1. mem'.obj = [mem.obj EXCEPT ![r] = Entry(r, command)]
        /\ mem.obj \in [Units -> Entries \cup {None}] /\ command \in Contents /\ Compilable(r)
    BY <1>1, TakeIs DEF IInv, DbsOK, Dbs
  <2>2. s = r /\ mem'.obj[s] = Entry(s, command)
    BY <2>1
  <2>3. obj'[s] = Compiled(s, command)
    BY <1>1, <2>2 DEF PlanTake, IInv, OutOK
  <2> QED
    BY <2>1, <2>2, <2>3, EntryFits, CompiledFits
<1>2. ASSUME NEW r \in Units, Absorb(r)
      PROVE  mem'.obj[s].hash[f] = obj'[s].text[f]
  <2>1. mem'.obj = [mem.obj EXCEPT ![r] = Entry(r, command)]
        /\ mem.obj \in [Units -> Entries \cup {None}] /\ command \in Contents
    BY <1>2, AbsorbIs DEF IInv, DbsOK, Dbs
  <2>2. s = r /\ mem'.obj[s] = Entry(s, command)
    BY <2>1
  <2>3. Compilable(s) /\ obj'[s] = Compiled(s, command)
    BY <1>2, <2>2 DEF Absorb, IInv, SigInv, Compiling
  <2> QED
    BY <2>1, <2>2, <2>3, EntryFits, CompiledFits
<1>3. ASSUME NEW r \in Units, PlanFresh(r) PROVE FALSE
  BY <1>3, RememberIs DEF PlanFresh, IInv, DbsOK, MemoInv
<1>4. ASSUME NEW r \in Units, PlanStale(r) PROVE FALSE
  BY <1>4, LookedIs DEF PlanStale
<1>5. CASE UNCHANGED mem \/ pc \notin {"plan", "absorb"} \/ pc' = "idle"
  BY <1>5
<1> QED
  BY <1>1, <1>2, <1>3, <1>4, <1>5
  DEF Next, Molto, Plan, RunPass, Finish, Submit, SubmitRefused, Compile, CompileFails,
      CheckUnit, NoSources, Open, PlanDone, NoPool, WaitPool, PassDone, LinkSkipped, Link,
      LinkFails, Prune, Close, CloseUnsaved, Crash, Edit, CleanRun, Over, vars

\* run_pass, take_cached: the hashes that are recorded with an object are those of the contents it
\* was made of, though they are taken after the compiler has read them.
THEOREM RecordedAsBuilt ==
  ASSUME \A w \in Worlds : Onward(w) \/ Settled(w)
  PROVE  Spec => RecordMatchesObject
<1> DEFINE Recorded == \A s \in Units :
                         /\ pc \in {"plan", "absorb"} /\ pc' # "idle"
                         /\ mem'.obj[s] # mem.obj[s] /\ obj'[s] # None
                         => \A f \in DOMAIN mem'.obj[s].hash : mem'.obj[s].hash[f] = obj'[s].text[f]
<1>1. IInv /\ [Next]_vars => [Recorded]_vars
  BY RecordedStep
<1> QED
  BY <1>1, Inductive, PTL DEF Spec, RecordMatchesObject

------------------------------------------------------------------------------
(* What an accepted suite is.                                                *)

LEMMA OfPackage ==
  ASSUME NEW packages, NEW kind, NEW v \in PackageUnits(packages, kind)
  PROVE  v.package \in DOMAIN packages /\ v.kind = kind
<1>1. PICK name \in DOMAIN packages : v \in {Unit(name, path, kind) : path \in packages[name]}
  BY DEF PackageUnits
<1>2. PICK path \in packages[name] : v = Unit(name, path, kind)
  BY <1>1
<1> QED
  BY <1>2 DEF Unit

\* A unit is the project's own, or a package's of one of the two tables.
LEMMA OwnOrPackage ==
  ASSUME NEW p \in Suites,
         NEW v \in OwnUnits(p) \cup RuntimeUnits(p) \cup DevUnits(p)
  PROVE  \/ v.package = "" /\ v.path \in p.own /\ v.kind = "project" /\ v \in OwnUnits(p)
         \/ v.package # "" /\ v.package \in DOMAIN p.runtime /\ v.package \notin DOMAIN p.dev /\ v.kind = "runtime"
         \/ v.package # "" /\ v.package \in DOMAIN p.dev /\ v.package \notin DOMAIN p.runtime /\ v.kind = "dev"
<1>1. SuiteOK(p)
  BY SuitesAssumption
<1>2. "" \notin DOMAIN p.runtime /\ "" \notin DOMAIN p.dev /\ DOMAIN p.runtime \cap DOMAIN p.dev = {}
  BY <1>1 DEF SuiteOK
<1>3. CASE v \in OwnUnits(p)
  <2>1. PICK path \in p.own : v = Unit("", path, "project")
    BY <1>3 DEF OwnUnits
  <2> QED
    BY <1>3, <2>1 DEF Unit
<1>4. CASE v \in RuntimeUnits(p)
  <2>1. v \in PackageUnits(p.runtime, "runtime")
    BY <1>4 DEF RuntimeUnits
  <2>2. v.package \in DOMAIN p.runtime /\ v.kind = "runtime"
    BY <2>1, OfPackage
  <2>3. v.package # "" /\ v.package \notin DOMAIN p.dev
    BY <1>2, <2>2
  <2> QED
    BY <2>2, <2>3
<1>5. CASE v \in DevUnits(p)
  <2>1. v \in PackageUnits(p.dev, "dev")
    BY <1>5 DEF DevUnits
  <2>2. v.package \in DOMAIN p.dev /\ v.kind = "dev"
    BY <2>1, OfPackage
  <2>3. v.package # "" /\ v.package \notin DOMAIN p.runtime
    BY <1>2, <2>2
  <2> QED
    BY <2>2, <2>3
<1> QED
  BY <1>3, <1>4, <1>5

\* No test's object is one of the code's or of a package's.
LEMMA TestObjectsApart ==
  ASSUME NEW p \in Suites,
         NEW u \in TestUnits(p),
         NEW v \in OwnUnits(p) \cup RuntimeUnits(p) \cup DevUnits(p)
  PROVE  Object(u) # LinkedAs(p, v) /\ Object(u) # Object(v)
<1>1. SuiteOK(p)
  BY SuitesAssumption
<1>2. u.package = "" /\ \E k \in DOMAIN p.tests : u.path = p.tests[k]
  <2>1. PICK k \in DOMAIN p.tests : u = TestUnit(p.tests[k])
    BY DEF TestUnits
  <2> QED
    BY <2>1 DEF TestUnit, Unit
<1>3. u.path \notin p.own
  BY <1>1, <1>2 DEF SuiteOK
<1>4. (v.package = "" /\ v.path \in p.own) \/ v.package # ""
  BY OwnOrPackage
<1>5. Object(u) # Object(v)
  BY <1>2, <1>3, <1>4 DEF Object
<1>6. Object(u)[1] = "obj" /\ EntryArchive(v.package)[1] = "entry"
  BY DEF Object, EntryArchive
<1>7. Object(u) # EntryArchive(v.package)
  BY <1>6
<1> QED
  BY <1>5, <1>7 DEF LinkedAs

LEMMA TestObjectsDiffer ==
  ASSUME NEW a, NEW b, Object(TestUnit(a)) = Object(TestUnit(b))
  PROVE  a = b
BY DEF Object, TestUnit, Unit

LEMMA CodeIsLibrary == Code = LibraryObjectsOf(suite)
BY DEF Code, LibraryObjectsOf

\* The tests that are linked into an executable, by their places.
TestPart(p, i) ==
  CASE i = SuitePlace -> Shared(p)
    [] i # SuitePlace /\ IsIsolated(p, p.tests[i]) /\ p.single ->
         {i} \cup {k \in Shared(p) : ~IsTestFile(p.tests[k])}
    [] OTHER -> {i}

LEMMA PlacesAre ==
  ASSUME NEW p \in Suites, NEW i \in Places(p)
  PROVE  /\ i \in Nat
         /\ i = SuitePlace => p.single
         /\ i # SuitePlace => i \in DOMAIN p.tests /\ (p.single => i \notin Shared(p))
         /\ TestPart(p, i) \subseteq DOMAIN p.tests
<1>1. SuiteOK(p)
  BY SuitesAssumption
<1>2. DOMAIN p.tests \subseteq Nat \ {0} /\ p.single \in BOOLEAN
  BY <1>1 DEF SuiteOK
<1> QED
  BY <1>2 DEF Places, SuitePlace, TestPart, Shared

LEMMA LinkedAsKinds ==
  ASSUME NEW p, NEW v
  PROVE  LinkedAs(p, v) = Object(v) \/ IsEntryArchive(LinkedAs(p, v))
BY DEF LinkedAs, EntryArchive, IsEntryArchive

\* What a link is of: its tests, the library and what is for development.
LEMMA LooseIs ==
  ASSUME NEW p \in Suites, NEW i \in Places(p)
  PROVE  Executable(p, i).loose =
           ObjectsOfTests(p, TestPart(p, i)) \cup DevLinked(p)
             \cup (IF i # SuitePlace /\ IsIsolated(p, p.tests[i])
                   THEN {o \in LibLinked(p) : IsEntryArchive(o)} ELSE LibLinked(p))
<1>1. CASE i = SuitePlace
  BY <1>1 DEF Executable, LinkShared, TestPart
<1>2. CASE i # SuitePlace /\ IsIsolated(p, p.tests[i])
  <2>1. Executable(p, i).loose = {Object(TestUnit(p.tests[i]))} \cup (IF p.single THEN Framework(p) ELSE {})
          \cup DevLinked(p) \cup {o \in LibLinked(p) : IsEntryArchive(o)}
    BY <1>2 DEF Executable, LinkIsolatedTest
  <2>2. CASE p.single
    <3>1. TestPart(p, i) = {i} \cup {k \in Shared(p) : ~IsTestFile(p.tests[k])}
      BY <1>2, <2>2 DEF TestPart
    <3>2. ObjectsOfTests(p, TestPart(p, i)) = {Object(TestUnit(p.tests[i]))} \cup Framework(p)
      BY <3>1 DEF ObjectsOfTests, Framework
    <3> QED
      BY <1>2, <2>1, <2>2, <3>2
  <2>3. CASE ~p.single
    <3>1. TestPart(p, i) = {i}
      BY <1>2, <2>3 DEF TestPart
    <3>2. ObjectsOfTests(p, TestPart(p, i)) = {Object(TestUnit(p.tests[i]))}
      BY <3>1 DEF ObjectsOfTests
    <3> QED
      BY <1>2, <2>1, <2>3, <3>2
  <2> QED
    BY <2>2, <2>3
<1>3. CASE i # SuitePlace /\ ~IsIsolated(p, p.tests[i])
  <2>1. Executable(p, i).loose = {Object(TestUnit(p.tests[i]))} \cup LibLinked(p) \cup DevLinked(p)
    BY <1>3 DEF Executable, LinkAlone
  <2>2. TestPart(p, i) = {i}
    BY <1>3 DEF TestPart
  <2>3. ObjectsOfTests(p, TestPart(p, i)) = {Object(TestUnit(p.tests[i]))}
    BY <2>2 DEF ObjectsOfTests
  <2> QED
    BY <1>3, <2>1, <2>3
<1> QED
  BY <1>1, <1>2, <1>3

LEMMA ArchivedIs ==
  ASSUME NEW p, NEW i
  PROVE  Executable(p, i).archived =
           IF i # SuitePlace /\ IsIsolated(p, p.tests[i])
           THEN {o \in LibLinked(p) : ~IsEntryArchive(o) /\ o \notin ReplacedObjectsOf(p, EntryFor(p, p.tests[i]))}
           ELSE {}
BY DEF Executable, LinkShared, LinkIsolatedTest, LinkAlone

\* A test is in an executable where the plan puts it.
LEMMA TestsInAre ==
  ASSUME suite \in Suites, NEW i \in Places(suite)
  PROVE  TestsIn(i) = {TestUnit(suite.tests[k]) : k \in TestPart(suite, i)}
<1> DEFINE p == suite
<1>1. TestPart(p, i) \subseteq DOMAIN p.tests
  BY PlacesAre
<1>2. ASSUME NEW k \in TestPart(p, i)
      PROVE  TestUnit(p.tests[k]) \in TestsIn(i)
  <2>1. Object(TestUnit(p.tests[k])) \in Executable(p, i).loose
    BY LooseIs DEF ObjectsOfTests
  <2> QED
    BY <1>1, <2>1 DEF TestsIn, TestUnits, LinkObjects
<1>3. ASSUME NEW u \in TestsIn(i)
      PROVE  \E k \in TestPart(p, i) : u = TestUnit(p.tests[k])
  <2>1. PICK n \in DOMAIN p.tests : u = TestUnit(p.tests[n])
    BY DEF TestsIn, TestUnits
  <2>2. u \in TestUnits(p) /\ Object(u) \in LinkObjects(p, i)
    BY DEF TestsIn
  <2>3. Object(u) # Archive(p, i)
    <3>1. Object(u)[1] = "obj" /\ Archive(p, i)[1] = "archive"
      BY DEF Object, Archive, IsolatedArchive
    <3> QED
      BY <3>1
  <2>4. Object(u) \in Executable(p, i).loose
    BY <2>2, <2>3 DEF LinkObjects
  <2>5. Object(u) \notin LibLinked(p) /\ Object(u) \notin DevLinked(p)
    BY <2>2, TestObjectsApart DEF LibLinked, DevLinked, LibraryObjectsOf
  <2>6. Object(u) \in ObjectsOfTests(p, TestPart(p, i))
    BY <2>4, <2>5, LooseIs
  <2>7. PICK k \in TestPart(p, i) : Object(TestUnit(p.tests[n])) = Object(TestUnit(p.tests[k]))
    BY <2>1, <2>6 DEF ObjectsOfTests
  <2> QED
    BY <2>1, <2>7, TestObjectsDiffer
<1> QED
  BY <1>2, <1>3

\* What a test's entry leaves out are the objects that its replacements name.
LEMMA ReplacedIs ==
  ASSUME suite \in Suites, NEW m \in DOMAIN suite.isolated, NEW u \in Code
  PROVE  Object(u) \in ReplacedObjectsOf(suite, suite.isolated[m]) <=> LeftOut(suite.isolated[m], u)
<1> DEFINE e == suite.isolated[m]
<1>1. SuiteOK(suite)
  BY SuitesAssumption
<1>2. u \in OwnUnits(suite) \cup RuntimeUnits(suite)
  BY DEF Code
<1>3. u \in PlannedUnits(suite) /\ u.kind # "test"
  BY <1>2, OwnOrPackage DEF PlannedUnits
<1>4. ASSUME LeftOut(e, u)
      PROVE  Object(u) \in ReplacedObjectsOf(suite, e)
  <2>1. PICK i \in DOMAIN e.replaces :
          u.package = e.replaces[i].dep /\ (e.replaces[i].path = <<>> \/ u.path = e.replaces[i].path)
    BY <1>4 DEF LeftOut, Asks
  <2>2. e.replaces[i].dep # "" \/ e.replaces[i].path # <<>>
    BY <1>1 DEF SuiteOK
  <2>3. ReplacementNames(u, e.replaces[i])
    BY <2>1, <2>2 DEF ReplacementNames
  <2>4. u \in Named(suite, e.replaces[i])
    BY <1>3, <2>3 DEF Named
  <2> QED
    BY <2>4 DEF ReplacedObjectsOf, ObjectsOf
<1>5. ASSUME Object(u) \in ReplacedObjectsOf(suite, e)
      PROVE  LeftOut(e, u)
  <2>0. PICK i \in DOMAIN e.replaces : \E v \in Named(suite, e.replaces[i]) : Object(u) = Object(v)
    BY <1>5 DEF ReplacedObjectsOf, ObjectsOf
  <2>1. PICK v \in Named(suite, e.replaces[i]) : Object(u) = Object(v)
    BY <2>0
  <2>2. u.package = v.package /\ u.path = v.path
    BY <2>1 DEF Object
  <2>3. ReplacementNames(v, e.replaces[i])
    BY <2>1 DEF Named
  <2>4. u.package = e.replaces[i].dep /\ (e.replaces[i].path = <<>> \/ u.path = e.replaces[i].path)
    <3>1. CASE e.replaces[i].dep # "" /\ e.replaces[i].path # <<>>
      BY <2>2, <2>3, <3>1 DEF ReplacementNames
    <3>2. CASE e.replaces[i].dep = ""
      BY <2>2, <2>3, <3>2 DEF ReplacementNames
    <3>3. CASE e.replaces[i].dep # "" /\ e.replaces[i].path = <<>>
      BY <2>2, <2>3, <3>3 DEF ReplacementNames
    <3> QED
      BY <3>1, <3>2, <3>3
  <2> QED
    BY <2>4 DEF LeftOut, Asks
<1> QED
  BY <1>4, <1>5

LEMMA OneEntry ==
  ASSUME NEW p \in Suites, NEW path, NEW m \in IsolatedAs(p, path)
  PROVE  EntryFor(p, path) = p.isolated[m] /\ \A k \in IsolatedAs(p, path) : k = m
<1>1. SuiteOK(p)
  BY SuitesAssumption
<1>2. \A k \in IsolatedAs(p, path) : k = m
  BY <1>1 DEF SuiteOK, IsolatedAs
<1>3. (CHOOSE i \in IsolatedAs(p, path) : TRUE) \in IsolatedAs(p, path)
  OBVIOUS
<1> QED
  BY <1>2, <1>3 DEF EntryFor

\* Only a test that is isolated is linked as one.
LEMMA IsolatedInIs ==
  ASSUME suite \in Suites, NEW i \in Places(suite)
  PROVE  IsolatedIn(i) =
           IF i # SuitePlace /\ IsIsolated(suite, suite.tests[i]) THEN IsolatedAs(suite, suite.tests[i]) ELSE {}
<1> DEFINE p == suite
<1>1. ASSUME NEW m \in IsolatedIn(i)
      PROVE  i # SuitePlace /\ m \in IsolatedAs(p, p.tests[i])
  <2>1. m \in DOMAIN p.isolated /\ TestUnit(p.isolated[m].file) \in TestsIn(i)
    BY DEF IsolatedIn
  <2>2. PICK k \in TestPart(p, i) : TestUnit(p.isolated[m].file) = TestUnit(p.tests[k])
    BY <2>1, TestsInAre
  <2>3. p.isolated[m].file = p.tests[k]
    BY <2>2 DEF TestUnit, Unit
  <2>4. IsIsolated(p, p.tests[k])
    BY <2>1, <2>3 DEF IsIsolated, IsolatedAs
  <2>5. k \notin Shared(p)
    BY <2>4 DEF Shared
  <2>6. i # SuitePlace /\ k = i
    BY <2>5 DEF TestPart
  <2> QED
    BY <2>1, <2>3, <2>6 DEF IsolatedAs
<1>2. ASSUME i # SuitePlace, NEW m \in IsolatedAs(p, p.tests[i])
      PROVE  m \in IsolatedIn(i)
  <2>1. m \in DOMAIN p.isolated /\ p.isolated[m].file = p.tests[i]
    BY DEF IsolatedAs
  <2>2. i \in TestPart(p, i)
    BY <1>2 DEF TestPart
  <2>3. TestUnit(p.tests[i]) \in TestsIn(i)
    BY <2>2, TestsInAre
  <2> QED
    BY <2>1, <2>3 DEF IsolatedIn
<1> QED
  BY <1>1, <1>2 DEF IsIsolated

\* What is linked of the code is what remains of it.
LEMMA HeldIs ==
  ASSUME suite \in Suites, NEW i \in Places(suite)
  PROVE  LET held == {LinkedAs(suite, u) : u \in Remaining(i)}
             lib == LibLinked(suite)
         IN  IF i # SuitePlace /\ IsIsolated(suite, suite.tests[i])
             THEN held = {o \in lib : IsEntryArchive(o)} \cup Executable(suite, i).archived
             ELSE held = lib
<1> DEFINE p == suite
           held == {LinkedAs(p, u) : u \in Remaining(i)}
<1>1. Code = LibraryObjectsOf(p)
  BY CodeIsLibrary
<1>2. CASE i # SuitePlace /\ IsIsolated(p, p.tests[i])
  <2>1. PICK m \in IsolatedAs(p, p.tests[i]) : TRUE
    BY <1>2 DEF IsIsolated
  <2>2. m \in DOMAIN p.isolated /\ EntryFor(p, p.tests[i]) = p.isolated[m] /\ IsolatedIn(i) = {m}
    BY <1>2, <2>1, OneEntry, IsolatedInIs DEF IsolatedAs
  <2>3. Executable(p, i).archived =
          {o \in LibLinked(p) : ~IsEntryArchive(o) /\ o \notin ReplacedObjectsOf(p, p.isolated[m])}
    BY <1>2, <2>2, ArchivedIs
  <2>4. ASSUME NEW u \in Code
        PROVE  u \in Remaining(i) <=> IsEntry(p, u) \/ ~LeftOut(p.isolated[m], u)
    BY <2>2 DEF Remaining
  <2>5. ASSUME NEW u \in Code
        PROVE  /\ IsEntry(p, u) => IsEntryArchive(LinkedAs(p, u))
               /\ ~IsEntry(p, u) => LinkedAs(p, u) = Object(u) /\ ~IsEntryArchive(Object(u))
    BY DEF LinkedAs, IsEntryArchive, EntryArchive, Object
  <2>6. ASSUME NEW u \in Code
        PROVE  u \in Remaining(i) <=>
                 \/ IsEntryArchive(LinkedAs(p, u))
                 \/ LinkedAs(p, u) \notin ReplacedObjectsOf(p, p.isolated[m])
    BY <2>2, <2>4, <2>5, ReplacedIs DEF IsEntryArchive, ReplacedObjectsOf, ObjectsOf, Object
  <2>7. Remaining(i) \subseteq Code
    BY DEF Remaining
  <2>8. LibLinked(p) = {LinkedAs(p, u) : u \in Code}
    BY <1>1 DEF LibLinked
  <2>9. ASSUME NEW o \in held
        PROVE  o \in LibLinked(p) /\ (IsEntryArchive(o) \/ o \notin ReplacedObjectsOf(p, p.isolated[m]))
    BY <2>6, <2>7, <2>8
  <2>10. ASSUME NEW o \in LibLinked(p), IsEntryArchive(o) \/ o \notin ReplacedObjectsOf(p, p.isolated[m])
         PROVE  o \in held
    BY <2>6, <2>8, <2>10
  <2> QED
    BY <1>2, <2>3, <2>9, <2>10
<1>3. CASE ~(i # SuitePlace /\ IsIsolated(p, p.tests[i]))
  <2>1. IsolatedIn(i) = {}
    BY <1>3, IsolatedInIs
  <2>2. Remaining(i) = Code
    BY <2>1 DEF Remaining
  <2> QED
    BY <1>1, <1>3, <2>2 DEF LibLinked
<1> QED
  BY <1>2, <1>3

\* Every test is in one executable.
LEMMA TestsOnce ==
  ASSUME suite \in Suites, NEW u \in TestUnits(suite), IsTestFile(u.path)
  PROVE  \E i \in Places(suite) : \A j \in Places(suite) : u \in TestsIn(j) <=> j = i
<1> DEFINE p == suite
<1>1. SuiteOK(p)
  BY SuitesAssumption
<1>2. PICK k \in DOMAIN p.tests : u = TestUnit(p.tests[k])
  BY DEF TestUnits
<1>3. u.path = p.tests[k] /\ IsTestFile(p.tests[k])
  BY <1>2 DEF TestUnit, Unit
<1>4. k # SuitePlace /\ p.single \in BOOLEAN
  BY <1>1 DEF SuiteOK, SuitePlace
<1>5. ASSUME NEW j \in Places(p)
      PROVE  u \in TestsIn(j) <=> k \in TestPart(p, j)
  <2>1. TestPart(p, j) \subseteq DOMAIN p.tests
    BY PlacesAre
  <2>2. u \in TestsIn(j) <=> \E n \in TestPart(p, j) : TestUnit(p.tests[k]) = TestUnit(p.tests[n])
    BY <1>2, TestsInAre
  <2>3. ASSUME NEW n \in TestPart(p, j), TestUnit(p.tests[k]) = TestUnit(p.tests[n])
        PROVE  n = k
    <3>1. p.tests[k] = p.tests[n]
      BY <2>3 DEF TestUnit, Unit
    <3> QED
      BY <1>1, <2>1, <3>1 DEF SuiteOK
  <2> QED
    BY <2>2, <2>3
<1>6. CASE p.single /\ k \in Shared(p)
  <2>1. SuitePlace \in Places(p)
    BY <1>3, <1>6 DEF Places
  <2>2. ASSUME NEW j \in Places(p)
        PROVE  k \in TestPart(p, j) <=> j = SuitePlace
    <3>1. j # SuitePlace => j \notin Shared(p)
      BY <1>6, PlacesAre
    <3> QED
      BY <1>3, <1>6, <3>1 DEF TestPart
  <2> QED
    BY <1>5, <2>1, <2>2
<1>7. CASE ~(p.single /\ k \in Shared(p))
  <2>1. k \in Places(p)
    BY <1>7 DEF Places
  <2>2. ASSUME NEW j \in Places(p)
        PROVE  k \in TestPart(p, j) <=> j = k
    <3>1. CASE j = SuitePlace
      BY <1>4, <1>7, <3>1, PlacesAre DEF TestPart
    <3>2. CASE j # SuitePlace
      BY <1>3, <1>7, <3>2 DEF TestPart
    <3> QED
      BY <3>1, <3>2
  <2> QED
    BY <1>5, <2>1, <2>2
<1> QED
  BY <1>6, <1>7

\* An isolated test, and any where each has an executable, is linked with no other.
LEMMA TestsAlone ==
  ASSUME suite \in Suites, NEW i \in Places(suite), IsolatedIn(i) # {} \/ ~suite.single
  PROVE  \E u \in TestsIn(i) : \A v \in TestsIn(i) : v = u \/ (suite.single /\ ~IsTestFile(v.path))
<1>1. i # SuitePlace
  BY IsolatedInIs, PlacesAre
<1>2. suite.single => IsIsolated(suite, suite.tests[i])
  BY IsolatedInIs
<1>3. i \in TestPart(suite, i)
  BY <1>1 DEF TestPart
<1>4. TestUnit(suite.tests[i]) \in TestsIn(i)
  BY <1>3, TestsInAre
<1>5. ASSUME NEW v \in TestsIn(i)
      PROVE  v = TestUnit(suite.tests[i]) \/ (suite.single /\ ~IsTestFile(v.path))
  <2>1. PICK k \in TestPart(suite, i) : v = TestUnit(suite.tests[k])
    BY TestsInAre
  <2>2. k = i \/ (suite.single /\ ~IsTestFile(suite.tests[k]))
    BY <1>1 DEF TestPart
  <2>3. v.path = suite.tests[k]
    BY <2>1 DEF TestUnit, Unit
  <2> QED
    BY <2>1, <2>2, <2>3
<1> QED
  BY <1>4, <1>5

\* What a framework brings is in every executable of a single suite.
LEMMA FrameworkInEach ==
  ASSUME suite \in Suites, suite.single, NEW i \in Places(suite)
  PROVE  {u \in TestUnits(suite) : ~IsTestFile(u.path)} \subseteq TestsIn(i)
<1> SUFFICES ASSUME NEW u \in TestUnits(suite), ~IsTestFile(u.path)
             PROVE  u \in TestsIn(i)
  OBVIOUS
<1>1. SuiteOK(suite)
  BY SuitesAssumption
<1>2. PICK k \in DOMAIN suite.tests : u = TestUnit(suite.tests[k])
  BY DEF TestUnits
<1>3. u.path = suite.tests[k]
  BY <1>2 DEF TestUnit, Unit
<1>4. k \in Shared(suite)
  BY <1>1, <1>3 DEF Shared, IsIsolated, IsolatedAs, SuiteOK
<1>5. i # SuitePlace => i \in DOMAIN suite.tests /\ i \notin Shared(suite)
  BY PlacesAre
<1>6. i # SuitePlace => IsIsolated(suite, suite.tests[i])
  BY <1>5 DEF Shared
<1>7. k \in TestPart(suite, i)
  BY <1>3, <1>4, <1>6 DEF TestPart
<1> QED
  BY <1>2, <1>7, TestsInAre

\* What an accepted suite isolates is a test, and what is replaced there is some code.
LEMMA AskedIsThere ==
  ASSUME suite \in Suites, Accepted(suite), NEW k \in DOMAIN suite.isolated
  PROVE  /\ \E i \in Places(suite) : k \in IsolatedIn(i)
         /\ \A r \in DOMAIN suite.isolated[k].replaces :
              LET Asked(u) == Asks(suite.isolated[k].replaces[r], u)
              IN  (\E u \in OwnUnits(suite) \cup RuntimeUnits(suite) : Asked(u)) /\ ~\E u \in DevUnits(suite) : Asked(u)
<1> DEFINE p == suite
           e == p.isolated[k]
<1>1. SuiteOK(p)
  BY SuitesAssumption
<1>2. CheckIsolatedTests(p)
  BY DEF Accepted
<1>3. PICK n \in DOMAIN p.tests : p.tests[n] = e.file
  BY <1>2 DEF CheckIsolatedTests
<1>4. k \in IsolatedAs(p, p.tests[n]) /\ IsIsolated(p, p.tests[n])
  BY <1>3 DEF IsolatedAs, IsIsolated
<1>5. n \in Places(p) /\ n # SuitePlace
  BY <1>1, <1>4 DEF Places, Shared, SuiteOK, SuitePlace
<1>6. k \in IsolatedIn(n)
  BY <1>4, <1>5, IsolatedInIs
<1>7. ASSUME NEW r \in DOMAIN e.replaces
      PROVE  /\ \E u \in OwnUnits(p) \cup RuntimeUnits(p) : Asks(e.replaces[r], u)
             /\ ~\E u \in DevUnits(p) : Asks(e.replaces[r], u)
  <2>1. Named(p, e.replaces[r]) # {} /\ Named(p, e.replaces[r]) \cap DevUnits(p) = {}
    BY <1>2 DEF CheckIsolatedTests, ReplacesOK
  <2>2. e.replaces[r].dep # "" \/ e.replaces[r].path # <<>>
    BY <1>1 DEF SuiteOK
  <2>3. ASSUME NEW u
        PROVE  Asks(e.replaces[r], u) <=> ReplacementNames(u, e.replaces[r])
    <3>1. CASE e.replaces[r].dep # "" /\ e.replaces[r].path # <<>>
      BY <3>1 DEF Asks, ReplacementNames
    <3>2. CASE e.replaces[r].dep = ""
      BY <2>2, <3>2 DEF Asks, ReplacementNames
    <3>3. CASE e.replaces[r].dep # "" /\ e.replaces[r].path = <<>>
      BY <3>3 DEF Asks, ReplacementNames
    <3> QED
      BY <3>1, <3>2, <3>3
  <2>4. PICK v \in Named(p, e.replaces[r]) : v \notin DevUnits(p)
    BY <2>1
  <2>5. v \in OwnUnits(p) \cup RuntimeUnits(p)
    <3>1. ASSUME v \in TestUnits(p)
          PROVE  FALSE
      <4>1. PICK m \in DOMAIN p.tests : v = TestUnit(p.tests[m])
        BY <3>1 DEF TestUnits
      <4>2. v.kind = "test"
        BY <4>1 DEF TestUnit, Unit
      <4> QED
        BY <2>4, <4>2 DEF Named
    <3> QED
      BY <2>4, <3>1 DEF Named, PlannedUnits
  <2>6. Asks(e.replaces[r], v)
    BY <2>3, <2>4 DEF Named
  <2>7. ASSUME NEW u \in DevUnits(p), Asks(e.replaces[r], u)
        PROVE  FALSE
    <3>1. u \in PlannedUnits(p) /\ u.kind # "test"
      BY OwnOrPackage DEF PlannedUnits
    <3> QED
      BY <2>1, <2>3, <2>7, <3>1 DEF Named
  <2> QED
    BY <2>5, <2>6, <2>7
<1> QED
  BY <1>5, <1>6, <1>7

LEMMA AcceptedAsDeclared ==
  ASSUME suite \in Suites, Accepted(suite)
  PROVE  SuiteAsDeclared
<1>1. ASSUME NEW i \in Places(suite)
      PROVE  LET exe == Executable(suite, i)
                 held == {LinkedAs(suite, u) : u \in Remaining(i)}
             IN  /\ exe.loose \cup exe.archived = ObjectsOf(TestsIn(i)) \cup DevLinked(suite) \cup held
                 /\ exe.archived = IF IsolatedIn(i) = {} THEN {} ELSE {o \in held : ~IsEntryArchive(o)}
  <2> DEFINE exe == Executable(suite, i)
             held == {LinkedAs(suite, u) : u \in Remaining(i)}
  <2>1. ObjectsOf(TestsIn(i)) = ObjectsOfTests(suite, TestPart(suite, i))
    BY TestsInAre DEF ObjectsOf, ObjectsOfTests
  <2>2. CASE i # SuitePlace /\ IsIsolated(suite, suite.tests[i])
    <3>1. held = {o \in LibLinked(suite) : IsEntryArchive(o)} \cup exe.archived
      BY <2>2, HeldIs
    <3>2. IsolatedIn(i) # {}
      BY <2>2, IsolatedInIs DEF IsIsolated
    <3>3. \A o \in exe.archived : ~IsEntryArchive(o)
      BY <2>2, ArchivedIs
    <3>4. exe.loose = ObjectsOfTests(suite, TestPart(suite, i)) \cup DevLinked(suite)
                        \cup {o \in LibLinked(suite) : IsEntryArchive(o)}
      BY <2>2, LooseIs
    <3>5. exe.archived = {o \in held : ~IsEntryArchive(o)}
      BY <3>1, <3>3
    <3>6. exe.loose \cup exe.archived = ObjectsOf(TestsIn(i)) \cup DevLinked(suite) \cup held
      BY <2>1, <3>1, <3>4
    <3> QED
      BY <3>2, <3>5, <3>6
  <2>3. CASE ~(i # SuitePlace /\ IsIsolated(suite, suite.tests[i]))
    <3>1. held = LibLinked(suite)
      BY <2>3, HeldIs
    <3>2. IsolatedIn(i) = {} /\ exe.archived = {}
      BY <2>3, IsolatedInIs, ArchivedIs
    <3>3. exe.loose = ObjectsOfTests(suite, TestPart(suite, i)) \cup DevLinked(suite) \cup LibLinked(suite)
      BY <2>3, LooseIs
    <3>4. exe.loose \cup exe.archived = ObjectsOf(TestsIn(i)) \cup DevLinked(suite) \cup held
      BY <2>1, <3>1, <3>2, <3>3
    <3> QED
      BY <3>2, <3>4
  <2> QED
    BY <2>2, <2>3
<1> QED
  BY <1>1, TestsOnce, TestsAlone, FrameworkInEach, AskedIsThere DEF SuiteAsDeclared

------------------------------------------------------------------------------
(* How far a build is.                                                       *)

\* What is done of a build is done of the suite that was accepted.
StepsInv ==
  /\ suite \in Suites /\ stage \in Stages
  /\ stage # "idle" => Accepted(suite)
  /\ stage = "compile" => offered = {} /\ packed = {} /\ linked = {} /\ ran = {}
  /\ stage = "offer" => offered \subseteq EntryPackages(suite) /\ packed = {} /\ linked = {} /\ ran = {}
  /\ stage = "link" => offered = EntryPackages(suite) /\ linked \subseteq Places(suite) /\ ran = {}
  /\ stage = "link" => packed \subseteq {i \in Places(suite) : Executable(suite, i).archived # {}}
  /\ stage = "run" => linked = Places(suite)

LEMMA StepsInit == SuiteInit => StepsInv
BY DEF SuiteInit, StepsInv, Stages

LEMMA StepsNext == StepsInv /\ [SuiteNext]_suiteVars => StepsInv'
<1> SUFFICES ASSUME StepsInv, [SuiteNext]_suiteVars
             PROVE  StepsInv'
  OBVIOUS
<1> USE DEF StepsInv, Stages, editVars, runVars
<1>1. ASSUME NEW o \in Objects, EditSource(o) PROVE StepsInv'
  BY <1>1 DEF EditSource, Change
<1>2. ASSUME NEW p \in Suites, EditSuite(p) PROVE StepsInv'
  BY <1>2 DEF EditSuite, Change
<1>3. CASE PlanRefused
  BY <1>3 DEF PlanRefused
<1>4. CASE PlanSuite
  BY <1>4 DEF PlanSuite
<1>5. CASE CompileSuite
  BY <1>5 DEF CompileSuite
<1>6. CASE CompileBreaks
  BY <1>6 DEF CompileBreaks, GiveUp
<1>7. ASSUME NEW k \in EntryPackages(suite), OfferEntry(k) PROVE StepsInv'
  BY <1>7 DEF OfferEntry
<1>8. ASSUME NEW k \in EntryPackages(suite), OfferFails(k) PROVE StepsInv'
  BY <1>8 DEF OfferFails, MakeFails, GiveUp
<1>9. CASE TwoEntries
  BY <1>9 DEF TwoEntries, GiveUp
<1>10. CASE EntriesOffered
  BY <1>10 DEF EntriesOffered
<1>11. ASSUME NEW i \in Places(suite), PackIsolated(i) PROVE StepsInv'
  BY <1>11 DEF PackIsolated, ToPack
<1>12. ASSUME NEW i \in Places(suite), PackBreaks(i) PROVE StepsInv'
  BY <1>12 DEF PackBreaks, MakeFails, GiveUp
<1>13. ASSUME NEW i \in Places(suite), LinkTest(i) PROVE StepsInv'
  BY <1>13 DEF LinkTest, ToLink
<1>14. ASSUME NEW i \in Places(suite), LinkBreaks(i) PROVE StepsInv'
  BY <1>14 DEF LinkBreaks, MakeFails, GiveUp
<1>15. CASE PruneDeleted
  BY <1>15 DEF PruneDeleted
<1>16. ASSUME NEW i \in Places(suite), RunTest(i) PROVE StepsInv'
  BY <1>16 DEF RunTest
<1>17. CASE SuiteEnds
  BY <1>17 DEF SuiteEnds
<1>18. CASE UNCHANGED suiteVars
  BY <1>18 DEF suiteVars
<1> QED
  BY <1>1, <1>2, <1>3, <1>4, <1>5, <1>6, <1>7, <1>8, <1>9, <1>10, <1>11, <1>12, <1>13, <1>14,
     <1>15, <1>16, <1>17, <1>18 DEF SuiteNext

\* Of every suite that compiles, its executables are what its manifest says: of every project
\* (build_tests.c, check_isolated_tests).
THEOREM SuiteDeclared == SuiteSpec => []SuiteAsDeclared
<1>1. StepsInv => SuiteAsDeclared
  <2>1. ASSUME StepsInv, stage = "compile" PROVE SuiteAsDeclared
    BY <2>1, AcceptedAsDeclared DEF StepsInv
  <2>2. stage # "compile" => SuiteAsDeclared
    BY DEF SuiteAsDeclared
  <2> QED
    BY <2>1, <2>2
<1> QED
  BY StepsInit, StepsNext, <1>1, PTL DEF SuiteSpec

------------------------------------------------------------------------------
(* The files that are made.                                                  *)

\* What is not out of date holds what it was noted to be made of, as that is now.
DiskInv ==
  \A f \in DOMAIN made : IsProduct(f) =>
    f \in DOMAIN noted /\ (OutOfDate(noted[f], f) \/ made[f] = Joined(noted[f]))

\* Whatever is written makes all that was made of it out of date.
LEMMA RewriteKeeps ==
  ASSUME DiskInv, NEW gone, NEW new, Rewrite(gone, new),
         NEW f \in DOMAIN made', IsProduct(f), f \notin DOMAIN new,
         f \in DOMAIN noted', noted'[f] = noted[f]
  PROVE  OutOfDate(noted[f], f)' \/ made'[f] = (Joined(noted[f]))'
<1> SUFFICES ASSUME ~OutOfDate(noted[f], f)'
             PROVE  made'[f] = (Joined(noted[f]))'
  OBVIOUS
<1> DEFINE kept == DOMAIN made \ (gone \cup DOMAIN new)
<1>1. /\ DOMAIN made' = kept \cup DOMAIN new
      /\ \A g \in kept : made'[g] = made[g]
      /\ later' = {pair \in later : pair[1] \in kept /\ pair[2] \in kept} \cup ({g \in kept : IsProduct(g)} \X DOMAIN new)
  BY DEF Rewrite
<1>2. f \in kept
  BY <1>1
<1>3. ASSUME NEW o \in noted[f]
      PROVE  o \in kept /\ <<f, o>> \notin later
  <2>1. o \in DOMAIN made' /\ <<f, o>> \notin later'
    BY <1>3 DEF OutOfDate
  <2>2. o \notin DOMAIN new
    BY <1>1, <1>2, <2>1
  <2>3. o \in kept
    BY <1>1, <2>1, <2>2
  <2>4. <<f, o>> \notin {pair \in later : pair[1] \in kept /\ pair[2] \in kept}
    BY <1>1, <2>1
  <2> QED
    BY <1>2, <2>3, <2>4
<1>4. ~OutOfDate(noted[f], f)
  BY <1>2, <1>3 DEF OutOfDate
<1>5. made[f] = Joined(noted[f])
  BY <1>2, <1>4 DEF DiskInv
<1>6. \A o \in noted[f] : made'[o] = made[o]
  BY <1>1, <1>3
<1> QED
  BY <1>1, <1>2, <1>5, <1>6 DEF Joined

\* What goes and what compiles disturb nothing that is made.
LEMMA RewriteDisk ==
  ASSUME DiskInv, NEW gone, NEW new, Rewrite(gone, new),
         \A f \in DOMAIN new : ~IsProduct(f),
         \A f \in DOMAIN noted : f \in DOMAIN made' => f \in DOMAIN noted' /\ noted'[f] = noted[f]
  PROVE  DiskInv'
<1> SUFFICES ASSUME NEW f \in DOMAIN made', IsProduct(f)
             PROVE  f \in DOMAIN noted' /\ (OutOfDate(noted[f], f)' \/ made'[f] = (Joined(noted[f]))')
  BY DEF DiskInv
<1>1. f \notin DOMAIN new /\ f \in DOMAIN made
  BY DEF Rewrite
<1>2. f \in DOMAIN noted' /\ noted'[f] = noted[f]
  BY <1>1 DEF DiskInv
<1> QED
  BY <1>1, <1>2, RewriteKeeps

\* What is made holds what it is made of, whether it was made now or left as it was.
LEMMA MakeHolds ==
  ASSUME DiskInv, NEW objects, NEW product, NEW force,
         IsProduct(product), product \notin objects,
         Make(objects, product, force)
  PROVE  /\ DiskInv'
         /\ DOMAIN made' = DOMAIN made \cup {product}
         /\ made'[product] = Joined(objects)
         /\ \A f \in DOMAIN made \ {product} : made'[f] = made[f]
<1>1. CASE force \/ Outdated(objects, product)
  <2> DEFINE new == [f \in {product} |-> Joined(objects)]
  <2>1. Rewrite({}, new) /\ Note(product, objects)
    BY <1>1 DEF Make
  <2>2. DOMAIN new = {product} /\ new[product] = Joined(objects)
    OBVIOUS
  <2>3. /\ DOMAIN made' = DOMAIN made \cup {product}
        /\ made'[product] = Joined(objects)
        /\ \A f \in DOMAIN made \ {product} : made'[f] = made[f]
    BY <2>1 DEF Rewrite
  <2>4. DOMAIN noted' = DOMAIN noted \cup {product} /\ \A f \in DOMAIN noted' : noted'[f] = IF f = product THEN objects ELSE noted[f]
    BY <2>1 DEF Note
  <2>5. ASSUME NEW f \in DOMAIN made', IsProduct(f), f # product
        PROVE  f \in DOMAIN noted' /\ (OutOfDate(noted[f], f)' \/ made'[f] = (Joined(noted[f]))')
    <3>1. f \in DOMAIN made
      BY <2>3, <2>5
    <3>2. f \in DOMAIN noted
      BY <2>5, <3>1 DEF DiskInv
    <3>3. f \in DOMAIN noted' /\ noted'[f] = noted[f]
      BY <2>4, <2>5, <3>2
    <3>4. f \notin DOMAIN new
      BY <2>2, <2>5
    <3> HIDE DEF new
    <3> QED
      BY <2>1, <2>5, <3>3, <3>4, RewriteKeeps
  <2>6. product \in DOMAIN noted' /\ (OutOfDate(noted[product], product)' \/ made'[product] = (Joined(noted[product]))')
    <3>1. noted'[product] = objects /\ product \in DOMAIN noted'
      BY <2>4
    <3>2. ASSUME ~OutOfDate(noted[product], product)'
          PROVE  made'[product] = (Joined(noted[product]))'
      <4>1. \A o \in objects : o \in DOMAIN made'
        BY <3>1, <3>2 DEF OutOfDate
      <4>2. \A o \in objects : made'[o] = made[o]
        BY <2>3, <4>1
      <4> QED
        BY <2>3, <3>1, <4>2 DEF Joined
    <3> QED
      BY <3>1, <3>2
  <2>7. DiskInv'
    BY <2>5, <2>6 DEF DiskInv
  <2> QED
    BY <2>3, <2>7
<1>2. CASE ~(force \/ Outdated(objects, product))
  <2>1. made' = made /\ later' = later /\ noted' = noted
    BY <1>2 DEF Make, diskVars
  <2>2. product \in DOMAIN made /\ noted[product] = objects /\ ~OutOfDate(objects, product)
    BY <1>2 DEF Outdated, OtherCommand
  <2>3. made[product] = Joined(objects)
    BY <2>2 DEF DiskInv
  <2>4. DiskInv'
    BY <2>1 DEF DiskInv, OutOfDate, Joined
  <2> QED
    BY <2>1, <2>2, <2>3, <2>4
<1> QED
  BY <1>1, <1>2

\* What an archive or an executable is made of.
LEMMA LinkFiles ==
  ASSUME NEW p \in Suites, NEW i \in Places(p), NEW f \in LinkObjects(p, i)
  PROVE  \/ f \in ObjectsOf(PlannedUnits(p)) /\ f[1] = "obj"
         \/ \E k \in EntryPackages(p) : f = EntryArchive(k)
         \/ f = Archive(p, i) /\ Executable(p, i).archived # {}
<1>1. ASSUME NEW o \in LibLinked(p) \cup DevLinked(p)
      PROVE  (o \in ObjectsOf(PlannedUnits(p)) /\ o[1] = "obj") \/ \E k \in EntryPackages(p) : o = EntryArchive(k)
  <2>1. PICK u \in LibraryObjectsOf(p) \cup DevUnits(p) : o = LinkedAs(p, u)
    BY DEF LibLinked, DevLinked
  <2>2. CASE IsEntry(p, u)
    BY <2>1, <2>2 DEF LinkedAs, EntryPackages, EntryUnits
  <2>3. CASE ~IsEntry(p, u)
    BY <2>1, <2>3 DEF LinkedAs, ObjectsOf, PlannedUnits, LibraryObjectsOf, Object
  <2> QED
    BY <2>2, <2>3
<1>2. ASSUME NEW o \in ObjectsOfTests(p, TestPart(p, i))
      PROVE  o \in ObjectsOf(PlannedUnits(p)) /\ o[1] = "obj"
  <2>1. PICK k \in TestPart(p, i) : o = Object(TestUnit(p.tests[k]))
    BY DEF ObjectsOfTests
  <2>2. TestUnit(p.tests[k]) \in PlannedUnits(p)
    BY PlacesAre DEF PlannedUnits, TestUnits
  <2> QED
    BY <2>1, <2>2 DEF ObjectsOf, Object
<1>3. CASE f \in Executable(p, i).loose
  BY <1>1, <1>2, <1>3, LooseIs
<1>4. CASE f \notin Executable(p, i).loose
  BY <1>4 DEF LinkObjects
<1> QED
  BY <1>3, <1>4

LEMMA ArchivedFiles ==
  ASSUME NEW p \in Suites, NEW i, NEW f \in Executable(p, i).archived
  PROVE  f \in ObjectsOf(PlannedUnits(p)) /\ f[1] = "obj"
<1>1. f \in LibLinked(p) /\ ~IsEntryArchive(f)
  BY ArchivedIs
<1>2. PICK u \in LibraryObjectsOf(p) : f = LinkedAs(p, u)
  BY <1>1 DEF LibLinked
<1>3. f = Object(u)
  BY <1>1, <1>2, LinkedAsKinds
<1> QED
  BY <1>3 DEF ObjectsOf, PlannedUnits, LibraryObjectsOf, Object

LEMMA EntryFiles ==
  ASSUME NEW p \in Suites, NEW k \in EntryPackages(p)
  PROVE  EntryObject(p, k) \in ObjectsOf(PlannedUnits(p)) /\ EntryObject(p, k)[1] = "obj"
<1>1. PICK u \in LibraryObjectsOf(p) \cup DevUnits(p) : IsEntry(p, u) /\ u.package = k
  BY DEF EntryPackages, EntryUnits
<1>2. Object(u) = EntryObject(p, k)
  BY <1>1 DEF Object, EntryObject, IsEntry
<1>3. u \in PlannedUnits(p)
  BY DEF LibraryObjectsOf, PlannedUnits
<1> QED
  BY <1>2, <1>3 DEF ObjectsOf, EntryObject

\* None is made of itself.
LEMMA Products ==
  ASSUME NEW p \in Suites
  PROVE  /\ \A k : IsProduct(EntryArchive(k)) /\ EntryArchive(k) \notin {EntryObject(p, k)}
         /\ \A i \in Places(p) : IsProduct(Archive(p, i)) /\ Archive(p, i) \notin Executable(p, i).archived
         /\ \A i \in Places(p) : IsProduct(Executable(p, i).binary) /\ Executable(p, i).binary \notin LinkObjects(p, i)
<1>1. ASSUME NEW k
      PROVE  IsProduct(EntryArchive(k)) /\ EntryArchive(k) \notin {EntryObject(p, k)}
  <2>1. EntryArchive(k)[1] = "entry" /\ EntryObject(p, k)[1] = "obj"
    BY DEF EntryArchive, EntryObject
  <2> QED
    BY <2>1 DEF IsProduct
<1>2. ASSUME NEW i \in Places(p)
      PROVE  IsProduct(Archive(p, i)) /\ Archive(p, i) \notin Executable(p, i).archived
  <2>1. Archive(p, i)[1] = "archive"
    BY DEF Archive, IsolatedArchive
  <2> QED
    BY <2>1, ArchivedFiles DEF IsProduct
<1>3. ASSUME NEW i \in Places(p)
      PROVE  IsProduct(Executable(p, i).binary) /\ Executable(p, i).binary \notin LinkObjects(p, i)
  <2>1. Executable(p, i).binary[1] = "bin"
    BY DEF Executable, LinkShared, LinkIsolatedTest, LinkAlone, SuiteBinary, Binary
  <2>2. Archive(p, i)[1] = "archive" /\ \A k : EntryArchive(k)[1] = "entry"
    BY DEF Archive, IsolatedArchive, EntryArchive
  <2> QED
    BY <2>1, <2>2, LinkFiles DEF IsProduct
<1> QED
  BY <1>1, <1>2, <1>3

LEMMA FailsKeeps ==
  ASSUME DiskInv, NEW objects, NEW product, NEW force, NEW gone,
         MakeFails(objects, product, force, gone)
  PROVE  DiskInv'
<1>1. Rewrite(gone, Nothing) /\ noted' = noted
  BY DEF MakeFails
<1>2. \A f \in DOMAIN Nothing : ~IsProduct(f)
  BY DEF Nothing
<1> QED
  BY <1>1, <1>2, RewriteDisk

LEMMA NewObjectsAre ==
  ASSUME NEW objects \in SUBSET StaleObjects
  PROVE  \A f \in DOMAIN NewObjects(objects) : ~IsProduct(f)
BY DEF NewObjects, StaleObjects, ObjectsOf, Object, IsProduct

LEMMA DiskInit == SuiteInit => DiskInv
BY DEF SuiteInit, DiskInv, Nothing

LEMMA DiskNext == StepsInv /\ DiskInv /\ [SuiteNext]_suiteVars => DiskInv'
<1> SUFFICES ASSUME StepsInv, DiskInv, [SuiteNext]_suiteVars
             PROVE  DiskInv'
  OBVIOUS
<1>0. suite \in Suites
  BY DEF StepsInv
<1>1. CASE UNCHANGED diskVars
  BY <1>1 DEF diskVars, DiskInv, OutOfDate, Joined
<1>2. CASE CompileSuite
  <2>1. Rewrite({}, NewObjects(StaleObjects)) /\ noted' = noted
    BY <1>2 DEF CompileSuite
  <2> QED
    BY <2>1, NewObjectsAre, RewriteDisk
<1>3. CASE CompileBreaks
  <2>1. PICK done \in SUBSET StaleObjects : \E gone \in SUBSET (StaleObjects \ done) :
          Rewrite(gone, NewObjects(done))
    BY <1>3 DEF CompileBreaks
  <2>2. PICK gone \in SUBSET (StaleObjects \ done) : Rewrite(gone, NewObjects(done))
    BY <2>1
  <2>3. noted' = noted
    BY <1>3 DEF CompileBreaks
  <2> QED
    BY <2>2, <2>3, NewObjectsAre, RewriteDisk
<1>4. ASSUME NEW k \in EntryPackages(suite), OfferEntry(k) PROVE DiskInv'
  BY <1>0, <1>4, MakeHolds, Products DEF OfferEntry
<1>5. ASSUME NEW k \in EntryPackages(suite), OfferFails(k) PROVE DiskInv'
  BY <1>5, FailsKeeps DEF OfferFails
<1>6. ASSUME NEW i \in Places(suite), PackIsolated(i) PROVE DiskInv'
  BY <1>0, <1>6, MakeHolds, Products DEF PackIsolated
<1>7. ASSUME NEW i \in Places(suite), PackBreaks(i) PROVE DiskInv'
  BY <1>7, FailsKeeps DEF PackBreaks
<1>8. ASSUME NEW i \in Places(suite), LinkTest(i) PROVE DiskInv'
  BY <1>0, <1>8, MakeHolds, Products DEF LinkTest
<1>9. ASSUME NEW i \in Places(suite), LinkBreaks(i) PROVE DiskInv'
  BY <1>9, FailsKeeps DEF LinkBreaks
<1>10. CASE PruneDeleted
  <2>1. PICK gone : Rewrite(gone, Nothing) /\ noted' = [f \in DOMAIN noted \ gone |-> noted[f]]
    BY <1>10 DEF PruneDeleted
  <2>2. \A f \in DOMAIN made' : f \notin gone
    BY <2>1 DEF Rewrite, Nothing
  <2>3. \A f \in DOMAIN noted : f \in DOMAIN made' => f \in DOMAIN noted' /\ noted'[f] = noted[f]
    BY <2>1, <2>2
  <2>4. \A f \in DOMAIN Nothing : ~IsProduct(f)
    BY DEF Nothing
  <2> QED
    BY <2>1, <2>3, <2>4, RewriteDisk
<1>11. ASSUME NEW o \in Objects, EditSource(o) PROVE UNCHANGED diskVars
  BY <1>11 DEF EditSource, Change
<1>12. ASSUME NEW p \in Suites, EditSuite(p) PROVE UNCHANGED diskVars
  BY <1>12 DEF EditSuite, Change
<1>13. CASE PlanRefused \/ PlanSuite \/ TwoEntries \/ EntriesOffered \/ SuiteEnds \/ UNCHANGED suiteVars
  BY <1>1, <1>13 DEF PlanRefused, PlanSuite, TwoEntries, EntriesOffered, SuiteEnds, suiteVars, diskVars
<1>14. ASSUME NEW i \in Places(suite), RunTest(i) PROVE UNCHANGED diskVars
  BY <1>14 DEF RunTest
<1> QED
  BY <1>1, <1>2, <1>3, <1>4, <1>5, <1>6, <1>7, <1>8, <1>9, <1>10, <1>11, <1>12, <1>13, <1>14 DEF SuiteNext

------------------------------------------------------------------------------
(* What is made of a suite is what its sources say.                          *)

Holds(f, content) == f \in DOMAIN made /\ made[f] = content
Run(i) ==
  [place |-> i, holds |-> Anew(i), vars |-> PlaceInRun(suite.env, Index(suite, i), Cardinality(Places(suite)))]

ObjectsCurrent ==
  stage \in {"offer", "link"} => \A o \in ObjectsOf(PlannedUnits(suite)) : Holds(o, written[o])
EntriesCurrent ==
  stage \in {"offer", "link"} => \A k \in offered : Holds(EntryArchive(k), MadeFrom({EntryObject(suite, k)}))
PackedCurrent ==
  stage = "link" => \A i \in packed : Holds(Archive(suite, i), MadeFrom(Executable(suite, i).archived))
LinkedCurrent ==
  stage \in {"link", "run"} => \A i \in linked : Holds(Executable(suite, i).binary, Anew(i))
DeletedGone ==
  stage = "run" =>
    \A f \in DOMAIN made : f[1] = "bin" /\ f[2] = "tests" => \E i \in Places(suite) : f = Executable(suite, i).binary
RunCurrent ==
  stage = "run" => ran \subseteq {Run(i) : i \in Places(suite)}

SuiteInv ==
  /\ StepsInv /\ DiskInv
  /\ ObjectsCurrent /\ EntriesCurrent /\ PackedCurrent /\ LinkedCurrent /\ DeletedGone /\ RunCurrent

\* In a suite that is accepted no two executables and no two archives have one path: of targets
\* apart where each test has its own, and else by assumption.
LEMMA PathsApart ==
  ASSUME \A p \in Suites : p.single => StemsApart(p),
         suite \in Suites, Accepted(suite), NEW i \in Places(suite), NEW j \in Places(suite)
  PROVE  /\ Executable(suite, i).binary = Executable(suite, j).binary => i = j
         /\ i # SuitePlace /\ j # SuitePlace /\ Archive(suite, i) = Archive(suite, j) => i = j
<1>1. \A n \in Places(suite) : n # SuitePlace => Executable(suite, n).binary = Binary(suite.tests[n])
  BY DEF Executable, LinkIsolatedTest, LinkAlone
<1>2. Executable(suite, i).binary = Executable(suite, j).binary => i = j
  <2>1. CASE suite.single
    BY <2>1 DEF StemsApart
  <2>2. CASE ~suite.single
    <3>1. i # SuitePlace /\ j # SuitePlace /\ i \in DOMAIN suite.tests /\ j \in DOMAIN suite.tests
      BY <2>2, PlacesAre
    <3> QED
      BY <1>1, <2>2, <3>1 DEF Accepted, TargetsApart
  <2> QED
    BY <2>1, <2>2
<1>3. Archive(suite, i) = Archive(suite, j) => Binary(suite.tests[i]) = Binary(suite.tests[j])
  BY DEF Archive, IsolatedArchive, Binary
<1> QED
  BY <1>1, <1>2, <1>3

LEMMA Kinds ==
  /\ \A u : Object(u)[1] = "obj"
  /\ \A k : EntryArchive(k)[1] = "entry"
  /\ \A p, i : Archive(p, i)[1] = "archive"
  /\ \A p, i : Executable(p, i).binary[1] = "bin"
BY DEF Object, EntryArchive, Archive, IsolatedArchive, Executable, LinkShared, LinkIsolatedTest, LinkAlone,
       SuiteBinary, Binary

LEMMA PlannedKind == \A p : \A o \in ObjectsOf(PlannedUnits(p)) : o[1] = "obj"
BY Kinds DEF ObjectsOf

\* Of what is made while nothing is edited, what holds what it should still does.
LEMMA HoldsOn ==
  ASSUME NEW f, NEW content, Holds(f, content), f \in DOMAIN made', made'[f] = made[f]
  PROVE  Holds(f, content)'
BY DEF Holds

\* An executable that is linked of what is current is as one made from nothing.
LEMMA JoinedAnew ==
  ASSUME SuiteInv, stage = "link", NEW i \in Places(suite), Executable(suite, i).archived = {} \/ i \in packed
  PROVE  Joined(LinkObjects(suite, i)) = Anew(i)
<1>0. suite \in Suites
  BY DEF SuiteInv, StepsInv
<1>1. ASSUME NEW f \in LinkObjects(suite, i)
      PROVE  made[f] = CASE f[1] = "obj" -> written[f]
                         [] f[1] = "entry" -> MadeFrom({EntryObject(suite, f[2])})
                         [] OTHER -> MadeFrom(Executable(suite, i).archived)
  <2>1. CASE f \in ObjectsOf(PlannedUnits(suite)) /\ f[1] = "obj"
    BY <2>1 DEF SuiteInv, ObjectsCurrent, Holds
  <2>2. CASE \E k \in EntryPackages(suite) : f = EntryArchive(k)
    <3>1. PICK k \in EntryPackages(suite) : f = EntryArchive(k)
      BY <2>2
    <3>2. f[1] = "entry" /\ f[2] = k
      BY <3>1 DEF EntryArchive
    <3>3. k \in offered
      BY DEF SuiteInv, StepsInv
    <3>4. made[f] = MadeFrom({EntryObject(suite, k)})
      BY <3>1, <3>3 DEF SuiteInv, EntriesCurrent, Holds
    <3> QED
      BY <3>2, <3>4
  <2>3. CASE f = Archive(suite, i) /\ Executable(suite, i).archived # {}
    <3>1. made[f] = MadeFrom(Executable(suite, i).archived)
      BY <2>3 DEF SuiteInv, PackedCurrent, Holds
    <3>2. f[1] = "archive"
      BY <2>3, Kinds
    <3> QED
      BY <3>1, <3>2
  <2> QED
    BY <1>0, <2>1, <2>2, <2>3, LinkFiles
<1> QED
  BY <1>1 DEF Joined, Anew

\* What is made next disturbs neither the objects nor what was made before.
LEMMA ObjectsMake ==
  ASSUME SuiteInv, NEW product, IsProduct(product),
         stage \in {"offer", "link"}, UNCHANGED <<suite, written>>,
         product \in DOMAIN made', DOMAIN made \subseteq DOMAIN made',
         \A f \in DOMAIN made \ {product} : made'[f] = made[f]
  PROVE  ObjectsCurrent'
<1>1. ASSUME NEW o \in ObjectsOf(PlannedUnits(suite))
      PROVE  o \in DOMAIN made' /\ made'[o] = written[o]
  <2>1. o # product
    BY PlannedKind DEF IsProduct
  <2>2. o \in DOMAIN made /\ made[o] = written[o]
    BY DEF SuiteInv, ObjectsCurrent, Holds
  <2> QED
    BY <2>1, <2>2
<1> QED
  BY <1>1 DEF ObjectsCurrent, Holds

LEMMA MakeEntry ==
  ASSUME SuiteInv, NEW k \in EntryPackages(suite), OfferEntry(k)
  PROVE  ObjectsCurrent' /\ EntriesCurrent'
<1>0. suite \in Suites
  BY DEF SuiteInv, StepsInv
<1>1. /\ stage = "offer" /\ Make({EntryObject(suite, k)}, EntryArchive(k), FALSE)
      /\ offered' = {k} /\ suite' = suite /\ written' = written
  BY DEF OfferEntry, editVars
<1>2. IsProduct(EntryArchive(k)) /\ EntryArchive(k) \notin {EntryObject(suite, k)}
  BY <1>0, Products
<1>3. /\ DOMAIN made' = DOMAIN made \cup {EntryArchive(k)}
      /\ made'[EntryArchive(k)] = Joined({EntryObject(suite, k)})
      /\ \A f \in DOMAIN made \ {EntryArchive(k)} : made'[f] = made[f]
  BY <1>1, <1>2, MakeHolds DEF SuiteInv
<1>4. ObjectsCurrent'
  BY <1>1, <1>2, <1>3, ObjectsMake
<1>5. Joined({EntryObject(suite, k)}) = MadeFrom({EntryObject(suite, k)})
  <2>1. EntryObject(suite, k) \in ObjectsOf(PlannedUnits(suite))
    BY <1>0, EntryFiles
  <2>2. made[EntryObject(suite, k)] = written[EntryObject(suite, k)]
    BY <1>1, <2>1 DEF SuiteInv, ObjectsCurrent, Holds
  <2> QED
    BY <2>2 DEF Joined, MadeFrom
<1>6. EntriesCurrent'
  BY <1>1, <1>3, <1>5 DEF EntriesCurrent, Holds, MadeFrom, EntryObject
<1> QED
  BY <1>4, <1>6

LEMMA AnewStays ==
  ASSUME UNCHANGED <<suite, written>>
  PROVE  \A n : Anew(n)' = Anew(n)
BY DEF Anew, MadeFrom

LEMMA MakeArchive ==
  ASSUME \A p \in Suites : p.single => StemsApart(p),
         SuiteInv, NEW i \in Places(suite), PackIsolated(i)
  PROVE  ObjectsCurrent' /\ EntriesCurrent' /\ PackedCurrent' /\ LinkedCurrent'
<1> DEFINE product == Archive(suite, i)
           objects == Executable(suite, i).archived
<1>1. suite \in Suites /\ stage = "link" /\ Accepted(suite) /\ linked \subseteq Places(suite)
      /\ packed \subseteq {n \in Places(suite) : Executable(suite, n).archived # {}}
  BY DEF SuiteInv, StepsInv, PackIsolated, ToPack
<1>2. /\ Make(objects, product, compiled) /\ objects # {} /\ i \notin packed
      /\ packed' = packed \cup {i} /\ UNCHANGED <<suite, written, stage, offered, linked>>
  BY DEF PackIsolated, ToPack, editVars
<1>3. IsProduct(product) /\ product \notin objects
  BY <1>1, Products
<1>4. /\ DOMAIN made' = DOMAIN made \cup {product}
      /\ made'[product] = Joined(objects)
      /\ \A f \in DOMAIN made \ {product} : made'[f] = made[f]
  BY <1>2, <1>3, MakeHolds DEF SuiteInv
<1>5. ObjectsCurrent'
  BY <1>1, <1>2, <1>3, <1>4, ObjectsMake
<1>6. EntriesCurrent'
  <2>1. \A k \in offered : EntryArchive(k) # product
    BY Kinds
  <2>2. \A k \in offered : EntryArchive(k) \in DOMAIN made /\ made[EntryArchive(k)] = MadeFrom({EntryObject(suite, k)})
    BY <1>1 DEF SuiteInv, EntriesCurrent, Holds
  <2> QED
    BY <1>2, <1>4, <2>1, <2>2 DEF EntriesCurrent, Holds, MadeFrom, EntryObject
<1>7. PackedCurrent'
  <2>1. Joined(objects) = MadeFrom(objects)
    <3>1. \A o \in objects : made[o] = written[o]
      BY <1>1, ArchivedFiles DEF SuiteInv, ObjectsCurrent, Holds
    <3> QED
      BY <3>1 DEF Joined, MadeFrom
  <2>2. \A n \in packed \cup {i} : n # SuitePlace
    BY <1>1, <1>2, ArchivedIs
  <2>3. \A n \in packed : Archive(suite, n) # product
    BY <1>1, <1>2, <2>2, PathsApart
  <2>4. \A n \in packed : Archive(suite, n) \in DOMAIN made /\ made[Archive(suite, n)] = MadeFrom(Executable(suite, n).archived)
    BY <1>1 DEF SuiteInv, PackedCurrent, Holds
  <2>5. \A n \in packed' : /\ Archive(suite, n) \in DOMAIN made'
                           /\ made'[Archive(suite, n)] = MadeFrom(Executable(suite, n).archived)
    BY <1>2, <1>4, <2>1, <2>3, <2>4
  <2> QED
    BY <1>2, <2>5 DEF PackedCurrent, Holds, MadeFrom
<1>8. LinkedCurrent'
  <2>1. \A n \in linked : Executable(suite, n).binary # product
    BY Kinds
  <2>2. \A n \in linked : Executable(suite, n).binary \in DOMAIN made /\ made[Executable(suite, n).binary] = Anew(n)
    BY <1>1 DEF SuiteInv, LinkedCurrent, Holds
  <2>3. \A n \in linked' : Executable(suite, n).binary \in DOMAIN made' /\ made'[Executable(suite, n).binary] = Anew(n)
    BY <1>2, <1>4, <2>1, <2>2
  <2> QED
    BY <1>2, <2>3, AnewStays DEF LinkedCurrent, Holds
<1> QED
  BY <1>5, <1>6, <1>7, <1>8

LEMMA MakeExecutable ==
  ASSUME \A p \in Suites : p.single => StemsApart(p),
         SuiteInv, NEW i \in Places(suite), LinkTest(i)
  PROVE  ObjectsCurrent' /\ EntriesCurrent' /\ PackedCurrent' /\ LinkedCurrent'
<1> DEFINE product == Executable(suite, i).binary
           objects == LinkObjects(suite, i)
<1>1. suite \in Suites /\ stage = "link" /\ Accepted(suite) /\ linked \subseteq Places(suite)
  BY DEF SuiteInv, StepsInv, LinkTest, ToLink
<1>2. /\ Make(objects, product, compiled)
      /\ Executable(suite, i).archived = {} \/ i \in packed
      /\ i \notin linked /\ linked' = linked \cup {i} /\ UNCHANGED <<suite, written, stage, offered, packed>>
  BY DEF LinkTest, ToLink, IsNext, editVars
<1>3. IsProduct(product) /\ product \notin objects
  BY <1>1, Products
<1>4. /\ DOMAIN made' = DOMAIN made \cup {product}
      /\ made'[product] = Joined(objects)
      /\ \A f \in DOMAIN made \ {product} : made'[f] = made[f]
  BY <1>2, <1>3, MakeHolds DEF SuiteInv
<1>5. ObjectsCurrent'
  BY <1>1, <1>2, <1>3, <1>4, ObjectsMake
<1>6. EntriesCurrent'
  <2>1. \A k \in offered : EntryArchive(k) # product
    BY Kinds
  <2>2. \A k \in offered : EntryArchive(k) \in DOMAIN made /\ made[EntryArchive(k)] = MadeFrom({EntryObject(suite, k)})
    BY <1>1 DEF SuiteInv, EntriesCurrent, Holds
  <2> QED
    BY <1>2, <1>4, <2>1, <2>2 DEF EntriesCurrent, Holds, MadeFrom, EntryObject
<1>7. PackedCurrent'
  <2>1. \A n \in packed : Archive(suite, n) # product
    BY Kinds
  <2>2. \A n \in packed : Archive(suite, n) \in DOMAIN made /\ made[Archive(suite, n)] = MadeFrom(Executable(suite, n).archived)
    BY <1>1 DEF SuiteInv, PackedCurrent, Holds
  <2> QED
    BY <1>2, <1>4, <2>1, <2>2 DEF PackedCurrent, Holds, MadeFrom
<1>8. LinkedCurrent'
  <2>1. \A n \in linked : Executable(suite, n).binary # product
    BY <1>1, <1>2, PathsApart
  <2>2. \A n \in linked : Executable(suite, n).binary \in DOMAIN made /\ made[Executable(suite, n).binary] = Anew(n)
    BY <1>1 DEF SuiteInv, LinkedCurrent, Holds
  <2>3. Joined(objects) = Anew(i)
    BY <1>1, <1>2, JoinedAnew
  <2>4. \A n \in linked' : Executable(suite, n).binary \in DOMAIN made' /\ made'[Executable(suite, n).binary] = Anew(n)
    BY <1>2, <1>4, <2>1, <2>2, <2>3
  <2> QED
    BY <1>2, <2>4, AnewStays DEF LinkedCurrent, Holds
<1> QED
  BY <1>5, <1>6, <1>7, <1>8

\* What is pruned is none of the executables.
LEMMA PruneKeeps ==
  ASSUME SuiteInv, PruneDeleted
  PROVE  LinkedCurrent' /\ DeletedGone' /\ RunCurrent'
<1> DEFINE live == {Executable(suite, i).binary : i \in linked} \cup ObjectsOf(TestUnits(suite))
           below == {f \in DOMAIN made \cup DOMAIN noted :
                       IF IsProduct(f) THEN f[1] \in {"bin", "archive"} /\ f[2] = "tests"
                       ELSE f[2] = "" /\ IsTestFile(f[3])}
<1>1. /\ stage = "link" /\ linked = Places(suite) /\ stage' = "run"
      /\ Rewrite(below \ live, Nothing)
      /\ UNCHANGED <<suite, written, linked, ran>>
  BY DEF PruneDeleted, editVars, runVars
<1>2. DOMAIN made' = DOMAIN made \ (below \ live) /\ \A f \in DOMAIN made' : made'[f] = made[f]
  BY <1>1 DEF Rewrite, Nothing
<1>3. LinkedCurrent'
  <2>1. ASSUME NEW i \in linked
        PROVE  Executable(suite, i).binary \in DOMAIN made' /\ made'[Executable(suite, i).binary] = Anew(i)
    <3>1. Executable(suite, i).binary \in live
      OBVIOUS
    <3>2. Executable(suite, i).binary \in DOMAIN made /\ made[Executable(suite, i).binary] = Anew(i)
      BY <1>1 DEF SuiteInv, LinkedCurrent, Holds
    <3> QED
      BY <1>2, <3>1, <3>2
  <2> QED
    BY <1>1, <2>1, AnewStays DEF LinkedCurrent, Holds
<1>4. DeletedGone'
  <2>1. ASSUME NEW f \in DOMAIN made', f[1] = "bin", f[2] = "tests"
        PROVE  \E i \in Places(suite) : f = Executable(suite, i).binary
    <3>1. f \in below
      BY <1>2, <2>1 DEF IsProduct
    <3>2. f \in live
      BY <1>2, <3>1
    <3>3. f \notin ObjectsOf(TestUnits(suite))
      BY <2>1, Kinds DEF ObjectsOf
    <3> QED
      BY <1>1, <3>2, <3>3
  <2> QED
    BY <1>1, <2>1 DEF DeletedGone
<1>5. RunCurrent'
  <2>1. ran = {}
    BY <1>1 DEF SuiteInv, StepsInv
  <2> QED
    BY <1>1, <2>1 DEF RunCurrent
<1> QED
  BY <1>3, <1>4, <1>5

LEMMA RunIsAnew ==
  ASSUME SuiteInv, NEW i \in Places(suite), RunTest(i)
  PROVE  RunCurrent'
<1>1. /\ stage = "run" /\ ran' = ran \cup {[place |-> i, holds |-> made[Executable(suite, i).binary],
                       vars |-> PlaceInRun(suite.env, Index(suite, i), Cardinality(Places(suite)))]}
      /\ UNCHANGED <<suite, written, stage>>
  BY DEF RunTest, editVars
<1>2. made[Executable(suite, i).binary] = Anew(i)
  BY <1>1 DEF SuiteInv, StepsInv, LinkedCurrent, Holds
<1>3. ran' \subseteq {Run(n) : n \in Places(suite)}
  BY <1>1, <1>2 DEF SuiteInv, RunCurrent, Run
<1>4. \A n \in Places(suite) : Run(n)' = Run(n)
  BY <1>1, AnewStays DEF Run
<1> QED
  BY <1>1, <1>3, <1>4 DEF RunCurrent

\* Between the builds nothing of one is promised, but what is on disk.
CurrentInv ==
  ObjectsCurrent /\ EntriesCurrent /\ PackedCurrent /\ LinkedCurrent /\ DeletedGone /\ RunCurrent

LEMMA CurrentWhen ==
  /\ stage' \in {"idle", "compile"} => CurrentInv'
  /\ stage' = "offer" /\ ObjectsCurrent' /\ EntriesCurrent' => CurrentInv'
  /\ stage' = "link" /\ ObjectsCurrent' /\ EntriesCurrent' /\ PackedCurrent' /\ LinkedCurrent' => CurrentInv'
  /\ stage' = "run" /\ LinkedCurrent' /\ DeletedGone' /\ RunCurrent' => CurrentInv'
BY DEF CurrentInv, ObjectsCurrent, EntriesCurrent, PackedCurrent, LinkedCurrent, DeletedGone, RunCurrent

\* All of it is of the suite, what its sources say, the files and the steps done.
LEMMA CurrentStays ==
  ASSUME CurrentInv, UNCHANGED <<suite, written, made, stage, offered, packed, linked, ran>>
  PROVE  CurrentInv'
<1>1. \A n : Anew(n)' = Anew(n)
  BY AnewStays
<1>2. \A n \in Places(suite) : Run(n)' = Run(n)
  BY <1>1 DEF Run
<1>3. RunCurrent'
  BY <1>2 DEF CurrentInv, RunCurrent
<1>4. LinkedCurrent'
  BY <1>1 DEF CurrentInv, LinkedCurrent, Holds
<1>5. ObjectsCurrent' /\ EntriesCurrent' /\ PackedCurrent' /\ DeletedGone'
  BY DEF CurrentInv, ObjectsCurrent, EntriesCurrent, PackedCurrent, DeletedGone, Holds, MadeFrom
<1> QED
  BY <1>3, <1>4, <1>5 DEF CurrentInv

\* When the compilers are done every object is what its source says.
LEMMA CompileMakes ==
  ASSUME StepsInv, CompileSuite
  PROVE  ObjectsCurrent' /\ EntriesCurrent'
<1>1. /\ stage = "compile" /\ Rewrite({}, NewObjects(StaleObjects))
      /\ UNCHANGED <<suite, written, offered>>
  BY DEF CompileSuite, editVars
<1>2. ASSUME NEW o \in ObjectsOf(PlannedUnits(suite))
      PROVE  o \in DOMAIN made' /\ made'[o] = written[o]
  <2>1. CASE o \in StaleObjects
    BY <1>1, <2>1 DEF Rewrite, NewObjects
  <2>2. CASE o \notin StaleObjects
    <3>1. o \in DOMAIN made /\ made[o] = written[o]
      BY <2>2 DEF StaleObjects
    <3>2. DOMAIN NewObjects(StaleObjects) = StaleObjects
      BY DEF NewObjects
    <3> QED
      BY <1>1, <2>2, <3>1, <3>2 DEF Rewrite
  <2> QED
    BY <2>1, <2>2
<1>3. ObjectsCurrent'
  BY <1>1, <1>2 DEF ObjectsCurrent, Holds
<1>4. offered' = {}
  BY <1>1 DEF StepsInv
<1> QED
  BY <1>3, <1>4 DEF EntriesCurrent

LEMMA CurrentNext ==
  ASSUME \A p \in Suites : p.single => StemsApart(p),
         StepsInv, DiskInv, CurrentInv, [SuiteNext]_suiteVars
  PROVE  CurrentInv'
<1>0. SuiteInv
  BY DEF SuiteInv, CurrentInv
<1>1. ASSUME NEW o \in Objects, EditSource(o) PROVE CurrentInv'
  BY <1>1, CurrentWhen DEF EditSource, Change
<1>2. ASSUME NEW p \in Suites, EditSuite(p) PROVE CurrentInv'
  BY <1>2, CurrentWhen DEF EditSuite, Change
<1>3. CASE PlanRefused
  BY <1>3, CurrentWhen DEF PlanRefused
<1>4. CASE PlanSuite
  BY <1>4, CurrentWhen DEF PlanSuite
<1>5. CASE CompileSuite
  <2>1. stage' = "offer"
    BY <1>5 DEF CompileSuite
  <2> QED
    BY <1>5, <2>1, CompileMakes, CurrentWhen
<1>6. CASE CompileBreaks
  BY <1>6, CurrentWhen DEF CompileBreaks, GiveUp
<1>7. ASSUME NEW k \in EntryPackages(suite), OfferEntry(k) PROVE CurrentInv'
  <2>1. stage' = "offer"
    BY <1>7 DEF OfferEntry
  <2> QED
    BY <1>0, <1>7, <2>1, MakeEntry, CurrentWhen
<1>8. ASSUME NEW k \in EntryPackages(suite), OfferFails(k) PROVE CurrentInv'
  BY <1>8, CurrentWhen DEF OfferFails, MakeFails, GiveUp
<1>9. CASE TwoEntries
  BY <1>9, CurrentWhen DEF TwoEntries, GiveUp
<1>10. CASE EntriesOffered
  <2>1. /\ stage = "offer" /\ stage' = "link" /\ packed = {} /\ linked = {}
        /\ UNCHANGED <<suite, written, made, offered, packed, linked>>
    BY <1>10 DEF EntriesOffered, StepsInv, editVars, diskVars, runVars
  <2>2. ObjectsCurrent' /\ EntriesCurrent'
    BY <2>1 DEF CurrentInv, ObjectsCurrent, EntriesCurrent, Holds, MadeFrom
  <2>3. PackedCurrent' /\ LinkedCurrent'
    BY <2>1 DEF PackedCurrent, LinkedCurrent
  <2> QED
    BY <2>1, <2>2, <2>3, CurrentWhen
<1>11. ASSUME NEW i \in Places(suite), PackIsolated(i) PROVE CurrentInv'
  <2>1. stage' = "link"
    BY <1>11 DEF PackIsolated, ToPack
  <2> QED
    BY <1>0, <1>11, <2>1, MakeArchive, CurrentWhen
<1>12. ASSUME NEW i \in Places(suite), PackBreaks(i) PROVE CurrentInv'
  BY <1>12, CurrentWhen DEF PackBreaks, MakeFails, GiveUp
<1>13. ASSUME NEW i \in Places(suite), LinkTest(i) PROVE CurrentInv'
  <2>1. stage' = "link"
    BY <1>13 DEF LinkTest, ToLink
  <2> QED
    BY <1>0, <1>13, <2>1, MakeExecutable, CurrentWhen
<1>14. ASSUME NEW i \in Places(suite), LinkBreaks(i) PROVE CurrentInv'
  BY <1>14, CurrentWhen DEF LinkBreaks, MakeFails, GiveUp
<1>15. CASE PruneDeleted
  <2>1. stage' = "run"
    BY <1>15 DEF PruneDeleted
  <2> QED
    BY <1>0, <1>15, <2>1, PruneKeeps, CurrentWhen
<1>16. ASSUME NEW i \in Places(suite), RunTest(i) PROVE CurrentInv'
  <2>1. /\ stage = "run" /\ stage' = "run" /\ UNCHANGED <<suite, written, made, linked>>
    BY <1>16 DEF RunTest, editVars, diskVars
  <2>2. LinkedCurrent'
    BY <2>1, AnewStays DEF CurrentInv, LinkedCurrent, Holds
  <2>3. DeletedGone'
    BY <2>1 DEF CurrentInv, DeletedGone
  <2> QED
    BY <1>0, <1>16, <2>1, <2>2, <2>3, RunIsAnew, CurrentWhen
<1>17. CASE SuiteEnds
  BY <1>17, CurrentWhen DEF SuiteEnds
<1>18. CASE UNCHANGED suiteVars
  BY <1>18, CurrentStays DEF suiteVars
<1> QED
  BY <1>1, <1>2, <1>3, <1>4, <1>5, <1>6, <1>7, <1>8, <1>9, <1>10, <1>11, <1>12, <1>13, <1>14,
     <1>15, <1>16, <1>17, <1>18 DEF SuiteNext

------------------------------------------------------------------------------
(* The places in a run.                                                      *)

LEMMA PlacesFinite ==
  ASSUME NEW p \in Suites
  PROVE  IsFiniteSet(Places(p)) /\ Places(p) \subseteq Nat
<1>1. SuiteOK(p)
  BY SuitesAssumption
<1>2. IsFiniteSet(DOMAIN p.tests \cup {SuitePlace})
  BY <1>1, FS_AddElement DEF SuiteOK
<1>3. Places(p) \subseteq DOMAIN p.tests \cup {SuitePlace}
  BY DEF Places
<1>4. DOMAIN p.tests \cup {SuitePlace} \subseteq Nat
  <2>1. DOMAIN p.tests \subseteq Nat \ {0}
    BY <1>1 DEF SuiteOK
  <2> QED
    BY <2>1 DEF SuitePlace
<1> QED
  BY <1>2, <1>3, <1>4, FS_Subset

\* Each executable has an index of its own, of as many as there are.
LEMMA IndexApart ==
  ASSUME NEW p \in Suites, NEW i \in Places(p)
  PROVE  /\ Index(p, i) \in 1..Cardinality(Places(p))
         /\ \A j \in Places(p) : Index(p, j) = Index(p, i) => j = i
<1> DEFINE Upto(j) == {k \in Places(p) : k <= j}
<1>1. IsFiniteSet(Places(p)) /\ Places(p) \subseteq Nat
  BY PlacesFinite
<1>2. \A j \in Places(p) : /\ IsFiniteSet(Upto(j)) /\ Cardinality(Upto(j)) \in Nat
                           /\ Cardinality(Upto(j)) <= Cardinality(Places(p))
  <2>1. \A j \in Places(p) : Upto(j) \subseteq Places(p)
    OBVIOUS
  <2> QED
    BY <1>1, <2>1, FS_Subset, FS_CardinalityType
<1>3. Cardinality(Places(p)) \in Nat
  BY <1>1, FS_CardinalityType
<1>4. i \in Upto(i)
  BY <1>1
<1>5. Cardinality(Upto(i)) # 0
  BY <1>2, <1>4, FS_EmptySet
<1>6. ASSUME NEW j \in Places(p), NEW k \in Places(p), j < k
      PROVE  Cardinality(Upto(j)) # Cardinality(Upto(k))
  <2>1. Upto(j) \subseteq Upto(k)
    BY <1>1, <1>6
  <2>2. k \in Upto(k) /\ k \notin Upto(j)
    BY <1>1, <1>6
  <2> QED
    BY <1>2, <2>1, <2>2, FS_Subset
<1>7. ASSUME NEW j \in Places(p), Cardinality(Upto(j)) = Cardinality(Upto(i))
      PROVE  j = i
  BY <1>1, <1>6, <1>7
<1> QED
  BY <1>2, <1>3, <1>5, <1>7 DEF Index

LEMMA ToldAre ==
  ASSUME NEW i
  PROVE  /\ Told(Run(i), CountVar) = {Cardinality(Places(suite))}
         /\ Told(Run(i), IndexVar) = {Index(suite, i)}
<1>1. Run(i).vars = PlaceInRun(suite.env, Index(suite, i), Cardinality(Places(suite)))
  BY DEF Run
<1>2. {w \in Run(i).vars : w[1] = CountVar} = {<<CountVar, Cardinality(Places(suite))>>}
  BY <1>1 DEF PlaceInRun, IndexVar, CountVar
<1>3. {w \in Run(i).vars : w[1] = IndexVar} = {<<IndexVar, Index(suite, i)>>}
  BY <1>1 DEF PlaceInRun, IndexVar, CountVar
<1>4. Told(Run(i), CountVar) = {v[2] : v \in {<<CountVar, Cardinality(Places(suite))>>}}
  BY <1>2 DEF Told
<1>5. Told(Run(i), IndexVar) = {v[2] : v \in {<<IndexVar, Index(suite, i)>>}}
  BY <1>3 DEF Told
<1>6. \A a, b : {v[2] : v \in {<<a, b>>}} = {b}
  OBVIOUS
<1> QED
  BY <1>4, <1>5, <1>6

LEMMA RunAsTold ==
  ASSUME SuiteInv
  PROVE  TestedIsCurrent
<1> SUFFICES ASSUME stage = "run"
             PROVE  TestedIsCurrent
  BY DEF TestedIsCurrent
<1>0. suite \in Suites
  BY DEF SuiteInv, StepsInv
<1>1. \A f \in DOMAIN made : f[1] = "bin" /\ f[2] = "tests" => \E i \in Places(suite) : f = Executable(suite, i).binary
  BY DEF SuiteInv, DeletedGone
<1>2. ASSUME NEW r \in ran
      PROVE  /\ r.place \in Places(suite) /\ r.holds = Anew(r.place)
             /\ Told(r, CountVar) = {Cardinality(Places(suite))}
             /\ \E n \in 1..Cardinality(Places(suite)) :
                  Told(r, IndexVar) = {n} /\ \A s \in ran \ {r} : Told(s, IndexVar) # {n}
  <2>1. PICK i \in Places(suite) : r = Run(i)
    BY DEF SuiteInv, RunCurrent
  <2>2. r.place = i /\ r.holds = Anew(i)
    BY <2>1 DEF Run
  <2>3. Told(r, CountVar) = {Cardinality(Places(suite))} /\ Told(r, IndexVar) = {Index(suite, i)}
    BY <2>1, ToldAre
  <2>4. ASSUME NEW s \in ran \ {r}
        PROVE  Told(s, IndexVar) # {Index(suite, i)}
    <3>1. PICK j \in Places(suite) : s = Run(j)
      BY DEF SuiteInv, RunCurrent
    <3>2. j # i
      BY <2>1, <3>1
    <3>3. Index(suite, j) # Index(suite, i)
      BY <1>0, <3>2, IndexApart
    <3>4. Told(s, IndexVar) = {Index(suite, j)}
      BY <3>1, ToldAre
    <3> QED
      BY <3>3, <3>4
  <2>5. Index(suite, i) \in 1..Cardinality(Places(suite))
    BY <1>0, IndexApart
  <2> QED
    BY <2>1, <2>2, <2>3, <2>4, <2>5
<1> QED
  BY <1>1, <1>2 DEF TestedIsCurrent

LEMMA RunsEveryTest ==
  ASSUME SuiteInv
  PROVE  EveryTestRuns
<1> SUFFICES ASSUME stage = "run", Done = Places(suite), NEW u \in TestUnits(suite), IsTestFile(u.path)
             PROVE  \E r \in ran : Object(u) \in DOMAIN r.holds
  BY DEF EveryTestRuns
<1>1. suite \in Suites
  BY DEF SuiteInv, StepsInv
<1>2. PICK i \in Places(suite) : u \in TestsIn(i)
  BY <1>1, TestsOnce
<1>3. Object(u) \in LinkObjects(suite, i)
  BY <1>2 DEF TestsIn
<1>4. PICK r \in ran : r.place = i
  BY DEF Done
<1>5. PICK j \in Places(suite) : r = Run(j)
  BY DEF SuiteInv, RunCurrent
<1>6. r.holds = Anew(i)
  BY <1>4, <1>5 DEF Run
<1>7. DOMAIN r.holds = LinkObjects(suite, i)
  BY <1>6 DEF Anew
<1> QED
  BY <1>3, <1>7

LEMMA SuiteSteps ==
  ASSUME \A p \in Suites : p.single => StemsApart(p)
  PROVE  SuiteInv /\ [SuiteNext]_suiteVars => SuiteInv'
<1> SUFFICES ASSUME SuiteInv, [SuiteNext]_suiteVars
             PROVE  SuiteInv'
  OBVIOUS
<1>1. StepsInv /\ DiskInv /\ CurrentInv
  BY DEF SuiteInv, CurrentInv
<1>2. StepsInv' /\ DiskInv' /\ CurrentInv'
  BY <1>1, StepsNext, DiskNext, CurrentNext
<1> QED
  BY <1>2 DEF SuiteInv, CurrentInv

LEMMA SuiteStarts == SuiteInit => SuiteInv
<1> SUFFICES ASSUME SuiteInit
             PROVE  SuiteInv
  OBVIOUS
<1>1. stage = "idle"
  BY DEF SuiteInit
<1> QED
  BY <1>1, StepsInit, DiskInit DEF SuiteInv, ObjectsCurrent, EntriesCurrent, PackedCurrent, LinkedCurrent,
     DeletedGone, RunCurrent

\* What molto test runs is what the sources say at that time, after any number of edits and of
\* builds that broke, of every project whose shared suite has no executable with the path of
\* another (build_tests.c, build_link.c).
THEOREM TestedCurrent ==
  ASSUME \A p \in Suites : p.single => StemsApart(p)
  PROVE  SuiteSpec => []TestedIsCurrent
<1>1. SuiteInv => TestedIsCurrent
  BY RunAsTold
<1> QED
  BY SuiteStarts, SuiteSteps, <1>1, PTL DEF SuiteSpec

\* Then every test is run: that stems are apart is all it takes (test_output_path,
\* test_command_run).
THEOREM TestsAllRun ==
  ASSUME \A p \in Suites : p.single => StemsApart(p)
  PROVE  SuiteSpec => []EveryTestRuns
<1>1. SuiteInv => EveryTestRuns
  BY RunsEveryTest
<1> QED
  BY SuiteStarts, SuiteSteps, <1>1, PTL DEF SuiteSpec
==============================================================================
