------------------------------ MODULE Configure ------------------------------
(***************************************************************************)
(* The delegated configuration of packages (services/configure_service.c,  *)
(* called by configure_unit of build_service.c): upstream's own configure  *)
(* or CMake runs in the package's source, which lives in the user's cache  *)
(* and is shared by every build.  A stamp says what it was run with, a     *)
(* list what the configured build compiles, a lock keeps two builds apart. *)
(*                                                                         *)
(* A configured tree is the set of the answers that shaped it, and so is a *)
(* list: that of the tree it was read from.  How a list is read is module  *)
(* CompileLines.  Builds take the packages in one order.                   *)
(***************************************************************************)
EXTENDS Naturals, Sequences, FiniteSets

CONSTANTS
  Builds,     \* builds that share the cache: molto processes, one after another
  Order,      \* the packages, those a configuration sees built first
  Recipe,     \* [package -> system, mentions, sources, libs]
  NoTool,     \* a compiler or an assembler that is not there
  Nobody,     \* nobody holds the lock
  Fresh, Mixed, None, Torn,
  Worlds,     \* see WorldOK
  MaxFaults   \* bound: things that go wrong in any world; completed counts two further

Units == {Order[i] : i \in 1..Len(Order)}
Systems == {"autotools", "cmake"}
Sources == {"recipe", "make", "cmake"}
Faults == {"step", "save", "crash"}

RecipeOK(r) ==
  /\ r.system \in Systems /\ r.sources \in Sources
  /\ r.mentions \in SUBSET {"cxx", "nasm"}
  /\ r.libs \in SUBSET Units

\* A setting: the tools molto resolved, and what it resolved of the dependencies.
SettingOK(s) == DOMAIN s = {"cc", "cxx", "nasm", "x86", "seen"} /\ s.x86 \in BOOLEAN

WorldOK(w) ==
  /\ w.settings # {} /\ IsFiniteSet(w.settings)
  /\ \A s \in w.settings : SettingOK(s)
  /\ w.apart \in BOOLEAN        \* builds do not overlap
  /\ w.faults \in SUBSET Faults /\ w.most \in 0..MaxFaults

ASSUME RecipesAssumption == \A u \in Units : RecipeOK(Recipe[u])
ASSUME OrderAssumption ==
  /\ Order \in Seq(Units) /\ Order # <<>>
  /\ \A i, j \in 1..Len(Order) : Order[j] \in Recipe[Order[i]].libs => j < i
ASSUME SettingsAssumption == \A w \in Worlds : WorldOK(w)
ASSUME BoundAssumption == MaxFaults \in Nat

VARIABLES
  world, faults,
  tree,       \* what shaped the source as it is: Fresh, Mixed, or a set of answers
  stamp,      \* .molto-configured
  list,       \* .molto-sources
  archives,   \* .molto-libs: built with which compiler
  holder,     \* who has the lock of a source
  pc, at,     \* where a build is: the phase, and the package by its place in Order
  chosen,     \* its setting
  got,        \* the lists it has read
  completed,  \* history: configurations of a package that ended well
  cut         \* history: the settings of those cut off over its files since its last stamp

disk == <<tree, stamp, list, archives>>
vars == <<world, faults, tree, stamp, list, archives, holder, pc, at, chosen, got, completed, cut>>

Phases == {"out", "next", "check", "libraries", "run", "targets", "stamp", "release",
           "lines", "read", "generate", "keep", "done", "compile"}

------------------------------------------------------------------------------
(* What a configuration is asked, and what its stamp says it was asked       *)

\* resolve_nasm: not mentioned, found, missing where it is never run, or missing.
NasmFor(u, s) ==
  IF "nasm" \notin Recipe[u].mentions THEN NoTool
  ELSE IF s.nasm # NoTool THEN s.nasm
  ELSE "nasm"
NasmMissing(u, s) == "nasm" \in Recipe[u].mentions /\ s.nasm = NoTool /\ s.x86

\* expand_build, and the refusal of an environment that names CC: these refuse before
\* anything has run.
CxxMissing(u, s) == "cxx" \in Recipe[u].mentions /\ s.cxx = NoTool

Mentioned(u, s) ==
  (IF "cxx" \in Recipe[u].mentions THEN {<<"cxx", s.cxx>>} ELSE {}) \cup
  (IF "nasm" \in Recipe[u].mentions THEN {<<"nasm", NasmFor(u, s)>>} ELSE {})

Fingerprint(u, s) ==
  {<<"system", Recipe[u].system>>, <<"sources", Recipe[u].sources>>,
   <<"cc", s.cc>>, <<"seen", s.seen>>} \cup Mentioned(u, s)

\* configure_autotools: CC, the arguments, CPPFLAGS and LDFLAGS.
AskAutotools(u, s) ==
  {<<"system", "autotools">>, <<"cc", s.cc>>, <<"seen", s.seen>>} \cup Mentioned(u, s)

\* configure_cmake: the compilers, the arguments, the paths of what it may find.
AskCmake(u, s) ==
  {<<"system", "cmake">>, <<"cc", s.cc>>, <<"seen", s.seen>>} \cup Mentioned(u, s)
    \cup (IF s.cxx # NoTool THEN {<<"cmake_cxx", s.cxx>>} ELSE {})

Asked(u, s) == IF Recipe[u].system = "cmake" THEN AskCmake(u, s) ELSE AskAutotools(u, s)

\* No stamp, a torn one and nobody are no fingerprint and no build.
ASSUME NoneAssumption ==
  /\ Nobody \notin Builds
  /\ \A w \in Worlds : \A u \in Units, s \in w.settings : Fingerprint(u, s) \notin {None, Torn}

------------------------------------------------------------------------------
Init ==
  /\ world \in Worlds
  /\ faults = 0
  /\ tree = [u \in Units |-> Fresh]
  /\ stamp = [u \in Units |-> None]
  /\ list = [u \in Units |-> None]
  /\ archives = [u \in Units |-> NoTool]
  /\ holder = [u \in Units |-> Nobody]
  /\ pc = [b \in Builds |-> "out"]
  /\ at = [b \in Builds |-> 1]
  /\ chosen = [b \in Builds |-> CHOOSE s \in world.settings : TRUE]
  /\ got = [b \in Builds |-> [u \in Units |-> None]]
  /\ completed = [u \in Units |-> 0]
  /\ cut = [u \in Units |-> {}]

Unit(b) == Order[at[b]]
Wanted(b) == Fingerprint(Unit(b), chosen[b])
Answers(b) == Asked(Unit(b), chosen[b])

Goto(b, phase) == pc' = [pc EXCEPT ![b] = phase]
Blame(what) == what \in world.faults /\ faults < world.most /\ faults' = faults + 1

\* A build starts with no package configured: prepared_unit.configured is false.
Begin(b) ==
  /\ pc[b] = "out"
  /\ world.apart => \A c \in Builds : pc[c] = "out"
  /\ \E s \in world.settings : chosen' = [chosen EXCEPT ![b] = s]
  /\ at' = [at EXCEPT ![b] = 1]
  /\ got' = [got EXCEPT ![b] = [u \in Units |-> None]]
  /\ Goto(b, "next")
  /\ UNCHANGED <<world, faults, disk, holder, completed, cut>>

\* The build ends with an error: a tool is missing, or the lock is another's, which is
\* tried once.
Refused(b) ==
  /\ \/ pc[b] = "next" /\ (NasmMissing(Unit(b), chosen[b]) \/ holder[Unit(b)] # Nobody)
     \/ pc[b] = "lines" /\ holder[Unit(b)] # Nobody
  /\ Goto(b, "out")
  /\ UNCHANGED <<world, faults, disk, holder, at, chosen, got, completed, cut>>

\* Slip: the lock is shared.
LockShared(b) == holder' = [holder EXCEPT ![Unit(b)] = b]

\* fs_lock_take
Lock(b) ==
  /\ holder[Unit(b)] = Nobody
  /\ holder' = [holder EXCEPT ![Unit(b)] = b]

Take(b) ==
  /\ pc[b] = "next" /\ ~NasmMissing(Unit(b), chosen[b])
  /\ Lock(b)
  /\ Goto(b, "check")
  /\ UNCHANGED <<world, faults, disk, at, chosen, got, completed, cut>>

Configured(b) ==
  /\ pc[b] = "check"
  /\ stamp[Unit(b)] = Wanted(b)
  /\ Goto(b, "release")
  /\ UNCHANGED <<world, faults, disk, holder, at, chosen, got, completed, cut>>

\* Slip: the list of the configuration that is replaced stays.
ReconfigureKeep(b) ==
  /\ pc[b] = "check"
  /\ stamp[Unit(b)] # Wanted(b)
  /\ Goto(b, IF CxxMissing(Unit(b), chosen[b]) THEN "out" ELSE "libraries")
  /\ holder' = [holder EXCEPT ![Unit(b)] = IF CxxMissing(Unit(b), chosen[b]) THEN Nobody ELSE b]
  /\ UNCHANGED <<world, faults, disk, at, chosen, got, completed, cut>>

\* The list goes first; the stamp stays until the new one is written over it.
Reconfigure(b) ==
  /\ pc[b] = "check"
  /\ stamp[Unit(b)] # Wanted(b)
  /\ list' = [list EXCEPT ![Unit(b)] = None]
  /\ IF CxxMissing(Unit(b), chosen[b])
       THEN Goto(b, "out") /\ holder' = [holder EXCEPT ![Unit(b)] = Nobody]
       ELSE Goto(b, "libraries") /\ UNCHANGED holder
  /\ UNCHANGED <<world, faults, tree, stamp, archives, at, chosen, got, completed, cut>>

\* build_libraries: what the configuration is to see built, compiled and archived.
BuildLibraries(b) ==
  /\ pc[b] = "libraries"
  /\ archives' = IF Recipe[Unit(b)].libs = {} THEN archives
                 ELSE [archives EXCEPT ![Unit(b)] = chosen[b].cc]
  /\ Goto(b, "run")
  /\ UNCHANGED <<world, faults, tree, stamp, list, holder, at, chosen, got, completed, cut>>

\* configure or cmake writes files until its last target is made.
RunConfigure(b) ==
  /\ pc[b] = "run"
  /\ tree' = [tree EXCEPT ![Unit(b)] = Mixed]
  /\ Goto(b, "targets")
  /\ UNCHANGED <<world, faults, stamp, list, archives, holder, at, chosen, got, completed, cut>>

MakeTargets(b) ==
  /\ pc[b] = "targets"
  /\ tree' = [tree EXCEPT ![Unit(b)] = Answers(b)]
  /\ completed' = [completed EXCEPT ![Unit(b)] = IF @ > MaxFaults + 1 THEN @ ELSE @ + 1]
  /\ Goto(b, "stamp")
  /\ UNCHANGED <<world, faults, stamp, list, archives, holder, at, chosen, got, cut>>

WriteStamp(b) ==
  /\ pc[b] = "stamp"
  /\ stamp' = [stamp EXCEPT ![Unit(b)] = Wanted(b)]
  /\ cut' = [cut EXCEPT ![Unit(b)] = {}]
  /\ Goto(b, "release")
  /\ UNCHANGED <<world, faults, tree, list, archives, holder, at, chosen, got, completed>>

\* Only a package whose build says what it compiles is asked.
Release(b) ==
  /\ pc[b] = "release"
  /\ holder' = [holder EXCEPT ![Unit(b)] = Nobody]
  /\ Goto(b, IF Recipe[Unit(b)].sources = "recipe" THEN "done" ELSE "lines")
  /\ UNCHANGED <<world, faults, disk, at, chosen, got, completed, cut>>

------------------------------------------------------------------------------
(* configure_compile_lines                                                   *)

TakeForLines(b) ==
  /\ pc[b] = "lines"
  /\ Lock(b)
  /\ Goto(b, "read")
  /\ UNCHANGED <<world, faults, disk, at, chosen, got, completed, cut>>

Learn(b, lines, phase) ==
  /\ got' = [got EXCEPT ![b][Unit(b)] = lines]
  /\ Goto(b, phase)
  /\ UNCHANGED <<world, faults, disk, at, chosen, completed, cut>>

ReadList(b) ==
  /\ pc[b] = "read" /\ list[Unit(b)] # None
  /\ Learn(b, list[Unit(b)], "done")
  /\ holder' = [holder EXCEPT ![Unit(b)] = Nobody]

\* `make -n`: what the Makefile would run.
AskMake(b) ==
  /\ pc[b] = "read" /\ list[Unit(b)] = None
  /\ Recipe[Unit(b)].sources = "make"
  /\ Learn(b, tree[Unit(b)], "generate")
  /\ UNCHANGED holder

\* compile_commands.json, which the configuration wrote.
AskDatabase(b) ==
  /\ pc[b] = "read" /\ list[Unit(b)] = None
  /\ Recipe[Unit(b)].sources = "cmake"
  /\ Learn(b, tree[Unit(b)], "keep")
  /\ UNCHANGED holder

\* make with every compiler silenced writes the sources that are generated.
MakeGenerated(b) ==
  /\ pc[b] = "generate"
  /\ Goto(b, "keep")
  /\ UNCHANGED <<world, faults, disk, holder, at, chosen, got, completed, cut>>

\* compile_lines_write: a file beside it, renamed.
KeepList(b) ==
  /\ pc[b] = "keep"
  /\ list' = [list EXCEPT ![Unit(b)] = got[b][Unit(b)]]
  /\ holder' = [holder EXCEPT ![Unit(b)] = Nobody]
  /\ Goto(b, "done")
  /\ UNCHANGED <<world, faults, tree, stamp, archives, at, chosen, got, completed, cut>>

\* configure_unit of the next package; after the last one the build compiles.
NextUnit(b) ==
  /\ pc[b] = "done"
  /\ IF at[b] = Len(Order)
       THEN Goto(b, "compile") /\ UNCHANGED at
       ELSE Goto(b, "next") /\ at' = [at EXCEPT ![b] = @ + 1]
  /\ UNCHANGED <<world, faults, disk, holder, chosen, got, completed, cut>>

Compile(b) ==
  /\ pc[b] = "compile"
  /\ Goto(b, "out")
  /\ UNCHANGED <<world, faults, disk, holder, at, chosen, got, completed, cut>>

------------------------------------------------------------------------------
(* What goes wrong                                                           *)

\* What was writing the files, or had written them, does not come to its stamp.
CutOff(b) ==
  cut' = IF pc[b] \in {"targets", "stamp"} THEN [cut EXCEPT ![Unit(b)] = @ \cup {chosen[b]}] ELSE cut

\* A program molto runs for the package ends with an error: the build does, and the lock
\* is given back.
StepFails(b) ==
  /\ pc[b] \in {"libraries", "targets", "read", "generate"}
  /\ pc[b] = "read" => list[Unit(b)] = None
  /\ Blame("step")
  /\ holder' = [holder EXCEPT ![Unit(b)] = Nobody]
  /\ CutOff(b)
  /\ Goto(b, "out")
  /\ UNCHANGED <<world, disk, at, chosen, got, completed>>

\* fs_write_file starts by emptying the file.
SaveFails(b) ==
  /\ pc[b] \in {"stamp", "keep"}
  /\ Blame("save")
  /\ stamp' = IF pc[b] = "stamp" THEN [stamp EXCEPT ![Unit(b)] = Torn] ELSE stamp
  /\ holder' = [holder EXCEPT ![Unit(b)] = Nobody]
  /\ CutOff(b)
  /\ Goto(b, "out")
  /\ UNCHANGED <<world, tree, list, archives, at, chosen, got, completed>>

\* Slip: the lock is a file that is there, and a dead process leaves it.
KernelKeeps(b) == UNCHANGED holder

\* The kernel drops the locks of a dead process.
KernelReleases(b) ==
  holder' = [u \in Units |-> IF holder[u] = b THEN Nobody ELSE holder[u]]

Crash(b) ==
  /\ pc[b] # "out"
  /\ Blame("crash")
  /\ \E s \in {stamp[Unit(b)]} \cup (IF pc[b] = "stamp" THEN {Torn} ELSE {}) :
       stamp' = [stamp EXCEPT ![Unit(b)] = s]
  /\ KernelReleases(b)
  /\ CutOff(b)
  /\ Goto(b, "out")
  /\ UNCHANGED <<world, tree, list, archives, at, chosen, got, completed>>

Step(b) ==
  \/ Refused(b) \/ Take(b) \/ Configured(b) \/ Reconfigure(b) \/ BuildLibraries(b)
  \/ RunConfigure(b) \/ MakeTargets(b) \/ WriteStamp(b) \/ Release(b) \/ TakeForLines(b)
  \/ ReadList(b) \/ AskMake(b) \/ AskDatabase(b) \/ MakeGenerated(b) \/ KeepList(b)
  \/ NextUnit(b) \/ Compile(b)

Fault(b) == StepFails(b) \/ SaveFails(b) \/ Crash(b)

Next == \E b \in Builds : Begin(b) \/ Step(b) \/ Fault(b)

\* molto goes on when it can, and somebody builds again.
Fairness ==
  /\ \A b \in Builds : WF_vars(Step(b))
  /\ WF_vars(\E b \in Builds : Begin(b))

Spec == Init /\ [][Next]_vars /\ Fairness

------------------------------------------------------------------------------
(* Properties                                                                *)

Trees == {Fresh, Mixed} \cup {Asked(u, s) : u \in Units, s \in world.settings}

TypeOK ==
  /\ world \in Worlds /\ faults \in 0..MaxFaults
  /\ tree \in [Units -> Trees]
  /\ list \in [Units -> Trees \cup {None}]
  /\ stamp \in [Units -> {None, Torn} \cup {Fingerprint(u, s) : u \in Units, s \in world.settings}]
  /\ holder \in [Units -> Builds \cup {Nobody}]
  /\ completed \in [Units -> 0..MaxFaults + 2]
  /\ cut \in [Units -> SUBSET world.settings]
  /\ pc \in [Builds -> Phases]
  /\ at \in [Builds -> 1..Len(Order)]
  /\ chosen \in [Builds -> world.settings]
  /\ got \in [Builds -> [Units -> Trees \cup {None}]]

\* What b compiles of u was configured with its own setting, and is what that configuration
\* said it compiles.
IsAsked(b, u) ==
  /\ tree[u] = Asked(u, chosen[b])
  /\ Recipe[u].sources # "recipe" => got[b][u] = Asked(u, chosen[b])

\* A build compiles every package as its own setting configured it, whoever configured it and
\* whatever failed or crashed before (configure_dependency and configure_compile_lines take the
\* lock separately), with one exception, which the code has: a configuration with another
\* setting was cut off over those files.  The stamp that setting was to replace is then still
\* there (configure_service.c:676-684), so that a build that wants what it says runs nothing.
BuiltAsConfigured ==
  \A b \in Builds : pc[b] = "compile" =>
    \A u \in Units : cut[u] \subseteq {chosen[b]} => IsAsked(b, u)

\* configure_service.h:22-24, "a stamp in the source records a digest of everything that shaped
\* it", as the build that relies on it has it: no exception.
BuiltWithItsStamp ==
  \A b \in Builds : pc[b] = "compile" => \A u \in Units : IsAsked(b, u)

\* "once per compiler": builds that want the same configuration run it once between them,
\* but for those that went wrong, however they race (the stamp is read under the lock).
ConfiguredOnce ==
  Cardinality(world.settings) = 1 => \A u \in Units : completed[u] <= 1 + faults

\* A stamp that nobody is replacing describes the files beside it (configure_service.h).
StampDescribesTree ==
  \A u \in Units, s \in world.settings :
    stamp[u] = Fingerprint(u, s) /\ holder[u] = Nobody => tree[u] = Asked(u, s)

\* Refusals, failures and crashes leave nothing behind that keeps a build out: one that is
\* alone in the end gets through.  (Two that overlap may refuse each other again and again:
\* the lock is tried once, and given back between a configuration and its list.)
LastOneBuilds ==
  \A b \in Builds :
    <>[](\A c \in Builds \ {b} : pc[c] = "out") => []<>(pc[b] = "compile")

\* A dependency that two builds want the same way is configured for both of them once.
ConfigureIsSound == TypeOK /\ ConfiguredOnce
=============================================================================
