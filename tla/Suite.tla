-------------------------------- MODULE Suite --------------------------------
(***************************************************************************)
(* molto test: which executables a suite is, how they are linked again and *)
(* run (services/build_tests.c, services/build_link.c,                     *)
(* commands/test_command.c), built again and again over one directory      *)
(* while somebody edits the project between the builds.  Which objects are *)
(* compiled is Build's matter: here a compiler that is done leaves every   *)
(* object with what its source says.                                       *)
(*                                                                         *)
(* A path is <<the directory at the top, the rest of it without its        *)
(* extension, the extension>>.  A suite is what the project says:          *)
(*   single         its [test].mode                                        *)
(*   own            the paths of its sources                               *)
(*   runtime, dev   the paths of each package's sources                    *)
(*   entry          of each package its [interface].entry, or <<>>         *)
(*   tests          its test sources in order, those of [test].sources too *)
(*   isolated       what [[test.isolated]] says: [file, replaces]          *)
(*   env            the variables of [env]                                 *)
(***************************************************************************)
EXTENDS Naturals, FiniteSets, Functions

CONSTANTS
  MainPath,    \* src/main.c
  SuiteStem,   \* the name of a shared suite's executable: <project>_tests
  Suites,      \* the projects there may be
  MaxChanges,  \* bound: edits between the builds
  MaxMishaps   \* bound: compilers, archivers and linkers that fail

IsTestFile(path) == path[1] = "tests"

\* What reading a manifest and looking for sources leave: a package is of one table, and what is
\* isolated is below tests/ and named once (read_isolated_tests); and, which nothing checks, that
\* [test].sources names no source that is found without it.
SuiteOK(p) ==
  /\ p.single \in BOOLEAN
  /\ DOMAIN p.tests \subseteq Nat \ {0} /\ IsFiniteSet(DOMAIN p.tests)
  /\ \A i, j \in DOMAIN p.tests : p.tests[i] = p.tests[j] => i = j
  /\ \A i \in DOMAIN p.tests : p.tests[i] \notin p.own
  /\ \A path \in p.own : ~IsTestFile(path)
  /\ "" \notin DOMAIN p.runtime \cup DOMAIN p.dev
  /\ DOMAIN p.runtime \cap DOMAIN p.dev = {}
  /\ \A i \in DOMAIN p.isolated : IsTestFile(p.isolated[i].file)
  /\ \A i, j \in DOMAIN p.isolated : p.isolated[i].file = p.isolated[j].file => i = j
  /\ \A i \in DOMAIN p.isolated : \A k \in DOMAIN p.isolated[i].replaces :
       p.isolated[i].replaces[k].dep # "" \/ p.isolated[i].replaces[k].path # <<>>

ASSUME SuitesAssumption == \A p \in Suites : SuiteOK(p)
ASSUME MishapsAssumption == MaxChanges \in Nat /\ MaxMishaps \in Nat

Unit(package, path, kind) == [package |-> package, path |-> path, kind |-> kind]
PackageUnits(packages, kind) ==
  UNION {{Unit(name, path, kind) : path \in packages[name]} : name \in DOMAIN packages}
TestUnit(path) == Unit("", path, "test")

OwnUnits(p) == {Unit("", path, "project") : path \in p.own}
RuntimeUnits(p) == PackageUnits(p.runtime, "runtime")
DevUnits(p) == PackageUnits(p.dev, "dev")
TestUnits(p) == {TestUnit(p.tests[i]) : i \in DOMAIN p.tests}

\* The passes of the plan.
PlannedUnits(p) == OwnUnits(p) \cup RuntimeUnits(p) \cup DevUnits(p) \cup TestUnits(p)

Object(unit) == <<"obj", unit.package, unit.path>>
ObjectsOf(units) == {Object(u) : u \in units}
EntryArchive(package) == <<"entry", package>>

\* An extension takes no part in where a test is linked to (test_output_path).
Binary(path) == <<"bin", path[1], path[2]>>
IsolatedArchive(path) == <<"archive", path[1], path[2]>>
SuiteBinary == <<"bin", "tests", SuiteStem>>

------------------------------------------------------------------------------
(* Isolated tests                                                            *)

\* A source of the project, one of a dependency, or a dependency whole (replacement_names).
ReplacementNames(unit, replaced) ==
  CASE replaced.dep # "" /\ replaced.path # <<>> -> unit.package = replaced.dep /\ unit.path = replaced.path
    [] replaced.dep = "" -> unit.package = "" /\ unit.path = replaced.path
    [] OTHER -> unit.package = replaced.dep

Named(p, replaced) == {u \in PlannedUnits(p) : u.kind # "test" /\ ReplacementNames(u, replaced)}
ReplacesOK(p, entry) ==
  \A i \in DOMAIN entry.replaces :
    LET named == Named(p, entry.replaces[i]) IN named # {} /\ named \cap DevUnits(p) = {}
ReplacedObjectsOf(p, entry) ==
  ObjectsOf(UNION {Named(p, entry.replaces[i]) : i \in DOMAIN entry.replaces})

IsolatedAs(p, path) == {i \in DOMAIN p.isolated : p.isolated[i].file = path}
IsIsolated(p, path) == IsolatedAs(p, path) # {}
EntryFor(p, path) == p.isolated[CHOOSE i \in IsolatedAs(p, path) : TRUE]

\* Checked when every source is planned and before anything compiles (check_isolated_tests).
CheckIsolatedTests(p) ==
  \A i \in DOMAIN p.isolated :
    /\ \E k \in DOMAIN p.tests : p.tests[k] = p.isolated[i].file
    /\ ReplacesOK(p, p.isolated[i])

\* Of two test targets with one name no document is made, and every test is a target of its own
\* where it is linked alone (test_stem, names_are_unique).
TargetsApart(p) ==
  p.single \/ \A i, j \in DOMAIN p.tests : Binary(p.tests[i]) = Binary(p.tests[j]) => i = j

------------------------------------------------------------------------------
(* What is linked into what                                                  *)

\* A test brings its own entry point (library_objects_of).
LibraryObjectsOf(p) == (OwnUnits(p) \cup RuntimeUnits(p)) \ {Unit("", MainPath, "project")}

\* An optional main of a package is offered in an archive (build_entry_objects).
IsEntry(p, unit) == unit.package # "" /\ p.entry[unit.package] = unit.path
EntryUnits(p) == {u \in LibraryObjectsOf(p) \cup DevUnits(p) : IsEntry(p, u)}
EntryPackages(p) == {u.package : u \in EntryUnits(p)}
EntryObject(p, package) == <<"obj", package, p.entry[package]>>
LinkedAs(p, unit) == IF IsEntry(p, unit) THEN EntryArchive(unit.package) ELSE Object(unit)
LibLinked(p) == {LinkedAs(p, u) : u \in LibraryObjectsOf(p)}
DevLinked(p) == {LinkedAs(p, u) : u \in DevUnits(p)}
IsEntryArchive(file) == file[1] = "entry"

\* What of [test].sources goes into every executable of a single suite.
Shared(p) == {i \in DOMAIN p.tests : ~IsIsolated(p, p.tests[i])}
ObjectsOfTests(p, places) == {Object(TestUnit(p.tests[i])) : i \in places}
Framework(p) == ObjectsOfTests(p, {i \in Shared(p) : ~IsTestFile(p.tests[i])})

\* Slip: what is replaced is put into the archive all the same.
ArchivedWhole(p, path, loose) ==
  [binary |-> Binary(path), archived |-> {o \in LibLinked(p) : ~IsEntryArchive(o)},
   loose |-> {Object(TestUnit(path))} \cup loose \cup DevLinked(p) \cup {o \in LibLinked(p) : IsEntryArchive(o)}]

\* The test's own object, the framework and what is for development as they are, the rest
\* without what it replaces as an archive (link_isolated_test).
LinkIsolatedTest(p, path, loose) ==
  [binary |-> Binary(path),
   archived |-> {o \in LibLinked(p) : ~IsEntryArchive(o) /\ o \notin ReplacedObjectsOf(p, EntryFor(p, path))},
   loose |-> {Object(TestUnit(path))} \cup loose \cup DevLinked(p) \cup {o \in LibLinked(p) : IsEntryArchive(o)}]

LinkAlone(p, path) ==
  [binary |-> Binary(path), archived |-> {}, loose |-> {Object(TestUnit(path))} \cup LibLinked(p) \cup DevLinked(p)]
LinkShared(p) ==
  [binary |-> SuiteBinary, archived |-> {}, loose |-> ObjectsOfTests(p, Shared(p)) \cup LibLinked(p) \cup DevLinked(p)]

\* One executable for each test source (link_tests_per_file), or one for all that are not
\* isolated, unless none of them is a test, and then those that are (link_tests_single).
SuitePlace == 0
Places(p) ==
  IF ~p.single THEN DOMAIN p.tests
  ELSE (IF \E i \in Shared(p) : IsTestFile(p.tests[i]) THEN {SuitePlace} ELSE {})
         \cup (DOMAIN p.tests \ Shared(p))
Executable(p, i) ==
  CASE i = SuitePlace -> LinkShared(p)
    [] i # SuitePlace /\ IsIsolated(p, p.tests[i]) -> LinkIsolatedTest(p, p.tests[i], IF p.single THEN Framework(p) ELSE {})
    [] OTHER -> LinkAlone(p, p.tests[i])
Archive(p, i) == IsolatedArchive(p.tests[i])
LinkObjects(p, i) ==
  Executable(p, i).loose \cup (IF Executable(p, i).archived = {} THEN {} ELSE {Archive(p, i)})

------------------------------------------------------------------------------
(* Running them                                                              *)

IndexVar == "MOLTO_TEST_INDEX"
CountVar == "MOLTO_TEST_COUNT"

\* In place of what [env] says, not beside it (place_in_run).
PlaceInRun(vars, index, count) ==
  {v \in vars : v[1] \notin {IndexVar, CountVar}} \cup {<<IndexVar, index>>, <<CountVar, count>>}
\* The executables stand in the order they were linked in.
Index(p, i) == Cardinality({j \in Places(p) : j <= i})

------------------------------------------------------------------------------
VARIABLES
  suite,      \* the project as it is now
  written,    \* [object -> what its source says]
  changes, mishaps,
  made,       \* [file -> what is in it], of the files there are
  later,      \* {<<product, file>>}: the file was written after the product
  noted,      \* [product -> what it was made of], as the workspace database has it
  stage,      \* how far molto test is, "idle" when none runs
  compiled,   \* any_compiled
  offered,    \* the packages whose entry is in an archive
  packed,     \* the places whose archive is made
  linked,     \* the places that are linked: test_binaries_out
  ran,        \* what was run: [place, holds, vars]
  verdict     \* the result

editVars == <<suite, written, changes>>
diskVars == <<made, later, noted>>
runVars == <<compiled, offered, packed, linked, ran>>
suiteVars == <<suite, written, changes, mishaps, made, later, noted, stage, compiled, offered, packed, linked, ran, verdict>>

Objects == UNION {ObjectsOf(PlannedUnits(p)) : p \in Suites}
Texts == 1..2
Stages == {"idle", "compile", "offer", "link", "run"}
IsProduct(file) == file[1] # "obj"
Nothing == [f \in {} |-> {}]

------------------------------------------------------------------------------
(* Files and their records                                                   *)

\* Some files go and some are written, which are then newer than every other.
Rewrite(gone, new) ==
  LET kept == DOMAIN made \ (gone \cup DOMAIN new)
  IN  /\ made' = [f \in kept \cup DOMAIN new |-> IF f \in DOMAIN new THEN new[f] ELSE made[f]]
      /\ later' = {pair \in later : pair[1] \in kept /\ pair[2] \in kept}
                    \cup ({f \in kept : IsProduct(f)} \X DOMAIN new)
Note(product, objects) ==
  noted' = [f \in DOMAIN noted \cup {product} |-> IF f = product THEN objects ELSE noted[f]]

Joined(objects) == [o \in objects |-> made[o]]

\* Newer than what was made of it, or one of the two is not there (link_needed).
OutOfDate(objects, product) ==
  \E o \in objects : ~({o, product} \subseteq DOMAIN made) \/ <<product, o>> \in later
\* Slip: only the command is looked at.
OtherCommand(objects, product) ==
  ~(product \in DOMAIN noted \cap DOMAIN made /\ noted[product] = objects)
Outdated(objects, product) == OtherCommand(objects, product) \/ OutOfDate(objects, product)

\* What is not to be made again is left as it is (build_link_project, build_archive_project).
Make(objects, product, force) ==
  IF force \/ Outdated(objects, product)
  THEN Rewrite({}, [f \in {product} |-> Joined(objects)]) /\ Note(product, objects)
  ELSE UNCHANGED diskVars

Mishap == mishaps < MaxMishaps /\ mishaps' = mishaps + 1
GiveUp == stage' = "idle" /\ verdict' = "build_failure"

\* An archive is removed first; of an executable that fails the linker may leave the older one.
MakeFails(objects, product, force, gone) ==
  /\ force \/ Outdated(objects, product)
  /\ Mishap /\ GiveUp
  /\ Rewrite(gone, Nothing)
  /\ UNCHANGED <<editVars, noted, runVars>>

------------------------------------------------------------------------------
(* Edits, between the builds                                                 *)

SuiteInit ==
  /\ suite \in Suites
  /\ written = [o \in Objects |-> 1]
  /\ changes = 0 /\ mishaps = 0
  /\ made = Nothing /\ later = {} /\ noted = Nothing
  /\ stage = "idle" /\ verdict = "none"
  /\ compiled = FALSE /\ offered = {} /\ packed = {} /\ linked = {} /\ ran = {}

Change ==
  /\ stage = "idle" /\ changes < MaxChanges /\ changes' = changes + 1
  /\ UNCHANGED <<mishaps, diskVars, stage, runVars, verdict>>

EditSource(o) ==
  /\ Change
  /\ \E text \in Texts \ {written[o]} : written' = [written EXCEPT ![o] = text]
  /\ UNCHANGED suite

\* Its manifest, or which sources and tests there are.
EditSuite(p) ==
  /\ Change
  /\ suite' = p
  /\ UNCHANGED written

------------------------------------------------------------------------------
(* One molto test                                                            *)

Accepted(p) == TargetsApart(p) /\ CheckIsolatedTests(p)

PlanRefused ==
  /\ stage = "idle" /\ ~Accepted(suite)
  /\ verdict' = "invalid_manifest"
  /\ UNCHANGED <<editVars, mishaps, diskVars, stage, runVars>>

PlanSuite ==
  /\ stage = "idle" /\ Accepted(suite)
  /\ stage' = "compile" /\ verdict' = "none"
  /\ compiled' = FALSE /\ offered' = {} /\ packed' = {} /\ linked' = {} /\ ran' = {}
  /\ UNCHANGED <<editVars, mishaps, diskVars>>

StaleObjects ==
  {o \in ObjectsOf(PlannedUnits(suite)) : o \in DOMAIN made => made[o] # written[o]}
NewObjects(objects) == [o \in objects |-> written[o]]

\* An object of a package may come from the shared cache instead, and any_compiled says nothing
\* of it (take_from_object_cache).
CompileSuite ==
  /\ stage = "compile"
  /\ stage' = "offer"
  /\ compiled' \in {StaleObjects # {}, \E o \in StaleObjects : o[2] = ""}
  /\ Rewrite({}, NewObjects(StaleObjects))
  /\ UNCHANGED <<editVars, mishaps, noted, offered, packed, linked, ran, verdict>>

\* Some compilers are done before one fails, and one that fails may leave no object.
CompileBreaks ==
  /\ stage = "compile"
  /\ Mishap /\ GiveUp
  /\ \E done \in SUBSET StaleObjects : \E gone \in SUBSET (StaleObjects \ done) :
       done # StaleObjects /\ Rewrite(gone, NewObjects(done))
  /\ UNCHANGED <<editVars, noted, runVars>>

OfferEntry(package) ==
  /\ stage = "offer" /\ package \in EntryPackages(suite) /\ offered = {}
  /\ Make({EntryObject(suite, package)}, EntryArchive(package), FALSE)
  /\ offered' = {package}
  /\ UNCHANGED <<editVars, mishaps, stage, compiled, packed, linked, ran, verdict>>

OfferFails(package) ==
  /\ stage = "offer" /\ package \in EntryPackages(suite) /\ offered = {}
  /\ MakeFails({EntryObject(suite, package)}, EntryArchive(package), FALSE, {EntryArchive(package)})

\* Two packages with an entry have one too many.
TwoEntries ==
  /\ stage = "offer" /\ offered # {} /\ EntryPackages(suite) # offered
  /\ GiveUp
  /\ UNCHANGED <<editVars, mishaps, diskVars, runVars>>

EntriesOffered ==
  /\ stage = "offer" /\ EntryPackages(suite) = offered
  /\ stage' = "link"
  /\ UNCHANGED <<editVars, mishaps, diskVars, runVars, verdict>>

\* They are linked one after the other, and the first that fails stops the rest.
IsNext(i, done) == i \in Places(suite) \ done /\ \A j \in Places(suite) \ done : i <= j
ToPack(i) == stage = "link" /\ IsNext(i, linked) /\ Executable(suite, i).archived # {} /\ i \notin packed
ToLink(i) == stage = "link" /\ IsNext(i, linked) /\ (Executable(suite, i).archived = {} \/ i \in packed)

PackIsolated(i) ==
  /\ ToPack(i)
  /\ Make(Executable(suite, i).archived, Archive(suite, i), compiled)
  /\ packed' = packed \cup {i}
  /\ UNCHANGED <<editVars, mishaps, stage, compiled, offered, linked, ran, verdict>>

PackBreaks(i) ==
  /\ ToPack(i)
  /\ MakeFails(Executable(suite, i).archived, Archive(suite, i), compiled, {Archive(suite, i)})

LinkTest(i) ==
  /\ ToLink(i)
  /\ Make(LinkObjects(suite, i), Executable(suite, i).binary, compiled)
  /\ linked' = linked \cup {i}
  /\ UNCHANGED <<editVars, mishaps, stage, compiled, offered, packed, ran, verdict>>

LinkBreaks(i) ==
  /\ ToLink(i)
  /\ \E gone \in {{}, {Executable(suite, i).binary}} :
       MakeFails(LinkObjects(suite, i), Executable(suite, i).binary, compiled, gone)

\* What is recorded under tests/ and is none of the executables goes (wsdb_prune,
\* prune_what_a_deleted_test_left): those of tests that are gone, and every archive.
PruneDeleted ==
  LET live == {Executable(suite, i).binary : i \in linked} \cup ObjectsOf(TestUnits(suite))
      below == {f \in DOMAIN made \cup DOMAIN noted :
                  IF IsProduct(f) THEN f[1] \in {"bin", "archive"} /\ f[2] = "tests"
                  ELSE f[2] = "" /\ IsTestFile(f[3])}
  IN  /\ stage = "link" /\ linked = Places(suite)
      /\ stage' = "run" /\ verdict' = "ok"
      /\ Rewrite(below \ live, Nothing)
      /\ noted' = [f \in DOMAIN noted \ (below \ live) |-> noted[f]]
      /\ UNCHANGED <<editVars, mishaps, runVars>>

\* Every executable in turn, and a failure does not stop the rest (test_command_run).
Done == {r.place : r \in ran}
RunTest(i) ==
  /\ stage = "run" /\ IsNext(i, Done)
  /\ ran' = ran \cup {[place |-> i, holds |-> made[Executable(suite, i).binary],
                       vars |-> PlaceInRun(suite.env, Index(suite, i), Cardinality(Places(suite)))]}
  /\ UNCHANGED <<editVars, mishaps, diskVars, stage, compiled, offered, packed, linked, verdict>>

SuiteEnds ==
  /\ stage = "run" /\ Done = Places(suite)
  /\ stage' = "idle"
  /\ UNCHANGED <<editVars, mishaps, diskVars, runVars, verdict>>

SuiteNext ==
  \/ \E o \in Objects : EditSource(o)
  \/ \E p \in Suites : EditSuite(p)
  \/ PlanRefused \/ PlanSuite
  \/ CompileSuite \/ CompileBreaks
  \/ \E package \in EntryPackages(suite) : OfferEntry(package) \/ OfferFails(package)
  \/ TwoEntries \/ EntriesOffered
  \/ \E i \in Places(suite) : PackIsolated(i) \/ PackBreaks(i) \/ LinkTest(i) \/ LinkBreaks(i)
  \/ PruneDeleted
  \/ \E i \in Places(suite) : RunTest(i)
  \/ SuiteEnds

SuiteSpec == SuiteInit /\ [][SuiteNext]_suiteVars

------------------------------------------------------------------------------
(* What a suite is to be                                                     *)

\* Where two tests of one project would be linked to one path: the last one is what is run, twice.
StemsApart(p) ==
  \A i, j \in Places(p) : Executable(p, i).binary = Executable(p, j).binary => i = j

TestsIn(i) == {u \in TestUnits(suite) : Object(u) \in LinkObjects(suite, i)}
IsolatedIn(i) == {k \in DOMAIN suite.isolated : TestUnit(suite.isolated[k].file) \in TestsIn(i)}
Code == (OwnUnits(suite) \cup RuntimeUnits(suite)) \ {Unit("", MainPath, "project")}

\* What a manifest asks to be left out of a test; an entry is offered all the same.
Asks(replaced, unit) == unit.package = replaced.dep /\ (replaced.path = <<>> \/ unit.path = replaced.path)
LeftOut(entry, unit) == \E i \in DOMAIN entry.replaces : Asks(entry.replaces[i], unit)
Remaining(i) == {u \in Code : IsEntry(suite, u) \/ \A k \in IsolatedIn(i) : ~LeftOut(suite.isolated[k], u)}

\* A suite is what its manifest says: every test is in one executable, an isolated one, or any
\* where each is to have its own, with no other test; the sources of [test] are in each of a
\* single suite; what is for development is linked as it is; the rest of the project and its
\* packages is linked too, its main aside, into an archive where a test is isolated, and what
\* that test replaces is nowhere in it, an [interface].entry aside; and whatever is isolated is a
\* test, and whatever it replaces is some source, and none that is for development
\* (link_tests_per_file, link_tests_single, link_isolated_test, check_isolated_tests).
SuiteAsDeclared ==
  stage = "compile" =>
    /\ \A u \in TestUnits(suite) :
         IsTestFile(u.path) => \E i \in Places(suite) : \A j \in Places(suite) : u \in TestsIn(j) <=> j = i
    /\ \A i \in Places(suite) :
         LET exe == Executable(suite, i)
             held == {LinkedAs(suite, u) : u \in Remaining(i)}
         IN  /\ IsolatedIn(i) # {} \/ ~suite.single =>
                  \E u \in TestsIn(i) : \A v \in TestsIn(i) : v = u \/ (suite.single /\ ~IsTestFile(v.path))
             /\ suite.single => {u \in TestUnits(suite) : ~IsTestFile(u.path)} \subseteq TestsIn(i)
             /\ exe.loose \cup exe.archived = ObjectsOf(TestsIn(i)) \cup DevLinked(suite) \cup held
             /\ exe.archived = IF IsolatedIn(i) = {} THEN {} ELSE {o \in held : ~IsEntryArchive(o)}
    /\ \A k \in DOMAIN suite.isolated :
         /\ \E i \in Places(suite) : k \in IsolatedIn(i)
         /\ \A r \in DOMAIN suite.isolated[k].replaces :
              LET Asked(u) == Asks(suite.isolated[k].replaces[r], u)
              IN  (\E u \in OwnUnits(suite) \cup RuntimeUnits(suite) : Asked(u)) /\ ~\E u \in DevUnits(suite) : Asked(u)

\* What an executable made from nothing holds.
MadeFrom(objects) == [o \in objects |-> written[o]]
Anew(i) ==
  [f \in LinkObjects(suite, i) |->
     CASE f[1] = "obj" -> written[f]
       [] f[1] = "entry" -> MadeFrom({EntryObject(suite, f[2])})
       [] OTHER -> MadeFrom(Executable(suite, i).archived)]
Told(r, name) == {v[2] : v \in {w \in r.vars : w[1] = name}}

\* What runs is what the sources say now: whatever was edited, built and left half built before,
\* every executable holds what one made from nothing holds, and no executable stays of a test
\* that is gone (build_link_project, build_archive_project, prune_what_a_deleted_test_left);
\* each is told one place in the run, no two the same, and nothing else of that name
\* (place_in_run).
TestedIsCurrent ==
  stage = "run" =>
    /\ \A f \in DOMAIN made : f[1] = "bin" /\ f[2] = "tests" => \E i \in Places(suite) : f = Executable(suite, i).binary
    /\ \A r \in ran :
         /\ r.place \in Places(suite) /\ r.holds = Anew(r.place)
         /\ Told(r, CountVar) = {Cardinality(Places(suite))}
         /\ \E n \in 1..Cardinality(Places(suite)) :
              Told(r, IndexVar) = {n} /\ \A s \in ran \ {r} : Told(s, IndexVar) # {n}

\* When all is run, every test was.
EveryTestRuns ==
  stage = "run" /\ Done = Places(suite) =>
    \A u \in TestUnits(suite) : IsTestFile(u.path) => \E r \in ran : Object(u) \in DOMAIN r.holds
=============================================================================
