----------------------------- MODULE MCDocuments -----------------------------
(***************************************************************************)
(* The documents between a frontend and the engine, each algorithm on them *)
(* against what it stands for: what is asked of them, and what is to hold  *)
(* of the answers.  And manifests in every order of a few tables, and what *)
(* add and remove make of them.                                            *)
(***************************************************************************)
EXTENDS Integers, Sequences, FiniteSets, SequencesExt, TLC

CONSTANT Checkouts   \* the directories that hold what a project depends on by path

CONSTANT Jammed      \* whether [[test.isolated]] may stand right behind a table of dependencies

VARIABLE asked       \* <<the algorithm, the input>>

W == INSTANCE IrDocument WITH IrSchema <- 1
R == INSTANCE IrValidate WITH Forbidden <- {"-B"}, Real <- <<>>
T == INSTANCE IrTransform WITH IrSchema <- 1
F == INSTANCE Frontends WITH Schema <- 1, MaxListed <- 2, MaxCandidates <- 2
M == INSTANCE Manifest WITH
       MaxTableArrays <- 2, Names <- {"app", "x", "y", "z", "w", "u"}, Exact <- {"1", "2"},
       Digests <- {}, MaxDeps <- 4, MaxRegistries <- 1, MaxIsolated <- 2, MaxReplaces <- 2

Seqs(set, n) == UNION {[1..k -> set] : k \in 0..n}
Seq1(set) == [1..1 -> set]

------------------------------------------------------------------------------
(* A project and its packages                                                *)

Options(name, flags) == [defines |-> <<name>>, flags |-> flags, include |-> <<name>>]
Source(path, cpp) == [path |-> path, cpp |-> cpp, stem |-> path]
Project(artifact, tests, single, std) ==
  [name |-> "app", version |-> "1.0.0", root |-> "/app",
   target |-> Options("T", <<"-Wall">>), test |-> Options("Test", <<>>),
   profiles |-> [p \in T!Profiles |-> Options("P", <<"-fno-profile">>)],
   link |-> <<"m", "Cocoa.framework">>, host |-> <<[includes |-> <<"/usr/x">>, links |-> <<"-lx">>]>>,
   std |-> std, cpp_std |-> "c++17", artifact |-> artifact,
   sources |-> <<Source("src/a.c", FALSE), Source("src/b.cc", TRUE)>>, tests |-> tests, single |-> single]
Tests == {<<>>, <<Source("tests/t", FALSE)>>, <<Source("tests/t", FALSE), Source("tests/u", TRUE)>>}
Projects == {Project(artifact, tests, single, std) :
               artifact \in {"executable", "static", "shared"}, tests \in Tests, single \in BOOLEAN, std \in {"", "c11"}}

Package(name, sources, args, std) ==
  [name |-> name, version |-> <<"1.0">>, origin |-> "registry", root |-> "/cache/" \o name, system |-> TRUE,
   exports |-> [includes |-> <<name \o "/include">>, defines |-> <<name>>, flags |-> <<"-pthread">>,
                links |-> <<name>>, link_flags |-> <<"-z">>],
   defines |-> <<name \o "_own">>, flags |-> <<"-w">>, includes |-> <<name \o "/src">>,
   sources |-> sources, args |-> args, std |-> std, cpp_std |-> ""]
ZlibCode == <<[path |-> "z.c", cpp |-> FALSE, asm |-> FALSE], [path |-> "z.asm", cpp |-> FALSE, asm |-> TRUE]>>
Packages(name) ==
  {Package(name, <<>>, <<>>, ""), Package(name, ZlibCode, <<>>, "c99"), Package(name, ZlibCode, <<<<"-Da">>, <<"-Db">>>>, "")}
Runtime == {<<>>} \cup Seq1(Packages("zlib"))
Development == {<<>>} \cup Seq1(Packages("unity"))

------------------------------------------------------------------------------
(* Documents                                                                 *)

Opts == {<<>>, <<[value |-> "-O", scope |-> "target"], [value |-> "-g", scope |-> "profile"]>>}
Target(name, package, kind, options, artifact) ==
  [name |-> name, package |-> package, kind |-> kind,
   sources |-> <<[path |-> "a.c", language |-> "c", options |-> options]>>, options |-> options,
   includes |-> <<[value |-> "i", scope |-> "unit", system |-> TRUE]>>, links |-> options,
   depends_on |-> <<"lib">>, artifact |-> artifact]
Artifacts == {<<>>} \cup Seq1([kind : {"static"}, path : {"x"}, install : {<<>>, <<"lib">>}])
Dependency(version, options) ==
  [name |-> "zlib", version |-> version, origin |-> "git", scope |-> "dev", root |-> "/z",
   includes |-> <<[value |-> "i", scope |-> "unit", system |-> FALSE]>>, options |-> options, links |-> options]
Document(targets, dependencies) ==
  [files_read |-> <<"f">>, name |-> "app", version |-> "1", root |-> "/app", origin |-> "native",
   targets |-> targets, dependencies |-> dependencies]
Targets == {Target("t", package, kind, options, artifact) :
              package \in {<<>>, <<"zlib">>}, kind \in {"test", "object"}, options \in Opts, artifact \in Artifacts}
Documents ==
  {Document(targets, deps) : targets \in {<<>>} \cup Seq1(Targets),
                             deps \in {<<>>} \cup {<<Dependency(v, o)>> : v \in {<<>>, <<"1">>}, o \in Opts}}

\* Every way to add a member to one node of a wire.
RECURSIVE Marked(_, _)
Marked(node, extra) ==
  {extra @@ node}
    \cup UNION {{[node EXCEPT ![key] = W!Node(m)] : m \in Marked(node[key].node, extra)}
                  : key \in {key \in DOMAIN node : node[key].type = "node"}}
    \cup UNION {UNION {{[node EXCEPT ![key].items[i] = W!Node(m)] : m \in Marked(node[key].items[i].node, extra)}
                         : i \in {i \in DOMAIN node[key].items : node[key].items[i].type = "node"}}
                  : key \in {key \in DOMAIN node : node[key].type = "list"}}
Attribute == "note" :> W!Text("x")
NodeType == "toolchains" :> W!List(<<W!Node(<<>>)>>)

\* A document returns from the wire as it went, with what was absent absent; an attribute that is
\* not known changes nothing wherever it stands, and a list of nodes that is not known is refused
\* wherever it stands (ir_write, ir_read).
WireKeeps ==
  asked[1] = "document" =>
    LET wire == W!Write(asked[2])
    IN  /\ W!Reads(wire) /\ W!ReadOf(wire) = asked[2]
        /\ \A other \in Marked(wire, Attribute) : W!Reads(other) /\ W!ReadOf(other) = asked[2]
        /\ \A other \in Marked(wire, NodeType) : ~W!Reads(other)

------------------------------------------------------------------------------
(* Graphs and paths                                                          *)

Graphs == UNION {[1..n -> [name : {"a", "b", "c"}, depends_on : Seqs({"a", "b", "c"}, 1) \cup {<<"b", "c">>}]] : n \in 0..3}
Segments == Seqs({"x", "y", ".", ".."}, 4)
Paths == Segments \cup {<<"/">> \o p : p \in Seqs({"x", "y", ".", ".."}, 3)}
Bases == {<<"/", "x">>, <<"/", "x", "y">>}
Bounds == {{<<"/", "x">>}, {<<"/", "x", "y">>}, {<<"/", "y">>, <<"/", "x", "..", "x", "x">>}}

\* A document is lowered when its targets can be built one after the other, and a path is inside
\* when the directory that a walk along it ends in is (ir_validate).
RulesHold ==
  /\ asked[1] = "graph" =>
       LET doc == [targets |-> asked[2]] IN R!GraphIsSound(doc) <=> R!Buildable(doc)
  /\ asked[1] = "path" =>
       \A base \in Bases, bounds \in Bounds :
         LET start == IF R!IsAbsolute(asked[2]) THEN <<>> ELSE R!Walk(<<>>, base)
         IN  R!PathAllowed(asked[2], base, bounds) <=>
               asked[2] # <<>> /\ \E root \in bounds : IsPrefix(R!Walk(<<>>, root), R!Walk(start, asked[2]))

------------------------------------------------------------------------------
(* Lowering                                                                  *)

Plans == [project : Projects, profile : T!Profiles, deps : Runtime, dev : Development]
Planned(plan) == T!Plan(plan.project, plan.profile, plan.deps, plan.dev)
Lines(target) == {T!Line(target, target.sources[i]) : i \in DOMAIN target.sources}
Says(line, word) == \E i \in DOMAIN line : line[i] = word
OfProject(doc) == {t \in ToSet(doc.targets) : t.package = <<>>}
OfPackages(doc) == {t \in ToSet(doc.targets) : t.package # <<>>}
Written(project) ==   \* what the manifest says of its own code
  {<<"-D", "T">>, <<"-D", "P">>, <<"-D", "Test">>, <<"", "-Wall">>, <<"", "-fno-profile">>, T!Coverage}

\* What a package exports reaches the project's targets, of one for development only its tests;
\* what the manifest says of its own code reaches no package, whose line is the same in another
\* project; and nothing the manifest says comes after the instrumentation of a coverage build
\* (frontend_native, ir_transform, push_document).
LoweredAsDeclared ==
  asked[1] = "plan" =>
    LET plan == asked[2]
        doc == Planned(plan)
        other == Planned([plan EXCEPT !.project = [@ EXCEPT !.target = Options("Other", <<"-Wother">>), !.tests = <<>>]])
    IN  /\ \A t \in OfProject(doc) :
             /\ \A line \in Lines(t) :
                  /\ (plan.deps # <<>>) <=> Says(line, <<"-D", "zlib">>)
                  /\ (plan.dev # <<>> /\ t.kind = "test") <=> Says(line, <<"-D", "unity">>)
             /\ (plan.dev # <<>> /\ t.kind = "test") <=> Says(T!LinkLine(t), <<"-l", "unity">>)
             /\ plan.profile = "coverage" =>
                  \A line \in Lines(t) \cup {T!LinkLine(t)} :
                    /\ Says(line, T!Coverage)
                    /\ \A i, j \in DOMAIN line : line[i] = T!Coverage /\ j > i => line[j] \notin Written(plan.project)
        /\ \A t \in OfPackages(doc) :
             /\ \A line \in Lines(t) : \A i \in DOMAIN line : line[i] \notin Written(plan.project)
             /\ \E u \in OfPackages(other) : u.name = t.name /\ Lines(u) = Lines(t)
        /\ R!GraphIsSound(doc) /\ W!Reads(W!Write(doc))

------------------------------------------------------------------------------
(* Frontends                                                                 *)

Names == 1..3
PathDirs == {<<>>, 1 :> TRUE @@ 2 :> FALSE, 0 :> TRUE @@ 2 :> TRUE @@ 3 :> TRUE, 1 :> TRUE @@ 3 :> TRUE}
Overridden == [F!PluginInstall(F!Nothing) EXCEPT !.toml = TRUE]
Stories == ("never" :> F!Nothing) @@ ("installed" :> F!PluginInstall(F!Nothing)) @@ ("overridden" :> Overridden)
             @@ ("removed" :> F!PluginRemove(Overridden))
Answer(kind, name) ==
  [ran |-> IF kind = "slow" THEN "timed_out" ELSE "ok", code |-> IF kind = "declines" THEN 3 ELSE 0,
   reads |-> TRUE, origin |-> IF kind = "lies" THEN 0 ELSE name, files_read |-> 1, dependencies |-> 0, valid |-> TRUE]
Recipe == [schema |-> 1, molto |-> TRUE, frontend |-> TRUE, extensions |-> <<"CMakeLists.txt", "meson.build">>]
Worlds ==
  {[kept |-> [n \in Names |-> Stories[stories[n]]], stories |-> stories, path |-> <<dir>>,
    recipes |-> [n \in Names |-> Recipe], files |-> {"meson.build"}, manifest |-> FALSE,
    answers |-> [n \in Names |-> Answer(kinds[n], n)], kinds |-> kinds] :
     stories \in [Names -> DOMAIN Stories], dir \in PathDirs, kinds \in [Names -> {"good", "declines", "lies"}]}
Orders(dirs) == {<<p, q>> : p \in SetToSeqs(DOMAIN dirs[1]), q \in SetToSeqs(DOMAIN dirs[2])}

\* Whatever order a filesystem lists its files in, the same frontend describes a directory: of
\* those that did not decline, the first by name among the installed ones and then those on
\* PATH; what is listed is what would be run; and a plugin that was removed describes nothing,
\* also when its recipe had been written by hand (plugin_list, plugin_resolve, plugin_remove,
\* frontend_run).
FrontendIsFixed ==
  asked[1] = "world" =>
    LET world == asked[2]
        dirs == F!DirsOf(world)
        names == {n \in Names : F!PluginResolve(dirs, n) # 0}
        able == {n \in names : world.stories[n] \in {"installed", "overridden"} /\ world.kinds[n] # "declines"}
        Before(m, n) == \/ F!PluginResolve(dirs, m) < F!PluginResolve(dirs, n)
                        \/ F!PluginResolve(dirs, m) = F!PluginResolve(dirs, n) /\ m < n
    IN  \A orders \in Orders(dirs) :
          LET listing == F!PluginList(dirs, orders)
              run == F!FrontendRun(world, orders)
          IN  /\ listing.room <=> Cardinality(names) <= 2
              /\ listing.room =>
                   /\ {e.name : e \in ToSet(listing.list)} = names
                   /\ \A e \in ToSet(listing.list) : e.dir = F!PluginResolve(dirs, e.name)
                   /\ run.by = IF able = {} THEN <<>> ELSE <<CHOOSE n \in able : \A m \in able \ {n} : Before(n, m)>>

------------------------------------------------------------------------------
(* Objects                                                                   *)

Roots == {<<"/", "home", "cache", "sources", name, "k1", "t">> : name \in {"zlib", "unity"}} \cup Checkouts
Rests == {<<"a.c">>, <<"b.c">>, <<"src", "a.c">>}
Project1 == <<"/", "home", "app">>
Sources == {root \o rest : root \in Roots \cup {Project1 \o <<"src">>}, rest \in Rests}

\* Two sources of one build have two objects: a package's beside the project's, those of two
\* packages, and those of two directories of one (build_object_path_for).
ObjectsApart ==
  asked[1] = "source" =>
    \A other \in Sources \ {asked[2]} : T!ObjectPath(Project1, other) # T!ObjectPath(Project1, asked[2])

DocumentQuestions ==
  ({"document"} \X Documents) \cup ({"graph"} \X Graphs) \cup ({"path"} \X Paths)
    \cup ({"plan"} \X Plans) \cup ({"world"} \X Worlds) \cup ({"source"} \X Sources)

\* What reaches molto through a plugin is what was written: a document keeps its meaning over
\* the wire, the rules that are checked are the rules, and which front end is asked does not
\* depend on the order a directory is read in.
DocumentsHold == WireKeeps /\ RulesHold /\ FrontendIsFixed

------------------------------------------------------------------------------
(* Manifests                                                                 *)

Key(key, value, note) == M!KeyLine(key, value, note)
Header(kind, name, note) == [kind |-> kind, name |-> name, note |-> note]
Remark(note) == [kind |-> "blank", note |-> note]
Inside(pairs) == [type |-> "inline", is |-> [i \in DOMAIN pairs |-> [key |-> pairs[i][1], value |-> M!Text(pairs[i][2])]]]
Replaces(open) == [type |-> "array", is |-> <<[dep |-> "", path |-> <<"src", "a.c">>]>>, open |-> open]

\* The tables a manifest is put together from.
PackageTable == <<Header("table", <<"package">>, "# a"), Key("name", M!Text("app"), ""), Key("version", M!Text("1"), "")>>
Blocks ==
  ("deps" :> <<Remark(""), Header("table", <<"deps">>, ""), Key("x", M!Text("1"), "# the reader")>>)
    @@ ("two" :> <<Header("table", <<"deps">>, ""), Key("y", Inside(<<<<"git", "g">>, <<"tag", "t">>>>), ""), Remark("# more"),
                   Key("x", Inside(<<<<"version", "1">>>>), "")>>)
    @@ ("dev" :> <<Header("table", <<"dev-deps">>, "# tests"), Remark(""), Key("u", M!Text("1"), "")>>)
    @@ ("long" :> <<Header("table", <<"deps", "z">>, ""), Key("path", M!Text("p"), ""), Key("os", [Replaces(TRUE) EXCEPT !.is = <<"linux">>], ""),
                    [kind |-> "more", items |-> <<"macos">>, closed |-> TRUE, note |-> ""]>>)
    @@ ("longdev" :> <<Header("table", <<"dev-deps", "z">>, ""), Key("version", M!Text("1"), ""), Remark("")>>)
    @@ ("target" :> <<Remark("# the machine"), Header("table", <<"target">>, ""), Key("std", M!Text("c17"), "# x")>>)
    @@ ("isolated" :> <<Header("array", <<"test", "isolated">>, ""), Key("file", M!Text(<<"tests", "t.c">>), ""),
                        Key("replaces", Replaces(FALSE), "")>>)
OfDeps == {"deps", "two", "dev", "long", "longdev"}
Orderly(order) ==
  /\ \A i, j \in DOMAIN order : i # j => order[i] # order[j]
  /\ ~({"deps", "two"} \subseteq ToSet(order)) /\ ~({"long", "longdev"} \subseteq ToSet(order))
  /\ Jammed \/ \A i \in DOMAIN order : order[i] = "isolated" /\ i > 1 => order[i - 1] \notin OfDeps
Manifests == {PackageTable \o FlattenSeq([i \in DOMAIN order |-> Blocks[order[i]]]) : order \in {o \in Seqs(DOMAIN Blocks, 3) : Orderly(o)}}

Edits ==
  {<<"add", name, table, "2">> : name \in {"x", "z", "w"}, table \in M!DepsTables}
    \cup {<<"remove", name, "", "">> : name \in {"x", "z", "w"}}
Edited(lines, ended, edit) ==
  IF edit[1] = "add" THEN M!AddDep(lines, ended, edit[3], edit[2], M!ComposeValue(edit[4], "", "", ""))
  ELSE M!RemoveDep(lines, edit[2])

\* The lines of a dependency: its key, or its header and what stands under it.
TrueHeader(lines, i) == lines[i].kind \in {"table", "array"}
Under(lines, i) ==
  LET above == {j \in 1..i : TrueHeader(lines, j)}
  IN  IF above = {} THEN <<>> ELSE lines[CHOOSE j \in above : \A k \in above : k <= j].name
Own(lines, name) ==
  {i \in DOMAIN lines : \E table \in M!DepsTables :
     Under(lines, i) = <<table, name>> \/ (M!IsKey(lines[i], name) /\ Under(lines, i) = <<table>>)}
\* The comments and blank lines that follow the last key of a table of its own.
Trail(lines, name) ==
  {i \in Own(lines, name) : lines[i].kind = "blank" /\
     \A j \in Own(lines, name) : j > i /\ Under(lines, j) = Under(lines, i) => lines[j].kind = "blank"}
OthersLines(lines, own) == FlattenSeq([i \in DOMAIN lines |-> IF i \in own THEN <<>> ELSE <<lines[i]>>])
Kept(lines, name) == OthersLines(lines, Own(lines, name) \ Trail(lines, name))
Meant(lines, edit) ==   \* what an edit is to leave: a table is removed with its trail
  IF edit[1] = "remove" THEN OthersLines(lines, Own(lines, edit[2])) ELSE Kept(lines, edit[2])
Notes(lines, name) == {lines[i].note : i \in Own(lines, name)}

DepsNamed(deps, name) == {d \in ToSet(deps) : d.name = name}
Others(deps, name) == {d \in ToSet(deps) : d.name # name}
NewTable(edit) == <<Remark(""), Header("table", <<edit[3]>>, "")>>

\* Whether the dependency is written as a table, and whether the entry of an add goes to the end
\* of a text that has no newline there.
Long(lines, name) == \E i \in DOMAIN lines, table \in M!DepsTables : M!IsSubtable(lines[i], table, name)
AtOpenEnd(lines, ended, edit) ==
  /\ ~ended /\ edit[1] = "add" /\ M!HasTable(lines, edit[3])
  /\ M!Entries(lines, edit[3], edit[2]) = {} /\ M!FindTableEnd(lines, edit[3]) = Len(lines)

\* What must hold of one edit, of the text and of what the project says before and after it.
ChangesOne(lines, before, edit, result, after) ==
  LET name == edit[2]
      had == [table \in M!DepsTables |-> DepsNamed(before.deps[table], name)]
      holding == {table \in M!DepsTables : had[table] # {}}
  IN  /\ result.ok <=> IF edit[1] = "add" THEN holding \subseteq {edit[3]} ELSE holding # {}
      /\ result.ok =>
           /\ \A table \in M!DepsTables :
                /\ Others(after.deps[table], name) = Others(before.deps[table], name)
                /\ DepsNamed(after.deps[table], name) =
                     IF table # edit[3] THEN {} ELSE IF Long(lines, name) THEN had[table] ELSE {M!Shorthand(name, "2")}
           /\ [after EXCEPT !.deps = <<>>] = [before EXCEPT !.deps = <<>>]
           /\ Kept(result.lines, name) \in {Meant(lines, edit) \o new : new \in {<<>>, NewTable(edit)}}
           /\ edit[1] = "add" /\ holding # {} => Notes(lines, name) \subseteq Notes(result.lines, name)

\* An edit does what it was asked or is refused for a reason: afterwards the project says of that
\* dependency what was asked and of everything else what it said; no line of anything else is
\* lost, moved or changed, blank ones and comments too; and a replaced entry keeps its comment
\* (manifest_add_dep, manifest_remove_dep).  Four things that the code does are excepted:
\*   what stands between a removed table and the next header, a comment too, goes with the table
\*   (manifest_edit.c:319-338; CommentsSurvive is false of it);
\*   an add of what is written as a table is taken and changes nothing that the project says, its
\*   key is put beside the table, which wins (284-293; AddReplaces is false of it);
\*   an add at the end of a table whose last line ends the text without a newline is glued to that
\*   line (293; EndIsNothing is false of it), so nothing is asked of it here;
\*   and no [[test.isolated]] stands right behind a table of dependencies unless Jammed (57;
\*   RestSurvives is false of it).
EditChangesOne ==
  asked[1] = "edit" =>
    LET lines == asked[2]
    IN  /\ M!Accepts(lines)
        /\ \A before \in {M!Project(lines)}, edit \in {e \in Edits : ~AtOpenEnd(lines, asked[3], e)} :
             \A result \in {Edited(lines, asked[3], edit)} :
               \A after \in {M!Project(result.lines)} : ChangesOne(lines, before, edit, result, after)

\* Everything the command did not touch survives, comments and blank lines too, what stands under
\* a removed header being the command's to remove and the text ended (the comment of
\* manifest_edit.h).
RestSurvives ==
  asked[1] = "edit" /\ asked[3] =>
    \A edit \in Edits :
      LET result == Edited(asked[2], TRUE, edit)
      IN  result.ok => Kept(result.lines, edit[2]) \in {Meant(asked[2], edit) \o new : new \in {<<>>, NewTable(edit)}}

\* The comments between a removed table and the next header survive (the same comment of it).
CommentsSurvive ==
  asked[1] = "edit" =>
    \A edit \in Edits :
      LET result == Edited(asked[2], asked[3], edit)
      IN  result.ok =>
            \A i \in DOMAIN asked[2] :
              asked[2][i].kind = "blank" /\ asked[2][i].note # "" /\ (i \in Own(asked[2], edit[2]) => i \in Trail(asked[2], edit[2])) =>
                asked[2][i] \in ToSet(result.lines)

\* Adding what is there replaces it, in whichever form it is written (manifest_edit.h:30-35).
AddReplaces ==
  asked[1] = "edit" /\ asked[3] =>
    \A edit \in {e \in Edits : e[1] = "add"} :
      LET result == Edited(asked[2], TRUE, edit)
      IN  result.ok => DepsNamed(M!Project(result.lines).deps[edit[3]], edit[2]) = {M!Shorthand(edit[2], "2")}

\* What an edit makes of a text does not depend on the newline at its end.
EndIsNothing ==
  asked[1] = "edit" => \A edit \in Edits : Edited(asked[2], FALSE, edit) = Edited(asked[2], TRUE, edit)

ManifestQuestions == {"edit"} \X Manifests \X BOOLEAN
=============================================================================
