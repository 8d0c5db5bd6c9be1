----------------------------- MODULE MCPublishing ------------------------------
(* Recipes of every form, well and badly written, and worlds that go wrong in *)
(* one way each.                                                              *)
EXTENDS Publishing

MCRoom == [key \in {"sources", "exclude", "link", "defines", "include", "flags", "args", "targets",
                    "goals", "env", "libraries", "provide", "capabilities", "extensions",
                    "permissions"} |-> 2]

Keys(pairs) == [at \in {p[1] : p \in pairs} |-> (CHOOSE p \in pairs : p[1] = at)[2]]

Doc(kind, version, schema, form, tables, more) ==
  [tables |-> tables,
   keys |-> Keys({<<<<"", "kind">>, Text(kind)>>, <<<<"", "name">>, Text("n")>>,
                  <<<<"", "version">>, Text(version)>>, <<<<"", "target">>, Text("any")>>,
                  <<<<"", "schema">>, Number(schema)>>, <<<<"", "form">>, Text(form)>>} \cup more),
   provide |-> <<>>, deps |-> "good", about |-> "good", source |-> "good", platforms |-> "good",
   archive |-> "none"]

SourceTables == {"source", "build", "artifacts"}
Built(system, via) ==
  {<<<<"build", "system">>, Text(system)>>, <<<<"build", "via">>, Text(via)>>}
FromSource(schema, more) == Doc("package", "1.0.0", schema, "source", SourceTables, more)

Plain == FromSource(1, {})
Asks(schema, says) ==
  FromSource(schema, Built("autotools", "delegate") \cup {<<<<"build", "sources">>, Text(says)>>})
PerOs(schema, sources) ==
  [FromSource(schema, {<<<<"artifacts.linux", "sources">>, List(<<"e">>)>>,
                       <<<<"artifacts", "sources">>, List(sources)>>})
     EXCEPT !.tables = @ \cup {"artifacts.linux"}]
Provided(system, via) ==
  [FromSource(1, Built(system, via)) EXCEPT !.provide = <<[file |-> "a", from |-> "b"]>>]
Binary(kind, version) == Doc(kind, version, 1, "binary", {kind}, {})
OnPlatforms(schema) == Doc("package", "1.0.0", schema, "platform", {}, {})

Targeted ==
  [Plain EXCEPT !.keys = [@ EXCEPT ![<<"", "target">>] = Text("linux-x86_64")]]
Private(schema) ==
  [FromSource(schema, {<<<<"artifacts.private.macos", "flags">>, List(<<"f">>)>>})
     EXCEPT !.tables = @ \cup {"artifacts.private.macos"}]

Good == {Plain, Asks(5, "make"), PerOs(4, <<"a">>), Provided("cmake", "delegate"), OnPlatforms(3),
         Binary("package", "1.0.0"), [Binary("package", "1.0.0") EXCEPT !.archive = "good"],
         Binary("toolchain", "10.47"), Targeted, PerOs(4, <<"a", "b">>)}
Bad == {FromSource(1, Built("scons", "delegate")), Asks(1, "make"), Asks(5, "cmake"), PerOs(1, <<"a">>),
        PerOs(4, <<>>), PerOs(4, <<"a", "b", "c">>), Provided("make", "delegate"), OnPlatforms(1),
        Binary("package", "10.47"), [Binary("tool", "1.0.0") EXCEPT !.archive = "bad"],
        [Plain EXCEPT !.source = "bad"], [OnPlatforms(3) EXCEPT !.platforms = "bad"],
        Private(1), FromSource(1, {<<<<"build", "args">>, List(<<"x">>)>>}),
        FromSource(5, Built("cmake", "delegate") \cup {<<<<"build", "libraries">>, Number(1)>>})}
GoodAndBad == Good \cup Bad

\* What a publisher does not read of a recipe from source: its schema, [deps] and [about].
Unread == {FromSource(9, {}), [Plain EXCEPT !.deps = "bad"], [Plain EXCEPT !.about = "bad"]}

World(way, signs, large, dry, edits, faulty) ==
  [os |-> "linux", way |-> way, signs |-> signs, large |-> large, dry |-> dry, edits |-> edits, faults |-> faulty]

Usual ==
  {World(way, signs, FALSE, FALSE, {}, {"network", "lost", "foreign"}) :
     way \in {"file", "find"}, signs \in {"201", "404"}}
  \cup {World("pack", "501", FALSE, FALSE, {}, {"tar", "network"}),
        World("pack", "501", TRUE, FALSE, {}, {}), World("file", "bad", FALSE, FALSE, {}, {}),
        World("file", "201", FALSE, FALSE, {"archive"}, {"crash", "lost"}),
        World("find", "404", FALSE, TRUE, {}, {"crash"})}

Unchecked == {World("find", "404", FALSE, FALSE, {}, {})}
CutOff == {World("pack", "201", FALSE, FALSE, {}, {"crash"})}
=============================================================================
