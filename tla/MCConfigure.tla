----------------------------- MODULE MCConfigure ------------------------------
(* Two builds that share a cache of two packages: one that CMake configures   *)
(* and one that sees it built, configured by its own script, whose Makefile   *)
(* says what it compiles.                                                     *)
EXTENDS ObjectCache

CONSTANTS b1, b2

OrderOfTwo == <<"lib", "app">>

RecipeOf == [u \in {"lib", "app"} |->
  IF u = "lib" THEN [system |-> "cmake", mentions |-> {"cxx"}, sources |-> "cmake", libs |-> {}]
  ELSE [system |-> "autotools", mentions |-> {"nasm"}, sources |-> "make", libs |-> {"lib"}]]

Setting(seen, nasm, x86) ==
  [cc |-> "gcc", cxx |-> "g++", nasm |-> nasm, x86 |-> x86, seen |-> seen]

World(settings, apart, faulty, most) ==
  [settings |-> settings, apart |-> apart, faults |-> faulty, most |-> most]

One == {Setting("ssl3", "/nasm", TRUE)}
Two == {Setting("ssl1", NoTool, FALSE), Setting("ssl3", "/nasm", TRUE)}

\* Builds that want the same and go wrong in every way, twice; and builds that want different
\* things and come one after another: one of them goes wrong in any way, or steps fail twice.
SameOrApart ==
  {World(One, FALSE, Faults, 2), World(Two, TRUE, Faults, 1), World(Two, TRUE, {"step"}, 2)}

\* Different settings, at once.
Overlapping == {World(Two, FALSE, {}, 0)}
=============================================================================
