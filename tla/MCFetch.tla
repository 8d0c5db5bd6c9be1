------------------------------- MODULE MCFetch --------------------------------
(* Two molto processes, one source of two files, worlds that differ in who  *)
(* may fetch at the same time and in what goes wrong.                         *)
EXTENDS Fetch

CONSTANTS m, t

World(kinds, older, faulty) == [kinds |-> kinds, older |-> older, faults |-> faulty]

\* Either kind of caller, with a crash that may tear the stamp or hit while a tree is
\* replaced; and a cache that an older molto filled, where it never does the second.
Worlds3 == {World({"plain"}, FALSE, {"crash", "tear"}),
            World({"carried"}, FALSE, {"crash", "download", "prune"}),
            World({"carried"}, TRUE, {"tear", "unpack"})}

\* Two builds of two projects that need the same source, and nothing else amiss.
Together == {World({"plain"}, FALSE, {})}
=============================================================================
