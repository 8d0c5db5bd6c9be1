------------------------------ MODULE MCDepGraph -----------------------------
(* A universe of five packages for DepGraph: a diamond whose two sides may     *)
(* disagree, a cycle, a path dependency, a name limited to one system, and     *)
(* more releases than the search may try.                                      *)
EXTENDS DepGraph

CONSTANTS left, right, base, deep, leaf, here, linux, windows

MCNames == {left, right, base, deep, leaf}
MCVersions == 1 .. 5
MCPlaces == {here}
MCOSes == {linux, windows}

Req(name, src) == [name |-> name, src |-> src, os |-> MCOSes]
Only(name, src, os) == [name |-> name, src |-> src, os |-> {os}]
Says(needs) == [needs |-> needs, builds |-> TRUE]
Unbuildable == [needs |-> <<>>, builds |-> FALSE]

\* left and right stand over base; its releases lead to deep, which may lead back.
MCRecipes ==
  [x \in MCNames \X (MCVersions \cup MCPlaces) |->
     CASE x = <<left, 1>> -> {Says(<<Req(base, 1)>>), Says(<<Only(base, 1, linux), Req(deep, 1)>>)}
       [] x \in {<<left, 2>>, <<left, 3>>} -> {Says(<<Req(base, 2)>>), Says(<<>>), Unbuildable}
       [] x = <<left, 4>> -> {Says(<<Req(base, 3)>>), Unbuildable}
       [] x = <<right, 1>> -> {Says(<<Req(base, 1)>>), Says(<<Req(base, 2)>>)}
       [] x = <<right, here>> -> {Says(<<Req(base, 2)>>), Says(<<Only(deep, 1, windows)>>)}
       [] x = <<base, 1>> -> {Says(<<>>), Says(<<Req(deep, 1)>>)}
       [] x = <<base, 2>> -> {Says(<<>>), Says(<<Req(deep, 1), Req(left, 1)>>)}
       [] x = <<deep, 1>> -> {Says(<<>>), Says(<<Req(base, 1), Req(leaf, 1)>>), Says(<<Req(base, 2)>>), Unbuildable}
       [] x = <<leaf, 1>> -> {Says(<<>>)}
       [] OTHER -> {}]

MCListed == [n \in MCNames |-> IF n = left THEN 1 .. 5 ELSE IF n = right THEN {1} ELSE {1, 2}]

\* Each table is one of a few; some pairs name a package twice.
MCTables == {<<>>, <<Req(left, 1)>>, <<Req(left, 1), Req(right, 1)>>, <<Req(right, here), Req(base, 1)>>,
             <<Only(base, 1, windows), Req(deep, 1)>>, <<Req(left, 3), Req(right, 1)>>}
MCProjects == [deps : MCTables, dev : MCTables]
==============================================================================
