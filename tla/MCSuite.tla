------------------------------- MODULE MCSuite --------------------------------
(***************************************************************************)
(* Suites of every shape that a small project has: one package with two    *)
(* sources, of which one may be its entry, one for development, and one to *)
(* three tests, of which one may be a framework's source.                  *)
(***************************************************************************)
EXTENDS Suite, TLC

MainC == <<"src", "main", "c">>
SrcA == <<"src", "a", "c">>
LibZ == <<"", "z", "c">>
LibE == <<"", "e", "c">>
DevU == <<"", "u", "c">>
TestT == <<"tests", "t", "c">>
TestV == <<"tests", "v", "c">>
TestCpp == <<"tests", "t", "cpp">>
Vendored == <<"vendor", "f", "c">>

Replaced(dep, path) == [dep |-> dep, path |-> path]
Alone(file, replaces) == [file |-> file, replaces |-> replaces]
SuiteOf(single, own, entry, tests, isolated) ==
  [single |-> single, own |-> own, runtime |-> ("z" :> {LibZ, LibE}), dev |-> ("u" :> {DevU}),
   entry |-> ("z" :> entry) @@ ("u" :> <<>>), tests |-> tests, isolated |-> isolated,
   env |-> {<<IndexVar, 7>>, <<"HOME", 0>>}]

One == <<Alone(TestT, <<Replaced("", SrcA), Replaced("z", LibZ)>>)>>
Two == <<Alone(TestV, <<Replaced("z", <<>>), Replaced("", MainC)>>), Alone(TestT, <<Replaced("", SrcA)>>)>>
Plain ==
  {SuiteOf(single, {MainC, SrcA}, entry, <<TestT, TestV>>, isolated) :
     single \in BOOLEAN, entry \in {<<>>, LibE}, isolated \in {<<>>, Two}}
Framed == {SuiteOf(single, {SrcA}, <<>>, <<TestV, TestT, Vendored>>, One) : single \in BOOLEAN}
Bare == {SuiteOf(TRUE, {SrcA}, <<>>, <<TestT>>, <<>>)}
Refused ==
  {SuiteOf(FALSE, {SrcA}, <<>>, <<TestT, TestCpp>>, <<>>),
   SuiteOf(TRUE, {SrcA}, <<>>, <<TestT>>, <<Alone(TestV, <<Replaced("", SrcA)>>)>>),
   SuiteOf(TRUE, {SrcA}, <<>>, <<TestT>>, <<Alone(TestT, <<Replaced("u", <<>>)>>)>>),
   SuiteOf(TRUE, {SrcA}, <<>>, <<TestT>>, <<Alone(TestT, <<Replaced("", Vendored)>>)>>)}
TwoMains == {[SuiteOf(TRUE, {SrcA}, LibE, <<TestT>>, <<>>) EXCEPT !.entry["u"] = DevU]}

Apart == Plain \cup Framed \cup Bare \cup Refused \cup TwoMains
\* Two isolated tests of one single suite whose executables have one path.
Together ==
  {SuiteOf(TRUE, {SrcA}, <<>>, <<TestT, TestCpp>>,
           <<Alone(TestT, <<Replaced("", SrcA)>>), Alone(TestCpp, <<Replaced("z", LibZ)>>)>>)}
=============================================================================
