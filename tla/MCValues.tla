------------------------------ MODULE MCValues -------------------------------
(***************************************************************************)
(* The algorithms on values, each against what it stands for; the hash map *)
(* beside its dictionary; and the test suites of MCSuite.  One of the three *)
(* goes on while the others rest: a step asks one question of one          *)
(* algorithm, of which the invariants judge the answer, or it is a step of *)
(* the map, or, where suites are what is asked for, of a suite.            *)
(***************************************************************************)
EXTENDS StrMap, MCDocuments, MCSuite

CONSTANTS k1, k2, k3, k4, v1, v2

MCHash == (k1 :> 0) @@ (k2 :> 1) @@ (k3 :> 0) @@ (k4 :> 5)

V == INSTANCE Algorithms WITH
       Letters <- {10}, MaxNumber <- 11, Ascii <- <<"!", "*", "-", "?", "[", "\\", "]", "a">>, MaxLines <- 2
C == INSTANCE CompileLines WITH MaxDepth <- 3

------------------------------------------------------------------------------
\* Versions: two texts of numbers, one that overflows, and every prerelease of two identifiers.
Ids == UNION {[1..k -> {1, 2, 10}] : k \in 1..2}
Version(patch, pre) == [numbers |-> <<<<1>>, <<1, 0>>, patch>>, pre |-> pre, build |-> <<>>]
Versions == {Version(p, pre) : p \in {<<2>>, <<1, 0>>, <<0, 1>>, <<1, 2>>}, pre \in Seqs({<<1>>, <<1, 0>>, <<10>>}, 1)}
            \cup {Version(<<2>>, pre) : pre \in Seqs(Ids, 2)}
Few == {Version(<<2>>, <<>>), Version(<<1, 0>>, <<<<10>>>>), Version(<<1, 0>>, <<<<1>>>>), Version(<<1, 2>>, <<>>)}

PathTexts == Seqs({"a", "]"}, 3)
Files == Seqs({"x", "y"}, 4)
ShellTexts == Seqs({C!Single, C!Double, C!Backslash, C!Blank, ";", "&", "a"}, 5)
Word(name, value, source) == [name |-> name, value |-> value, source |-> source]
CommandWords == {Word(name, <<>>, FALSE) : name \in {"-c", "-o", "-MD", "-I"}}
           \cup {Word("-I", <<"..">>, FALSE), Word("file", <<"a.o">>, FALSE),
                 Word("file", <<"a.c">>, TRUE), Word("file", <<"..", "b.c">>, TRUE)}
CommandLines == {<<Word(driver, <<>>, FALSE)>> \o rest : driver \in {"cc", "nasm"}, rest \in Seqs(CommandWords, 4)}
MakeLines == Seqs([kind : {"enter"}, dir : {"d", "e"}] \cup [kind : {"leave", "command"}, dir : {""}], 5)

Questions ==
  ({"version"} \X Versions) \cup ({"newest"} \X [1..3 -> Few])
    \cup ({"pattern"} \X Seqs(V!Chars, 4)) \cup ({"diff"} \X Files)
    \cup ({"shell"} \X ShellTexts) \cup ({"command"} \X CommandLines) \cup ({"make"} \X MakeLines) \cup DocumentQuestions \cup ManifestQuestions

MCCheckouts == {<<"/", "home", "work", "greet">>, <<"/", "home", "work", "hello">>}
UnderSources == {<<"/", "home", "sources", "work", "core", name>> : name \in {"greet", "hello"}}

MCInit ==
  /\ MapInit /\ SuiteInit
  /\ \/ asked = <<"suite">>
     \/ asked = <<"none">> /\ suite = CHOOSE p \in Suites : TRUE
Ask == MapInit /\ asked = <<"none">> /\ asked' \in Questions /\ UNCHANGED <<mapVars, suiteVars>>
MCNext ==
  \/ Ask
  \/ asked = <<"none">> /\ MapNext /\ UNCHANGED <<asked, suiteVars>>
  \/ asked = <<"suite">> /\ SuiteNext /\ UNCHANGED <<asked, mapVars>>
MCSpec == MCInit /\ [][MCNext]_<<mapVars, asked, suiteVars>>

------------------------------------------------------------------------------
\* Versions compare as semver.org orders them, a number that overflows or has a leading zero
\* aside, so a newest version is one that none is above (semver_compare, semver_highest): the
\* order is what `highest` in a manifest and every resolution rest on.
SemverIsOrder ==
  /\ asked[1] = "version" =>
       \A w \in {w \in Versions : V!Parses(w) /\ V!NoLeadingZero(w)} :
         V!Parses(asked[2]) /\ V!NoLeadingZero(asked[2]) =>
           /\ (V!Compare(asked[2], w) < 0) <=> V!Below(asked[2], w)
           /\ V!Compare(asked[2], w) = -V!Compare(w, asked[2])
  /\ asked[1] = "newest" =>
       LET best == V!Highest(asked[2])
           good == {i \in 1..3 : V!Parses(asked[2][i])}
       IN  /\ (best = 0) <=> (good = {})
           /\ best # 0 => best \in good /\ ~\E i \in good : V!Below(asked[2][best], asked[2][i])
           /\ V!Sorted(asked[2]) => good = 1..V!Leading(asked[2])

\* The loop that only remembers its last star accepts a path exactly when some choice for every
\* star would (glob_match), with brackets, escapes and patterns that are cut short.
GlobMeans ==
  asked[1] = "pattern" =>
    \A t \in PathTexts : V!GlobMatch(asked[2], t) <=> V!Denotes(V!Items(asked[2], 1), t)

\* A printed diff turns the old file into the new one, whatever the context and also when a file
\* is too long to be compared line by line (diff_unified).
DiffApplies ==
  asked[1] = "diff" =>
    \A new \in Files, context \in 1..2 :
      V!Apply(asked[2], V!Hunks(asked[2], new, context), 0) = new

\* A line of make's output is cut at `;`, `&&` and `||` where a shell would end a command, with
\* its quotes and backslashes, and each part has the words a shell gives it.  A single `&` or `|`
\* ends a command too, and is read over: LinesAsShell is false (read_shell_line, split_words).
LinesCut ==
  asked[1] = "shell" =>
    /\ C!Separators(asked[2]) = C!ShellEnds(asked[2]) \ C!Lone(asked[2])
    /\ C!Lone(asked[2]) = {} => C!Commands(asked[2]) = C!ShellCommands(asked[2])

\* The places at which a shell ends a command, all of them.
LinesAsShell == asked[1] = "shell" => C!Separators(asked[2]) = C!ShellEnds(asked[2])

\* The two passes over a command agree on which words are values: its source is the last that is
\* not, and every other word stays, in its place and meaning the same place, unless it is one
\* that molto chooses itself (read_command).
LinesRead ==
  asked[1] = "command" =>
    \A cwd \in {<<"/", "s">>, <<"/", "s", "sub">>} :
      LET words == asked[2]
          nasm == words[1].name = "nasm"
          own == (DOMAIN words \ {1}) \ C!Valued(words, nasm)
          sources == {i \in own : words[i].source}
          compiles == sources # {} /\ (nasm \/ \E i \in own : words[i].name = "-c")
          source == C!Max(sources)
          left == [i \in DOMAIN words |->
                    IF i \notin own \ {source} THEN <<>> ELSE C!Left(words, i, nasm, cwd, {})]
          read == C!ReadCommand(words, {"cc", "nasm"}, cwd, <<"/", "s">>, {})
      IN  IF ~compiles THEN read = <<>>
          ELSE IF cwd = <<"/", "s">> /\ words[source].value[1] = ".." THEN read = <<"refused">>
          ELSE read = <<C!Anchor(cwd, words[source].value), FlattenSeq(left)>>

\* And it is read in the directory that make is in, as long as no more are open than there is
\* room for (compile_lines_from_make).
LinesPlaced ==
  asked[1] = "make" /\ C!Nesting(asked[2]) < 3 =>
    \A n \in DOMAIN asked[2] : C!Directories("root", asked[2])[n] = C!Within("root", asked[2], n)

LinesAsMake == LinesCut /\ LinesRead /\ LinesPlaced

\* The four algorithms above mean what they are used for.
ValuesMean == SemverIsOrder /\ GlobMeans /\ DiffApplies /\ LinesAsMake
=============================================================================
