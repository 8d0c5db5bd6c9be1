---------------------------- MODULE CompileLines -----------------------------
(***************************************************************************)
(* What a configured build says it compiles (services/compile_lines.c):    *)
(* the output of `make -n`, or CMake's database, cut into commands and     *)
(* words, and the compile lines among them.  Texts are sequences of        *)
(* characters, paths of segments.  A word of a command is an option and    *)
(* what is joined to it, or a "file" and its path.                         *)
(***************************************************************************)
EXTENDS Integers, Sequences, FiniteSets, FiniteSetsExt, SequencesExt

CONSTANT MaxDepth   \* room for the directories a recursive make has entered: 16

Blank == " "
Single == "'"
Double == "double quote"
Backslash == "backslash"
Escapable == {Double, Backslash, "$", "backtick"}

\* Where a text ends a quotation that is open at i: the place of the closing mark, or
\* behind the text.
RECURSIVE CloseQuote(_, _, _, _)
CloseQuote(text, i, mark, escapes) ==
  CASE i > Len(text) -> i
    [] i <= Len(text) /\ text[i] = mark -> i
    [] i < Len(text) /\ mark = Double /\ text[i] = Backslash /\ text[i + 1] \in escapes ->
         CloseQuote(text, i + 2, mark, escapes)
    [] OTHER -> CloseQuote(text, i + 1, mark, escapes)

\* A quotation without the backslashes that escaped something.
RECURSIVE Unescaped(_, _)
Unescaped(inner, escapes) ==
  CASE inner = <<>> -> <<>>
    [] Len(inner) > 1 /\ inner[1] = Backslash /\ inner[2] \in escapes ->
         <<inner[2]>> \o Unescaped(SubSeq(inner, 3, Len(inner)), escapes)
    [] OTHER -> <<inner[1]>> \o Unescaped(Tail(inner), escapes)

\* split_words: from place i on, with a word begun or not.
RECURSIVE Words(_, _, _, _, _)
Words(text, i, word, begun, windows) ==
  LET escapes == IF windows THEN {Double} ELSE Escapable
      done == IF begun THEN <<word>> ELSE <<>>
  IN  CASE i > Len(text) -> done
        [] i <= Len(text) /\ text[i] = Blank -> done \o Words(text, i + 1, <<>>, FALSE, windows)
        [] i <= Len(text) /\ text[i] = Single /\ ~windows ->
             LET close == CloseQuote(text, i + 1, Single, {})
             IN  Words(text, close + 1, word \o SubSeq(text, i + 1, close - 1), TRUE, windows)
        [] i <= Len(text) /\ text[i] = Double ->
             LET close == CloseQuote(text, i + 1, Double, escapes)
             IN  Words(text, close + 1,
                       word \o Unescaped(SubSeq(text, i + 1, close - 1), escapes), TRUE, windows)
        [] i < Len(text) /\ text[i] = Backslash /\ (~windows \/ text[i + 1] = Double) ->
             Words(text, i + 2, Append(word, text[i + 1]), TRUE, windows)
        [] OTHER -> Words(text, i + 1, Append(word, text[i]), TRUE, windows)

Split(text) == Words(text, 1, <<>>, FALSE, FALSE)

\* read_shell_line: the places where a command ends, its own reading of the quotes.
RECURSIVE SeparatorsFrom(_, _)
SeparatorsFrom(text, i) ==
  CASE i > Len(text) -> {}
    [] i <= Len(text) /\ text[i] \in {Single, Double} ->
         SeparatorsFrom(text, CloseQuote(text, i + 1, text[i], {text[k] : k \in DOMAIN text}) + 1)
    [] i < Len(text) /\ text[i] = Backslash -> SeparatorsFrom(text, i + 2)
    [] i <= Len(text) /\ text[i] = ";" -> {i} \cup SeparatorsFrom(text, i + 1)
    [] i < Len(text) /\ text[i] \in {"&", "|"} /\ text[i + 1] = text[i] ->
         {i} \cup SeparatorsFrom(text, i + 2)
    [] OTHER -> SeparatorsFrom(text, i + 1)

Separators(text) == SeparatorsFrom(text, 1)

\* The commands of a shell line, each as its words.
Commands(text) ==
  LET ends == SetToSortSeq(Separators(text), <) \o <<Len(text) + 1>>
      Begin(k) == IF k = 1 THEN 1 ELSE ends[k - 1] + (IF text[ends[k - 1]] = ";" THEN 1 ELSE 2)
  IN  [k \in DOMAIN ends |-> Split(SubSeq(text, Begin(k), ends[k] - 1))]

------------------------------------------------------------------------------
(* Paths                                                                     *)

\* fold_dots
FoldDots(path) ==
  FoldLeft(LAMBDA kept, s : CASE s = "." -> kept
                              [] s = ".." /\ kept # <<>> /\ Last(kept) # ".." -> Front(kept)
                              [] OTHER -> Append(kept, s),
           <<>>, path)

\* anchor: absolute paths begin with the root of the file system.
Anchor(cwd, path) ==
  LET full == IF path # <<>> /\ path[1] = "/" THEN path ELSE cwd \o path IN FoldDots(full)

\* inside: below root, and not by climbing.
Inside(root, absolute) ==
  /\ IsStrictPrefix(root, absolute)
  /\ absolute[Len(root) + 1] # ".."

------------------------------------------------------------------------------
(* One command                                                               *)

DropWithValue(nasm) == {"-o", "-MF"} \cup (IF nasm THEN {"-MD"} ELSE {})
DropAlone == {"-c", "-MD", "-MM"}
PathOptions(nasm) == IF nasm THEN {"-I", "-P"} ELSE {"-I", "-include"}
PreIncludes == {"-include", "-P"}

Alone(w) == w.value = <<>>
TextOf(w) == IF w.name = "file" THEN w.value ELSE <<w.name>> \o w.value
TakesNext(w, nasm) == Alone(w) /\ w.name \in DropWithValue(nasm) \cup PathOptions(nasm)

\* The places the first loop of read_command looks at: behind an option with a value it
\* steps over the value.
RECURSIVE Looked(_, _, _)
Looked(words, i, nasm) ==
  IF i > Len(words) THEN {}
  ELSE {i} \cup Looked(words, IF TakesNext(words[i], nasm) THEN i + 2 ELSE i + 1, nasm)

Input(words, nasm) ==
  Max({i \in Looked(words, 2, nasm) : words[i].name = "file" /\ words[i].source} \cup {0})

\* A path option's value in the directory of the line; a preincluded file that is not there
\* is looked for on the include path.
Anchored(name, value, cwd, files) ==
  LET path == Anchor(cwd, value)
  IN  IF name \in PreIncludes /\ path \notin files THEN value ELSE path

\* The second loop of read_command.
RECURSIVE Args(_, _, _, _, _, _)
Args(words, i, input, nasm, cwd, files) ==
  LET Rest(j) == Args(words, j, input, nasm, cwd, files)
      w == words[i]
  IN  CASE i > Len(words) -> <<>>
        [] i <= Len(words) /\ i = input -> Rest(i + 1)
        [] i <= Len(words) /\ i # input /\ Alone(w) /\ w.name \in DropWithValue(nasm) -> Rest(i + 2)
        [] i <= Len(words) /\ i # input /\ Alone(w) /\ w.name \in DropAlone \ DropWithValue(nasm) ->
             Rest(i + 1)
        [] i < Len(words) /\ i # input /\ Alone(w) /\ w.name \in PathOptions(nasm) ->
             <<<<w.name, Anchored(w.name, TextOf(words[i + 1]), cwd, files)>>>> \o Rest(i + 2)
        [] i <= Len(words) /\ i # input /\ ~Alone(w) /\ w.name \in PathOptions(nasm) ->
             <<<<w.name, Anchored(w.name, w.value, cwd, files)>>>> \o Rest(i + 1)
        [] OTHER -> <<<<w.name, w.value>>>> \o Rest(i + 1)

\* read_command: no line, a refusal, or the source and what it is compiled with.
ReadCommand(words, drivers, cwd, root, files) ==
  LET program == words[1].name
      nasm == program = "nasm"
      input == Input(words, nasm)
      path == Anchor(cwd, words[input].value)
  IN  CASE Len(words) < 2 \/ program \notin drivers -> <<>>
        [] input = 0 \/ ~(nasm \/ \E i \in Looked(words, 2, nasm) : words[i].name = "-c") -> <<>>
        [] ~Inside(root, path) -> <<"refused">>
        [] OTHER -> <<path, Args(words, 2, input, nasm, cwd, files)>>

------------------------------------------------------------------------------
(* The directories of a recursive make                                       *)

Leave(stack) == IF Len(stack) > 1 THEN Front(stack) ELSE stack
Enter(stack, dir) == IF Len(stack) < MaxDepth THEN Append(stack, dir) ELSE stack

\* compile_lines_from_make: the directory in which each line is read.
Directories(root, lines) ==
  LET after[n \in 0..Len(lines)] ==
        IF n = 0 THEN <<root>>
        ELSE CASE lines[n].kind = "enter" -> Enter(after[n - 1], lines[n].dir)
               [] lines[n].kind = "leave" -> Leave(after[n - 1])
               [] OTHER -> after[n - 1]
  IN  [n \in DOMAIN lines |-> Last(after[n])]

------------------------------------------------------------------------------
(* What they should be                                                       *)

\* One reading of a shell line: a character stands for itself, is a mark that quotes, or is
\* "plain", and then a blank or an operator is one.
Meaning(text) ==
  LET mode[i \in 0..Len(text)] ==      \* the mode behind character i
        IF i = 0 THEN "plain"
        ELSE CASE mode[i - 1] = "plain" ->
                    (CASE text[i] = Single -> "single" [] text[i] = Double -> "double"
                       [] text[i] = Backslash /\ i < Len(text) -> "escape" [] OTHER -> "plain")
               [] mode[i - 1] = "single" -> IF text[i] = Single THEN "plain" ELSE "single"
               [] mode[i - 1] = "double" ->
                    (CASE text[i] = Double -> "plain"
                       [] text[i] = Backslash /\ i < Len(text) /\ text[i + 1] \in Escapable -> "doubleEscape"
                       [] OTHER -> "double")
               [] mode[i - 1] = "doubleEscape" -> "double"
               [] OTHER -> "plain"
  IN  [i \in DOMAIN text |->
        IF mode[i - 1] \in {"plain", "single", "double"} /\ mode[i] # mode[i - 1] THEN "mark"
        ELSE IF mode[i - 1] = "plain" THEN "plain" ELSE "itself"]

\* The operators at which a shell ends a command: of a run of them, two by two.
Doubled(text, i) == i < Len(text) /\ text[i] \in {"&", "|"} /\ text[i + 1] = text[i]
ShellEnds(text) ==
  LET meaning == Meaning(text)
      Run(i) == {k \in 1..(i - 1) : \A m \in k..(i - 1) : text[m] = text[i] /\ meaning[m] = "plain"}
  IN  {i \in DOMAIN text : /\ meaning[i] = "plain"
                            /\ \/ text[i] = ";"
                               \/ text[i] \in {"&", "|"} /\ Cardinality(Run(i)) % 2 = 0}

\* Those that put a command behind, or into a pipe.
Lone(text) == {i \in ShellEnds(text) : text[i] # ";" /\ ~Doubled(text, i)}

\* The words from place a to place b.
ShellWords(text, a, b) ==
  LET meaning == Meaning(text)
      Gap(i) == text[i] = Blank /\ meaning[i] = "plain"
      starts == SetToSortSeq({i \in a..b : ~Gap(i) /\ (i = a \/ Gap(i - 1))}, <)
      Of(i) == {j \in i..b : meaning[j] # "mark" /\ \A k \in i..j : ~Gap(k)}
  IN  [n \in DOMAIN starts |-> LET kept == SetToSortSeq(Of(starts[n]), <) IN [m \in DOMAIN kept |-> text[kept[m]]]]

ShellCommands(text) ==
  LET ends == SetToSortSeq(ShellEnds(text), <)
      Begin(n) == IF n = 1 THEN 1 ELSE ends[n - 1] + (IF Doubled(text, ends[n - 1]) THEN 2 ELSE 1)
  IN  [n \in 1..(Len(ends) + 1) |->
        ShellWords(text, Begin(n), IF n > Len(ends) THEN Len(text) ELSE ends[n] - 1)]

\* The words of a command that are the value of the one before, and what each other one leaves
\* of itself in the compile line.
Valued(words, nasm) ==
  LET value[i \in DOMAIN words] == i > 2 /\ ~value[i - 1] /\ TakesNext(words[i - 1], nasm)
  IN  {i \in DOMAIN words : value[i]}

Left(words, i, nasm, cwd, files) ==
  LET w == words[i] IN
  CASE ~Alone(w) /\ w.name \in PathOptions(nasm) -> <<<<w.name, Anchored(w.name, w.value, cwd, files)>>>>
    [] Alone(w) /\ w.name \in PathOptions(nasm) /\ i < Len(words) ->
         <<<<w.name, Anchored(w.name, TextOf(words[i + 1]), cwd, files)>>>>
    [] Alone(w) /\ w.name \in DropWithValue(nasm) \cup DropAlone -> <<>>
    [] OTHER -> <<<<w.name, w.value>>>>

\* The directory make is in: the last one that was entered and not left since.
Open(lines, n) ==
  {i \in 1..n : lines[i].kind = "enter" /\
     \A j \in i..n : Cardinality({k \in i..j : lines[k].kind = "enter"})
                       > Cardinality({k \in i..j : lines[k].kind = "leave"})}

Within(root, lines, n) ==
  IF Open(lines, n) = {} THEN root ELSE lines[Max(Open(lines, n))].dir

Nesting(lines) == Max({Cardinality(Open(lines, n)) : n \in 0..Len(lines)})
=============================================================================
