---------------------------- MODULE Algorithms -----------------------------
(***************************************************************************)
(* Three algorithms on values, each beside what it stands for: the order of *)
(* versions (util/semver.c), the match of a path against a pattern         *)
(* (util/glob.c) and the unified diff of two versions of a file            *)
(* (build/diff.c).                                                         *)
(***************************************************************************)
EXTENDS Integers, Sequences, FiniteSets, FiniteSetsExt, SequencesExt

CONSTANTS
  Letters,    \* identifier characters that are no digits, as numbers above 9
  MaxNumber,  \* the largest unsigned long
  Ascii,      \* the characters of a path or a pattern, in their order
  MaxLines    \* DIFF_MAX_LINES: above it a file is replaced as a whole

------------------------------------------------------------------------------
(* Versions.  A text is cut at its dots, its `-` and its `+`; a character is *)
(* its place in the order of characters, the digits first.  A number or an   *)
(* identifier is a sequence of them.                                         *)

Digits == 0..9
IsDigit(c) == c \in Digits
IsIdentifierChar(c) == IsDigit(c) \/ c \in Letters

Value(digits) == FoldLeft(LAMBDA value, d : value * 10 + d, 0, digits)

\* read_number: no leading zero, no overflow.
NumberOK(n) ==
  /\ n # <<>> /\ \A i \in DOMAIN n : IsDigit(n[i])
  /\ n[1] = 0 => Len(n) = 1
  /\ Value(n) <= MaxNumber

\* read_tag, which accepts a leading zero.
TagOK(tag) ==
  \A i \in DOMAIN tag : tag[i] # <<>> /\ \A j \in DOMAIN tag[i] : IsIdentifierChar(tag[i][j])

\* semver_parse; no tag is the empty sequence.
Parses(text) ==
  /\ Len(text.numbers) = 3 /\ \A i \in 1..3 : NumberOK(text.numbers[i])
  /\ TagOK(text.pre) /\ TagOK(text.build)

CompareNumbers(a, b) == IF a < b THEN -1 ELSE IF a > b THEN 1 ELSE 0

AllDigits(id) == id # <<>> /\ \A i \in DOMAIN id : IsDigit(id[i])

\* The first place where two sequences are apart, by a comparison; else the longer is greater.
CompareSeq(Compare1(_, _), a, b) ==
  LET shared == IF Len(a) < Len(b) THEN Len(a) ELSE Len(b)
      apart == {i \in 1..shared : Compare1(a[i], b[i]) # 0}
  IN  IF apart # {} THEN LET i == Min(apart) IN Compare1(a[i], b[i])
      ELSE CompareNumbers(Len(a), Len(b))

\* Slip: digits are compared as text.
CompareIdentifierText(a, b) ==
  IF AllDigits(a) # AllDigits(b) THEN IF AllDigits(a) THEN -1 ELSE 1
  ELSE CompareSeq(CompareNumbers, a, b)

CompareIdentifier(a, b) ==
  CASE AllDigits(a) # AllDigits(b) -> IF AllDigits(a) THEN -1 ELSE 1
    [] AllDigits(a) /\ AllDigits(b) /\ Len(a) # Len(b) -> CompareNumbers(Len(a), Len(b))
    [] OTHER -> CompareSeq(CompareNumbers, a, b)

ComparePrerelease(a, b) ==
  CASE a = <<>> /\ b = <<>> -> 0
    [] a = <<>> /\ b # <<>> -> 1
    [] a # <<>> /\ b = <<>> -> -1
    [] OTHER -> CompareSeq(CompareIdentifier, a, b)

\* semver_compare: what is built takes no part.
Compare(v, w) ==
  LET order == CompareSeq(LAMBDA m, n : CompareNumbers(Value(m), Value(n)), v.numbers, w.numbers)
  IN  IF order # 0 THEN order ELSE ComparePrerelease(v.pre, w.pre)

\* semver_highest: the first of the highest, by its place; 0 when nothing parses.
Highest(texts) ==
  FoldLeft(LAMBDA best, i : IF Parses(texts[i]) /\ (best = 0 \/ Compare(texts[i], texts[best]) > 0)
                              THEN i ELSE best,
           0, [i \in DOMAIN texts |-> i])

\* compare_newest_first
NewestFirst(v, w) ==
  IF Parses(v) /\ Parses(w) THEN -Compare(v, w)
  ELSE (IF Parses(v) THEN 0 ELSE 1) - (IF Parses(w) THEN 0 ELSE 1)

\* semver_sort_desc: any order qsort may leave, and how many versions lead it.
Sorted(texts) == \A i, j \in DOMAIN texts : i < j => NewestFirst(texts[i], texts[j]) <= 0
Leading(texts) ==
  Min({i - 1 : i \in {i \in DOMAIN texts : ~Parses(texts[i])}} \cup {Len(texts)})

\* The order as semver.org states it, item 11: each identifier has a rank, numbers below
\* words, numbers by their value.
IdentifierBelow(a, b) ==
  CASE AllDigits(a) /\ AllDigits(b) -> Value(a) < Value(b)
    [] AllDigits(a) /\ ~AllDigits(b) -> TRUE
    [] ~AllDigits(a) /\ AllDigits(b) -> FALSE
    [] OTHER -> a # b /\ (IsPrefix(a, b) \/ \E i \in DOMAIN a \cap DOMAIN b :
                            a[i] < b[i] /\ \A j \in 1..(i - 1) : a[j] = b[j])

PreBelow(a, b) ==
  \/ a # <<>> /\ b = <<>>
  \/ a # <<>> /\ a # b /\ IsPrefix(a, b)
  \/ \E i \in DOMAIN a \cap DOMAIN b :
       IdentifierBelow(a[i], b[i]) /\ \A j \in 1..(i - 1) : a[j] = b[j]

Below(v, w) ==
  \/ \E i \in 1..3 : /\ Value(v.numbers[i]) < Value(w.numbers[i])
                     /\ \A j \in 1..(i - 1) : Value(v.numbers[j]) = Value(w.numbers[j])
  \/ (\A i \in 1..3 : Value(v.numbers[i]) = Value(w.numbers[i])) /\ PreBelow(v.pre, w.pre)

NoLeadingZero(v) == \A i \in DOMAIN v.pre : AllDigits(v.pre[i]) /\ v.pre[i][1] = 0 => Len(v.pre[i]) = 1

------------------------------------------------------------------------------
(* Patterns: the loop that remembers the last star, and what a pattern means *)

Code(c) == CHOOSE i \in DOMAIN Ascii : Ascii[i] = c
Chars == {Ascii[i] : i \in DOMAIN Ascii}

\* The character at a place; nothing behind the end, as a string ends with 0.
At(s, i) == IF i \in DOMAIN s THEN s[i] ELSE "end"
Is(s, i, set) == At(s, i) \in set

\* bracket_end: the close of the bracket at i, or 0.
RECURSIVE CloseFrom(_, _)
CloseFrom(p, i) ==
  CASE i > Len(p) -> 0
    [] i <= Len(p) /\ p[i] = "]" -> i
    [] i < Len(p) /\ p[i] = "\\" -> CloseFrom(p, i + 2)
    [] OTHER -> CloseFrom(p, i + 1)

BracketEnd(p, i) ==
  LET inside == i + (IF Is(p, i + 1, {"!", "^"}) THEN 2 ELSE 1)
  IN  CloseFrom(p, IF At(p, inside) = "]" THEN inside + 1 ELSE inside)

\* bracket_holds, from place i to before the close: whether a member or a range has c.
RECURSIVE Members(_, _, _)
Members(p, i, close) ==
  IF i >= close THEN {}
  ELSE LET low == IF p[i] = "\\" /\ i + 1 < close THEN i + 1 ELSE i
           high == IF p[low + 2] = "\\" /\ low + 3 < close THEN low + 3 ELSE low + 2
       IN  IF low + 2 < close /\ p[low + 1] = "-"
             THEN {c \in Chars : Code(p[low]) <= Code(c) /\ Code(c) <= Code(p[high])}
                    \cup Members(p, high + 1, close)
             ELSE {p[low]} \cup Members(p, low + 1, close)

BracketHolds(p, i, close, c) ==
  IF Is(p, i + 1, {"!", "^"}) THEN c \notin Members(p, i + 2, close)
  ELSE c \in Members(p, i + 1, close)

\* item_matches: the place after the item when it matches, or 0.
Literal(p, i, c) ==
  LET at == IF p[i] = "\\" /\ i < Len(p) THEN i + 1 ELSE i
  IN  IF p[at] = c THEN at + 1 ELSE 0

ItemMatches(p, i, c) ==
  CASE i > Len(p) -> 0
    [] Is(p, i, {"?"}) -> i + 1
    [] Is(p, i, {"["}) /\ BracketEnd(p, i) # 0 ->
         IF BracketHolds(p, i, BracketEnd(p, i), c) THEN BracketEnd(p, i) + 1 ELSE 0
    [] OTHER -> Literal(p, i, c)

\* glob_match: p and t stand at i and j; star is the place after the last star, resume the
\* place of the text it was met at.
RECURSIVE Loop(_, _, _, _, _, _)
Loop(p, t, i, j, star, resume) ==
  CASE j > Len(t) -> \A k \in i..Len(p) : p[k] = "*"
    [] j <= Len(t) /\ At(p, i) = "*" -> Loop(p, t, i + 1, j, i + 1, j)
    [] j <= Len(t) /\ At(p, i) # "*" ->
         LET next == ItemMatches(p, i, t[j])
         IN  IF next # 0 THEN Loop(p, t, next, j + 1, star, resume)
             ELSE star # 0 /\ Loop(p, t, star, resume + 1, star, resume + 1)

GlobMatch(p, t) == Loop(p, t, 1, 1, 0, 0)

\* What a pattern means: a sequence of sets of characters and of stars.  A bracket that is
\* never closed is a character, as is a backslash at the end.

\* A bracket whose members begin at first is closed by the first close that is not its first
\* member and that no backslash escapes.
Escaped(p, first, k) ==
  (k - 1 - Max({m \in (first - 1)..(k - 1) : m < first \/ p[m] # "\\"})) % 2 = 1
Closes(p, first) == {k \in (first + 1)..Len(p) : p[k] = "]" /\ ~Escaped(p, first, k)}

One(set) == [star |-> FALSE, set |-> set]

RECURSIVE Items(_, _)
Items(p, i) ==
  LET negated == Is(p, i + 1, {"!", "^"})
      first == IF negated THEN i + 2 ELSE i + 1
      close == Min(Closes(p, first))
      set == Members(p, first, close)
  IN  CASE i > Len(p) -> <<>>
        [] Is(p, i, {"*"}) -> <<[star |-> TRUE, set |-> {}]>> \o Items(p, i + 1)
        [] Is(p, i, {"?"}) -> <<One(Chars)>> \o Items(p, i + 1)
        [] Is(p, i, {"\\"}) /\ i < Len(p) -> <<One({p[i + 1]})>> \o Items(p, i + 2)
        [] Is(p, i, {"["}) /\ Closes(p, first) # {} ->
             <<One(IF negated THEN Chars \ set ELSE set)>> \o Items(p, close + 1)
        [] OTHER -> <<One({p[i]})>> \o Items(p, i + 1)

RECURSIVE Denotes(_, _)
Denotes(items, t) ==
  CASE items = <<>> -> t = <<>>
    [] items # <<>> /\ items[1].star ->
         \E k \in 0..Len(t) : Denotes(Tail(items), SubSeq(t, k + 1, Len(t)))
    [] OTHER -> t # <<>> /\ t[1] \in items[1].set /\ Denotes(Tail(items), Tail(t))

------------------------------------------------------------------------------
(* Diffs.  A file is the sequence of its lines.  An operation is a kind and  *)
(* a line; a hunk is where it stands on each side and its operations.        *)

Ops(kind, lines) == [i \in DOMAIN lines |-> [kind |-> kind, line |-> lines[i]]]

\* The table of lcs_ops: the longest common subsequence of what follows i and j.
Table(old, new) ==
  LET t[i \in 1..(Len(old) + 1), j \in 1..(Len(new) + 1)] ==
        CASE i > Len(old) \/ j > Len(new) -> 0
          [] i <= Len(old) /\ j <= Len(new) /\ old[i] = new[j] -> t[i + 1, j + 1] + 1
          [] OTHER -> IF t[i + 1, j] > t[i, j + 1] THEN t[i + 1, j] ELSE t[i, j + 1]
  IN  t

LcsOps(old, new) ==
  LET t == Table(old, new)
      walk[i \in 1..(Len(old) + 1), j \in 1..(Len(new) + 1)] ==
        CASE i > Len(old) \/ j > Len(new) ->
               Ops("delete", SubSeq(old, i, Len(old))) \o Ops("add", SubSeq(new, j, Len(new)))
          [] i <= Len(old) /\ j <= Len(new) /\ old[i] = new[j] ->
               Ops("keep", <<old[i]>>) \o walk[i + 1, j + 1]
          [] OTHER -> IF t[i + 1, j] >= t[i, j + 1]
                        THEN Ops("delete", <<old[i]>>) \o walk[i + 1, j]
                        ELSE Ops("add", <<new[j]>>) \o walk[i, j + 1]
  IN  walk[1, 1]

WholesaleOps(old, new) == Ops("delete", old) \o Ops("add", new)

\* How far two sequences agree from their start.
Agreement(a, b) ==
  Max({n \in 0..Min({Len(a), Len(b)}) : SubSeq(a, 1, n) = SubSeq(b, 1, n)})

CommonSuffix(old, new, prefix) ==
  Agreement(Reverse(SubSeq(old, prefix + 1, Len(old))), Reverse(SubSeq(new, prefix + 1, Len(new))))

BuildOps(old, new) ==
  LET prefix == Agreement(old, new)
      suffix == CommonSuffix(old, new, prefix)
      a == SubSeq(old, prefix + 1, Len(old) - suffix)
      b == SubSeq(new, prefix + 1, Len(new) - suffix)
  IN  Ops("keep", SubSeq(old, 1, prefix))
        \o (IF Len(a) > MaxLines \/ Len(b) > MaxLines THEN WholesaleOps(a, b) ELSE LcsOps(a, b))
        \o Ops("keep", SubSeq(old, Len(old) - suffix + 1, Len(old)))

Changed(op) == op.kind # "keep"
OldLines(ops) == Len(SelectSeq(ops, LAMBDA op : op.kind # "add"))
NewLines(ops) == Len(SelectSeq(ops, LAMBDA op : op.kind # "delete"))

\* write_hunk: a side without lines starts at 0.
Hunk(ops, first, last) ==
  LET before == SubSeq(ops, 1, first - 1)
      shown == SubSeq(ops, first, last)
  IN  [oldStart |-> IF OldLines(shown) > 0 THEN OldLines(before) + 1 ELSE 0,
       newStart |-> IF NewLines(shown) > 0 THEN NewLines(before) + 1 ELSE 0,
       ops |-> shown]

\* The run of unchanged operations just before place i, or from place i on.
KeptBefore(ops, i) == Max({n \in 0..(i - 1) : \A k \in (i - n)..(i - 1) : ~Changed(ops[k])})
KeptFrom(ops, i) == Max({n \in 0..(Len(ops) - i + 1) : \A k \in i..(i + n - 1) : ~Changed(ops[k])})

\* The last change that is no more than twice the context from the one before.
RECURSIVE LastChange(_, _, _)
LastChange(ops, at, context) ==
  LET gap == KeptFrom(ops, at + 1)
  IN  IF gap > 2 * context \/ at + gap >= Len(ops) THEN at
      ELSE LastChange(ops, at + gap + 1, context)

\* write_hunks, from place at on.
RECURSIVE HunksFrom(_, _, _)
HunksFrom(ops, at, context) ==
  LET change == at + KeptFrom(ops, at)
      first == change - Min({KeptBefore(ops, change), context})
      last == LastChange(ops, change, context)
      end == last + Min({KeptFrom(ops, last + 1), context})
  IN  IF change > Len(ops) THEN <<>>
      ELSE <<Hunk(ops, first, end)>> \o HunksFrom(ops, end + 1, context)

Hunks(old, new, context) == HunksFrom(BuildOps(old, new), 1, context)

\* What a reader of the diff does: each hunk finds its lines where it says, in what no
\* hunk before it has used, and leaves its own.
Shows(hunk, kind) ==
  LET side == SelectSeq(hunk.ops, LAMBDA op : op.kind # kind) IN [i \in DOMAIN side |-> side[i].line]

RECURSIVE Apply(_, _, _)
Apply(old, hunks, used) ==
  IF hunks = <<>> THEN SubSeq(old, used + 1, Len(old))
  ELSE LET h == hunks[1]
           takes == Shows(h, "add")
           start == IF takes = <<>> THEN used + 1 ELSE h.oldStart
       IN  IF start <= used \/ SubSeq(old, start, start + Len(takes) - 1) # takes
             THEN <<"rejected">>
             ELSE SubSeq(old, used + 1, start - 1) \o Shows(h, "delete")
                    \o Apply(old, Tail(hunks), start + Len(takes) - 1)
==============================================================================
