-------------------------------- MODULE Toml ---------------------------------
(***************************************************************************)
(* A manifest as text and as a document (util/toml.c, util/doc.c).  The    *)
(* text is a sequence of lines, told apart as the parser tells them:       *)
(*   "blank"            nothing, or a comment                              *)
(*   "table", "array"   a header [name] or [[name]], the name a path       *)
(*   "key"              key = value; a list may stay open at its end       *)
(*   "more"             more elements of an open list, which it may close  *)
(*   "other"            what is none of these                              *)
(* The document is the flat list of entries the parser makes: a value, its *)
(* key, and the section it stands in.  Lengths and escapes are left out,   *)
(* and an inline table holds no other.                                     *)
(***************************************************************************)
EXTENDS Naturals, Sequences, FiniteSets, SequencesExt

CONSTANT MaxTableArrays   \* TOML_MAX_TABLE_ARRAYS

\* A step of a section's path: a name, with the number of the element when it is one of an array.
Plain(name) == <<name, 0>>
Nth(name, n) == <<name, n>>
Section(names) == [i \in DOMAIN names |-> Plain(names[i])]

Text(s) == [type |-> "string", is |-> s]

------------------------------------------------------------------------------
(* Reading                                                                   *)

\* How many elements the array at a path has so far (current_index).
Seen(counters, path) == IF path \in DOMAIN counters THEN counters[path] ELSE 0

\* A header's path: every ancestor that is an array stands for the element that is open, the
\* last name is the caller's to number (qualify_header).
QualifyHeader(counters, names) ==
  FoldLeft(LAMBDA path, i :
             LET next == Append(path, Plain(names[i]))
             IN  IF i < Len(names) THEN Append(path, Nth(names[i], Seen(counters, next))) ELSE next,
           <<>>, [i \in DOMAIN names |-> i])

Failed(s) == [s EXCEPT !.ok = FALSE]

\* [[name]]: one more element of its array (parse_table_array_header, next_table_array_index).
OpenElement(s, names) ==
  LET path == QualifyHeader(s.counters, names)
      n == Seen(s.counters, path) + 1
  IN  IF n = 1 /\ Cardinality(DOMAIN s.counters) >= MaxTableArrays THEN Failed(s)
      ELSE [s EXCEPT !.counters = [p \in DOMAIN @ \cup {path} |-> IF p = path THEN n ELSE @[p]],
                     !.section = Append(Front(path), Nth(Last(names), n))]

Entry(section, key, value) == [section |-> section, key |-> key, value |-> value]

\* An inline table is the section it could have been written as, and is not empty
\* (parse_inline_table).
Members(section, key, inside) ==
  [i \in DOMAIN inside |-> Entry(Append(section, Plain(key)), inside[i].key, inside[i].value)]

AddValue(s, line) ==
  CASE line.value.type = "inline" ->
         IF line.value.is = <<>> THEN Failed(s)
         ELSE [s EXCEPT !.entries = @ \o Members(s.section, line.key, line.value.is)]
    [] line.value.type = "array" ->
         [s EXCEPT !.entries = Append(@, Entry(s.section, line.key, [line.value EXCEPT !.open = FALSE])),
                   !.open = line.value.open]
    [] OTHER -> [s EXCEPT !.entries = Append(@, Entry(s.section, line.key, line.value))]

\* Inside an open list only elements may follow (gather_array_lines, parse_string_array).
Gather(s, line) ==
  CASE line.kind = "blank" -> s
    [] line.kind = "more" ->
         [s EXCEPT !.entries[Len(s.entries)].value.is = @ \o line.items, !.open = ~line.closed]
    [] OTHER -> Failed(s)

ReadLine(s, line) ==
  CASE ~s.ok -> s
    [] s.ok /\ s.open -> Gather(s, line)
    [] OTHER ->
         CASE line.kind = "blank" -> s
           [] line.kind = "table" -> [s EXCEPT !.section = QualifyHeader(s.counters, line.name)]
           [] line.kind = "array" -> OpenElement(s, line.name)
           [] line.kind = "key" -> AddValue(s, line)
           [] line.kind \in {"more", "other"} -> Failed(s)

Start == [ok |-> TRUE, open |-> FALSE, section |-> <<>>, counters |-> [p \in {} |-> 0], entries |-> <<>>]

\* The whole document or nothing (toml_parse).
Parse(lines) ==
  LET end == FoldLeft(ReadLine, Start, lines) IN [ok |-> end.ok /\ ~end.open, doc |-> end.entries]

------------------------------------------------------------------------------
(* Asking the document.  The first entry of a key is the one that counts.    *)

HasKey(doc, section, key) == \E i \in DOMAIN doc : doc[i].section = section /\ doc[i].key = key
HasSection(doc, section) == \E i \in DOMAIN doc : doc[i].section = section
ValueOf(doc, section, key) ==
  doc[SelectInSeq(doc, LAMBDA entry : entry.section = section /\ entry.key = key)].value

\* Absent, or of another type, is the same to who asks for a string (toml_get_string).
HasString(doc, section, key) == HasKey(doc, section, key) /\ ValueOf(doc, section, key).type = "string"
String(doc, section, key) == ValueOf(doc, section, key).is
StringOr(doc, section, key, default) == IF HasString(doc, section, key) THEN String(doc, section, key) ELSE default

\* A list that is not one is refused, an absent one is empty (doc_read_strings).
StringsOK(doc, section, key, max) ==
  ~HasKey(doc, section, key)
    \/ /\ ValueOf(doc, section, key).type = "array"
       /\ Len(ValueOf(doc, section, key).is) <= max
Strings(doc, section, key) == IF HasKey(doc, section, key) THEN ValueOf(doc, section, key).is ELSE <<>>

\* What an entry shows of a section: its key, or the table inside the section that it stands in;
\* an element of an array is not listed (immediate_child).
Shows(entry, section) ==
  IF entry.section = section THEN {entry.key}
  ELSE IF Len(entry.section) > Len(section) /\ IsPrefix(section, entry.section)
            /\ entry.section[Len(section) + 1][2] = 0
       THEN {entry.section[Len(section) + 1][1]}
       ELSE {}

\* The members of a section, once each, in the order in which they were first written
\* (toml_section_members).
SectionMembers(doc, section) ==
  FoldLeft(LAMBDA listed, entry :
             listed \o SetToSeq(Shows(entry, section) \ ToSet(listed)),
           <<>>, doc)

\* The elements of an array are numbered without a gap, so the first without an entry ends it
\* (toml_table_array_count).
TableArrayCount(doc, names) ==
  LET has == {n \in 1..Len(doc) : HasSection(doc, Append(Section(Front(names)), Nth(Last(names), n)))}
  IN  Cardinality({n \in has : 1..n \subseteq has})
=============================================================================
