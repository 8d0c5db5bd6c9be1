------------------------------ MODULE Manifest -------------------------------
(***************************************************************************)
(* What a project's manifest says, as far as its dependencies, tests and   *)
(* refusals go (project/project_ctx.c, project/project_deps.c).  Options,  *)
(* the environment and what describes a package are left out.              *)
(***************************************************************************)
EXTENDS Toml

CONSTANTS
  Names,         \* what may name a package (manifest_is_valid_name)
  Exact,         \* what is one version and no range (manifest_is_exact_version)
  Digests,       \* what is a sha256 in lowercase hexadecimal
  MaxDeps, MaxRegistries, MaxIsolated, MaxReplaces   \* PROJECT_MAX_...

DepsTables == {"deps", "dev-deps"}
Oses == {"linux", "macos", "windows"}
DepSources == {"version", "git", "path", "archive"}
DepGitRefs == {"branch", "tag", "rev"}
DepSupportedKeys == {"registry", "sha256", "strip_prefix", "os"}
PackageKeys ==
  {"name", "version", "artifact", "description", "license", "homepage", "repository", "authors", "files"}
InterfaceKeys == {"include", "defines", "flags", "link", "entry"}

------------------------------------------------------------------------------
(* One dependency                                                            *)

Given(doc, section, keys) == {k \in keys : HasString(doc, section, k)}

\* Whatever is not known is refused, what is planned and not implemented too (check_keys).
CheckKeys(doc, section) ==
  ToSet(SectionMembers(doc, section)) \subseteq DepSources \cup DepGitRefs \cup DepSupportedKeys

ReadVersion(version) == version \in Exact

ReadSourceKey(doc, section) ==
  /\ Cardinality(Given(doc, section, DepSources)) = 1
  /\ HasString(doc, section, "version") => ReadVersion(String(doc, section, "version"))

ReadGitRef(doc, section) ==
  /\ Cardinality(Given(doc, section, DepGitRefs)) <= 1
  /\ Given(doc, section, DepGitRefs) # {} => HasString(doc, section, "git")

ReadOs(doc, section) ==
  HasKey(doc, section, "os") =>
    /\ StringsOK(doc, section, "os", 3)
    /\ Strings(doc, section, "os") # <<>>
    /\ ToSet(Strings(doc, section, "os")) \subseteq Oses

\* An archive is verified against something, and a digest is one (source_spec_validate); a
\* version's digest is not looked at.
ToSource(doc, section) ==
  HasString(doc, section, "version")
    \/ /\ HasString(doc, section, "archive") => StringOr(doc, section, "sha256", "") # ""
       /\ StringOr(doc, section, "sha256", "") \in Digests \cup {""}

ReadTable(doc, section) ==
  /\ CheckKeys(doc, section) /\ ReadSourceKey(doc, section) /\ ReadGitRef(doc, section)
  /\ ReadOs(doc, section) /\ ToSource(doc, section)

DepOf(doc, section, name) ==
  LET source == CHOOSE k \in Given(doc, section, DepSources) : TRUE
      refs == Given(doc, section, DepGitRefs)
  IN  [name |-> name, source |-> source, at |-> String(doc, section, source),
       ref |-> {<<k, String(doc, section, k)>> : k \in refs},
       os |-> ToSet(Strings(doc, section, "os")),
       registry |-> StringOr(doc, section, "registry", ""),
       sha256 |-> StringOr(doc, section, "sha256", "")]

Shorthand(name, version) ==
  [name |-> name, source |-> "version", at |-> version, ref |-> {}, os |-> {}, registry |-> "", sha256 |-> ""]

\* A table wins over a value of the same name (read_one).
LongForm(doc, table, name) == HasSection(doc, Section(<<table, name>>))

ReadOneOK(doc, table, name) ==
  /\ name \in Names
  /\ IF LongForm(doc, table, name) THEN ReadTable(doc, Section(<<table, name>>))
     ELSE HasString(doc, Section(<<table>>), name) /\ ReadVersion(String(doc, Section(<<table>>), name))
ReadOne(doc, table, name) ==
  IF LongForm(doc, table, name) THEN DepOf(doc, Section(<<table, name>>), name)
  ELSE Shorthand(name, String(doc, Section(<<table>>), name))

ReadDepsOK(doc, table) ==
  LET names == SectionMembers(doc, Section(<<table>>))
  IN  Len(names) <= MaxDeps /\ \A i \in DOMAIN names : ReadOneOK(doc, table, names[i])
ReadDeps(doc, table) ==
  LET names == SectionMembers(doc, Section(<<table>>))
  IN  [i \in DOMAIN names |-> ReadOne(doc, table, names[i])]

------------------------------------------------------------------------------
(* Registries                                                                *)

Registries == Section(<<"registries">>)
RegistryEntries(doc) == {i \in DOMAIN doc : doc[i].section = Registries}
RegistriesOK(doc) ==
  /\ Cardinality(RegistryEntries(doc)) <= MaxRegistries
  /\ \A i \in RegistryEntries(doc) : HasString(doc, Registries, doc[i].key)

\* A registry that is not declared is an error, never the official one
\* (project_deps_check_registries).
CheckRegistries(doc, deps) ==
  \A i \in DOMAIN deps : deps[i].registry # "" => HasKey(doc, Registries, deps[i].registry)

------------------------------------------------------------------------------
(* Isolated tests.  A path is a sequence of names; what a test replaces is a *)
(* path of the project, of a dependency, or a dependency.                    *)

Isolated(doc) ==
  [i \in 1..TableArrayCount(doc, <<"test", "isolated">>) |->
     LET at == <<Plain("test"), Nth("isolated", i)>>
     IN  [file |-> StringOr(doc, at, "file", <<>>), replaces |-> Strings(doc, at, "replaces"),
          ok |-> StringsOK(doc, at, "replaces", MaxReplaces)]]

WellFormed(replaced) == replaced.dep # "" \/ replaced.path # <<>>

ReadIsolatedOK(doc) ==
  LET tests == Isolated(doc)
  IN  /\ Len(tests) <= MaxIsolated
      /\ \A i \in DOMAIN tests :
           /\ tests[i].ok /\ Len(tests[i].file) > 1 /\ tests[i].file[1] = "tests"
           /\ \A j \in 1..i - 1 : tests[j].file # tests[i].file
           /\ tests[i].replaces # <<>>
           /\ \A k \in DOMAIN tests[i].replaces : WellFormed(tests[i].replaces[k])

------------------------------------------------------------------------------
(* The manifest                                                              *)

Package == Section(<<"package">>)

CheckPackageKeys(doc) == ToSet(SectionMembers(doc, Package)) \subseteq PackageKeys
CheckInterfaceKeys(doc) == ToSet(SectionMembers(doc, Section(<<"interface">>))) \subseteq InterfaceKeys

\* What is bound to a field has the field's type (toml_bind).
Bound(doc, table, key, type) ==
  HasKey(doc, Section(table), key) => ValueOf(doc, Section(table), key).type = type
CheckTypes(doc) ==
  /\ \A key \in {"name", "version"} : Bound(doc, <<"package">>, key, "string")
  /\ Bound(doc, <<"interface">>, "entry", "string")
  /\ \A key \in {"compiler", "std", "cpp_std"} : Bound(doc, <<"target">>, key, "string")
  /\ \A profile \in {"debug", "release", "bench", "custom", "coverage"} :
       /\ Bound(doc, <<"profile", profile>>, "opt_level", "int")
       /\ Bound(doc, <<"profile", profile>>, "debug_info", "bool")

\* A package of sources is a recipe's business and not something to build.
ArtifactOK(doc) ==
  HasString(doc, Package, "artifact") => String(doc, Package, "artifact") \in {"executable", "static", "shared"}
CompilerOK(doc) ==
  HasString(doc, Section(<<"target">>), "compiler") =>
    String(doc, Section(<<"target">>), "compiler") \in {"", "gcc", "g++", "clang", "llvm", "msvc"}
TestModeOK(doc) ==
  HasString(doc, Section(<<"test">>), "mode") => String(doc, Section(<<"test">>), "mode") \in {"per_file", "single"}

Says(doc) ==
  [deps |-> [table \in DepsTables |-> ReadDeps(doc, table)], isolated |-> Isolated(doc),
   mode |-> StringOr(doc, Section(<<"test">>), "mode", "per_file"),
   artifact |-> StringOr(doc, Package, "artifact", "executable")]

AcceptsOwn(doc) ==
  /\ CheckPackageKeys(doc) /\ CheckTypes(doc) /\ ArtifactOK(doc) /\ CompilerOK(doc)
  /\ TestModeOK(doc) /\ ReadIsolatedOK(doc) /\ CheckInterfaceKeys(doc)
  /\ RegistriesOK(doc)
  /\ \A table \in DepsTables : ReadDepsOK(doc, table) /\ CheckRegistries(doc, ReadDeps(doc, table))
  /\ HasString(doc, Package, "name") /\ String(doc, Package, "name") \in Names

\* Whether the text is a manifest, and what it says (project_parse).
Accepts(lines) == LET read == Parse(lines) IN read.ok /\ AcceptsOwn(read.doc)
Project(lines) == Says(Parse(lines).doc)

------------------------------------------------------------------------------
(* molto add and molto remove, which edit the lines of the manifest and not  *)
(* what it says (project/manifest_edit.c).  Every line has a note, its       *)
(* comment or "".  A text is ended when its last line has a newline.         *)

\* [[name]] is no header to whoever edits (read_header).
IsHeader(line) == line.kind = "table"
IsKey(line, key) == line.kind = "key" /\ line.key = key
IsSubtable(line, table, name) == IsHeader(line) /\ line.name = <<table, name>>

First(set) == CHOOSE i \in set : \A j \in set : i <= j
Headers(lines) == {i \in DOMAIN lines : IsHeader(lines[i])}

\* The table the editor takes a line to stand in: that of the last header above it.
TableAt(lines, i) ==
  LET above == {j \in Headers(lines) : j <= i}
  IN  IF above = {} THEN <<>> ELSE lines[CHOOSE j \in above : \A k \in above : k <= j].name

\* The first mention of the name, in either form, decides which table holds it
\* (manifest_find_dep).
Mentions(lines, name) ==
  {i \in DOMAIN lines : \E table \in DepsTables :
     IsSubtable(lines[i], table, name) \/ (IsKey(lines[i], name) /\ TableAt(lines, i) = <<table>>)}
FindDep(lines, name) ==
  IF Mentions(lines, name) = {} THEN "" ELSE TableAt(lines, First(Mentions(lines, name)))[1]

Entries(lines, table, name) ==
  {i \in DOMAIN lines : IsKey(lines[i], name) /\ TableAt(lines, i) = <<table>>}

HasTable(lines, table) == \E i \in Headers(lines) : lines[i].name = <<table>>

\* Slip: the search for the end of the table goes on into the tables behind it.
FindLastKey(lines, table) ==
  LET keys == {i \in DOMAIN lines : lines[i].kind = "key"} IN CHOOSE i \in keys : \A j \in keys : j <= i

\* After the last key of the first such table (find_table_end).
FindTableEnd(lines, table) ==
  LET header == First({i \in Headers(lines) : lines[i].name = <<table>>})
      inside == {i \in header..Len(lines) : \A j \in Headers(lines) : j <= header \/ i < j}
      keys == {i \in inside : lines[i].kind = "key"} \cup {header}
  IN  CHOOSE i \in keys : \A j \in keys : j <= i

\* A header and everything under it (find_subtable).
FindSubtable(lines, name) ==
  LET header == First({i \in DOMAIN lines : \E table \in DepsTables : IsSubtable(lines[i], table, name)})
      behind == {i \in Headers(lines) : i > header}
  IN  <<header, IF behind = {} THEN Len(lines) ELSE First(behind) - 1>>

Blank == [kind |-> "blank", note |-> ""]
KeyLine(name, value, note) == [kind |-> "key", key |-> name, value |-> value, note |-> note]

\* What is glued to a line is in its comment, or leaves a line that says nothing.
Glued(line, entry) ==
  IF line.note = "" THEN [kind |-> "other", note |-> ""] ELSE [line EXCEPT !.note = @ \o entry.key]

\* One entry, where it stands with its comment, at the end of its table, or in a new table at the
\* end.  Only the new table sees to it that the line above is ended, by a newline behind it: a
\* text need not be (manifest_add_dep).
Added(lines, ended, table, name, value) ==
  LET found == Entries(lines, table, name)
      entry == KeyLine(name, value, "")
      last == FindTableEnd(lines, table)
  IN  IF found # {} THEN [lines EXCEPT ![First(found)] = KeyLine(name, value, lines[First(found)].note)]
      ELSE IF ~HasTable(lines, table)
      THEN lines \o <<Blank, [kind |-> "table", name |-> <<table>>, note |-> ""], entry>>
      ELSE IF ended \/ last < Len(lines) THEN InsertAt(lines, last + 1, entry)
      ELSE [lines EXCEPT ![last] = Glued(lines[last], entry)]

Without(lines, from, to) == SubSeq(lines, 1, from - 1) \o SubSeq(lines, to + 1, Len(lines))
Removed(lines, name) ==
  LET table == FindDep(lines, name)
      found == Entries(lines, table, name)
      sub == FindSubtable(lines, name)
  IN  IF found # {} THEN Without(lines, First(found), First(found)) ELSE Without(lines, sub[1], sub[2])

\* Parsed before it replaces the original (write_checked).
Refused(lines) == [ok |-> FALSE, lines |-> lines]
WriteChecked(lines, edited) == IF Accepts(edited) THEN [ok |-> TRUE, lines |-> edited] ELSE Refused(lines)

AddDep(lines, ended, table, name, value) ==
  IF FindDep(lines, name) \notin {"", table} THEN Refused(lines)
  ELSE WriteChecked(lines, Added(lines, ended, table, name, value))

RemoveDep(lines, name) ==
  IF FindDep(lines, name) = "" THEN Refused(lines)
  ELSE WriteChecked(lines, Removed(lines, name))

\* What an added dependency says: a version, or a table when there is more to say
\* (compose_value).
ComposeValue(version, source, at, registry) ==
  LET Inline(pairs) == [type |-> "inline", is |-> pairs]
      Pair(key, text) == [key |-> key, value |-> Text(text)]
  IN  CASE source = "" /\ registry = "" -> Text(version)
        [] source = "" /\ registry # "" -> Inline(<<Pair("version", version), Pair("registry", registry)>>)
        [] source # "" /\ version = "" -> Inline(<<Pair(source, at)>>)
        [] OTHER -> Inline(<<Pair(source, at), Pair("tag", version)>>)
==============================================================================
