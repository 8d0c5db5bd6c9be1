------------------------------- MODULE Recipe --------------------------------
(***************************************************************************)
(* What a published recipe says (services/recipe_service.c).  A recipe is  *)
(* a set of tables and the keys in them; a value is a text, a list of      *)
(* texts, or a number.  A reader answers whether it accepts what is there; *)
(* the first refusal ends the reading.                                     *)
(***************************************************************************)
EXTENDS Naturals, Sequences, FiniteSets, SequencesExt

CONSTANTS
  SchemaMax,    \* the newest schema this molto reads: 5
  CStandards, CppStandards,
  Room          \* [key -> how many entries the list under it may hold]

ASSUME SchemaAssumption == SchemaMax \in Nat

\* The schema that brought each table.
SchemaPlugin == 2
SchemaPlatform == 3
SchemaPerOs == 4
SchemaBuildSources == 5

OsNames == {"linux", "macos", "windows"}
Systems == {"none", "make", "cmake", "autotools", "meson"}

Text(text) == [type |-> "string", text |-> text]
List(items) == [type |-> "list", items |-> items]
Number(n) == [type |-> "integer", n |-> n]

HasTable(doc, table) == table \in doc.tables
HasKey(doc, table, key) == <<table, key>> \in DOMAIN doc.keys
At(doc, table, key) == doc.keys[<<table, key>>]
IsA(doc, table, key, type) == HasKey(doc, table, key) /\ At(doc, table, key).type = type
Says(doc, table, key, text) == IsA(doc, table, key, "string") /\ At(doc, table, key).text = text

\* A key that may be absent, and is a text of a set when it is there.
Optional(doc, table, key) == HasKey(doc, table, key) => IsA(doc, table, key, "string")
OneOf(doc, table, key, texts) ==
  HasKey(doc, table, key) => \E text \in texts : Says(doc, table, key, text)

\* doc_read_strings
StringsOK(doc, table, key) ==
  HasKey(doc, table, key) =>
    IsA(doc, table, key, "list") /\ Len(At(doc, table, key).items) <= Room[key]
Strings(doc, table, key) == IF HasKey(doc, table, key) THEN At(doc, table, key).items ELSE <<>>

------------------------------------------------------------------------------
(* The coordinate                                                            *)

Schema(doc) == IF IsA(doc, "", "schema", "integer") THEN At(doc, "", "schema").n ELSE 1
SchemaOK(doc) ==
  /\ HasKey(doc, "", "schema") => IsA(doc, "", "schema", "integer")
  /\ Schema(doc) \in 1..SchemaMax

FormOK(doc) == OneOf(doc, "", "form", {"binary", "source", "platform"})
Form(doc) == IF HasKey(doc, "", "form") THEN At(doc, "", "form").text ELSE "binary"

Required(doc) == \A key \in {"kind", "name", "version", "target"} : IsA(doc, "", key, "string")

CoordinateOK(doc) ==
  /\ SchemaOK(doc) /\ FormOK(doc) /\ Required(doc)
  /\ Form(doc) = "platform" => Schema(doc) >= SchemaPlatform /\ Says(doc, "", "kind", "package")

------------------------------------------------------------------------------
(* [artifacts]                                                               *)

Os(os) == "artifacts." \o os
PrivateOs(os) == "artifacts.private." \o os

HasOs(doc, os) == HasTable(doc, Os(os)) \/ HasTable(doc, PrivateOs(os))

TypeOfArtifactOK(doc) == OneOf(doc, "artifacts", "type", {"source", "static", "shared"})
StdOK(doc) ==
  OneOf(doc, "artifacts", "std", CStandards) /\ OneOf(doc, "artifacts", "cpp_std", CppStandards)

OptionsOK(doc, table) == \A key \in {"defines", "include", "flags"} : StringsOK(doc, table, key)
ListsOK(doc, table) == \A key \in {"sources", "exclude", "link"} : StringsOK(doc, table, key)

OsTableOK(doc, os) == ListsOK(doc, Os(os)) /\ OptionsOK(doc, Os(os)) /\ OptionsOK(doc, PrivateOs(os))

PerOsOK(doc) ==
  \A os \in OsNames : HasOs(doc, os) =>
    /\ SchemaOK(doc) /\ Schema(doc) >= SchemaPerOs
    /\ OsTableOK(doc, os)
    /\ Strings(doc, Os(os), "sources") # <<>> => Strings(doc, "artifacts", "sources") # <<>>

HasAnyTable(doc) ==
  HasTable(doc, "artifacts") \/ HasTable(doc, "artifacts.private") \/ \E os \in OsNames : HasOs(doc, os)

ArtifactsOK(doc) ==
  HasAnyTable(doc) =>
    /\ TypeOfArtifactOK(doc) /\ StdOK(doc)
    /\ ListsOK(doc, "artifacts")
    /\ OptionsOK(doc, "artifacts") /\ OptionsOK(doc, "artifacts.private")
    /\ PerOsOK(doc)

\* recipe_artifacts_select_os: what the lists are on one platform, or no answer when the two
\* together do not fit.
Together(doc, os, key) == Strings(doc, "artifacts", key) \o Strings(doc, Os(os), key)
SelectsOs(doc, os) ==
  \A key \in {"sources", "exclude", "link", "defines", "include", "flags"} :
    /\ Len(Together(doc, os, key)) <= Room[key]
    /\ Len(Strings(doc, "artifacts.private", key) \o Strings(doc, PrivateOs(os), key)) <= Room[key]

\* recipe_artifacts_wants, for the lists of one platform.
Wants(doc, os, name) ==
  /\ Together(doc, os, "sources") # <<>> => Contains(Together(doc, os, "sources"), name)
  /\ ~Contains(Together(doc, os, "exclude"), name)

------------------------------------------------------------------------------
(* [[provide]] and [build]                                                   *)

ProvisionOK(item) == item.file # "" /\ item.from # ""
ProvideOK(doc) ==
  Len(doc.provide) <= Room["provide"] /\ \A i \in DOMAIN doc.provide : ProvisionOK(doc.provide[i])

System(doc) == IF HasKey(doc, "build", "system") THEN At(doc, "build", "system").text ELSE "none"
Delegates(doc) == Says(doc, "build", "via", "delegate")
Configures(doc) == System(doc) \in {"autotools", "cmake"} /\ Delegates(doc)

InsideSource(path) == path \notin {"", "/x", "-x", "../x"}
PlainName(name) == name \notin {"", "-x", "a/b"}

\* The members of a table of texts.
Members(doc, table) == {key \in {at[2] : at \in DOMAIN doc.keys} : HasKey(doc, table, key)}
TextsOK(doc, table, room) ==
  Cardinality(Members(doc, table)) <= Room[room]
    /\ \A key \in Members(doc, table) : PlainName(key) /\ IsA(doc, table, key, "string")

EnvOK(doc) ==
  IF HasTable(doc, "build.env") THEN TextsOK(doc, "build.env", "env") ELSE ~HasKey(doc, "build", "env")

LibrariesOK(doc) ==
  IF ~HasTable(doc, "build.libraries") THEN ~HasKey(doc, "build", "libraries")
  ELSE /\ SchemaOK(doc) /\ Schema(doc) >= SchemaBuildSources
       /\ Delegates(doc)
       /\ TextsOK(doc, "build.libraries", "libraries")
       /\ \A p \in Members(doc, "build.libraries") : PlainName(At(doc, "build.libraries", p).text)

\* What to compile is read from upstream's build.
BuildSourcesOK(doc) ==
  IF ~IsA(doc, "build", "sources", "string")
    THEN ~HasKey(doc, "build", "sources") /\ ~HasKey(doc, "build", "goals")
  ELSE /\ SchemaOK(doc) /\ Schema(doc) >= SchemaBuildSources
       /\ \/ Says(doc, "build", "sources", "make") /\ System(doc) = "autotools"
          \/ Says(doc, "build", "sources", "cmake") /\ System(doc) = "cmake"
       /\ Delegates(doc)
       /\ ~HasKey(doc, "artifacts", "sources")
       /\ HasKey(doc, "build", "goals") => Says(doc, "build", "sources", "make")
       /\ StringsOK(doc, "build", "goals")
       /\ \A i \in DOMAIN Strings(doc, "build", "goals") : InsideSource(Strings(doc, "build", "goals")[i])

DelegationOK(doc) ==
  /\ OneOf(doc, "build", "via", {"delegate", "frontend"})
  /\ \/ Delegates(doc)
     \/ ~HasTable(doc, "build.env") /\ \A key \in {"args", "env", "targets"} : ~HasKey(doc, "build", key)
  /\ Delegates(doc) => System(doc) # "none"
  /\ StringsOK(doc, "build", "args") /\ StringsOK(doc, "build", "targets") /\ EnvOK(doc)
  /\ \A i \in DOMAIN Strings(doc, "build", "targets") : InsideSource(Strings(doc, "build", "targets")[i])
  /\ BuildSourcesOK(doc) /\ LibrariesOK(doc)

BuildOK(doc) == OneOf(doc, "build", "system", Systems) /\ DelegationOK(doc)

------------------------------------------------------------------------------
(* [plugin]                                                                  *)

PluginOK(doc) ==
  /\ HasTable(doc, "plugin")
  /\ SchemaOK(doc) /\ Schema(doc) >= SchemaPlugin
  /\ \A key \in {"capabilities", "extensions", "permissions"} : StringsOK(doc, "plugin", key)
  /\ Strings(doc, "plugin", "capabilities") # <<>>
  /\ HasKey(doc, "plugin", "ir_schema") => IsA(doc, "plugin", "ir_schema", "integer")
  /\ Optional(doc, "plugin", "molto_min")

\* What a dependency's recipe must be to be used: the whole of read_artifact
\* (services/resolve_service.c).
ConsumerReads(doc) ==
  /\ CoordinateOK(doc) /\ ArtifactsOK(doc) /\ BuildOK(doc) /\ ProvideOK(doc)
  /\ doc.deps = "good" /\ doc.about = "good"
  /\ Form(doc) = "source" => doc.source = "good"
  /\ Form(doc) = "platform" => doc.platforms = "good"

\* The schema whose readers were the first to know what a recipe uses.
Needs(doc) ==
  IF HasTable(doc, "build.libraries") \/ HasKey(doc, "build", "sources") THEN SchemaBuildSources
  ELSE IF \E t \in doc.tables, os \in OsNames : t \in {Os(os), PrivateOs(os)} THEN SchemaPerOs
  ELSE IF Form(doc) = "platform" THEN SchemaPlatform
  ELSE IF HasTable(doc, "plugin") THEN SchemaPlugin
  ELSE 1

\* A recipe that is accepted declares a schema that an older molto refuses, if it uses what that
\* molto would skip in silence (RFC-0009, RFC-0014, RFC-0022, RFC-0025).
OlderRefuses(doc) == ConsumerReads(doc) \/ PluginOK(doc) => Schema(doc) >= Needs(doc)
=============================================================================
