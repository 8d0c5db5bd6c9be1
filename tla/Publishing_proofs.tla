--------------------------- MODULE Publishing_proofs ---------------------------
(***************************************************************************)
(* What is proved of Publishing for any recipes, archives and faults: what *)
(* a build uses is what the registry holds; a row has the bytes of a whole *)
(* archive and the publisher is told what happened, unless a crash cuts    *)
(* off tar or the developer edits the recipe while it is sent; and a       *)
(* package that is published can be used, if what its publisher does not   *)
(* read of a recipe is as it should be.                                    *)
(***************************************************************************)
EXTENDS Publishing, FiniteSetTheorems, TLAPS

------------------------------------------------------------------------------
(* The inductive invariants                                                 *)

\* What a resolution remembers and ends with is the row, which nothing takes back.
UsedInv ==
  /\ memory \in {None, Cut} \/ (memory = [asked |-> TRUE, row |-> row] /\ row # None)
  /\ used # None => row # None /\ used = row /\ ConsumerReads(used.recipe)
  /\ cpc \in {"remember", "remembering", "select"} => used # None

\* A publish sends the recipe that it read.
Reading == pc # "out" => read = recipe /\ Accepts(read)
ReadInv ==
  /\ "recipe" \notin world.edits
  /\ recipe \in Recipes
  /\ Reading
  /\ row # None => row.recipe \in Recipes /\ Accepts(row.recipe)

\* The archive: whole, unless tar is writing it; hashed when it is sent.
Phases == {"out", "pack", "packing", "find", "load", "presign", "signed", "through", "record"}
ArchiveInv ==
  /\ world.way = "pack" => "crash" \notin world.faults
  /\ packs \in 0..MaxPacks
  /\ beside \in [{"packed", "other"} -> {None, Cut} \cup Packings]
  /\ beside["other"] # Cut
  /\ beside["packed"] = Cut => pc = "packing" /\ world.way = "pack"
  /\ pc \in Phases
  /\ pc \in {"pack", "packing"} => world.way = "pack"
  /\ digest \in {None} \cup Packings
  /\ pc \in {"pack", "packing", "find", "presign", "signed", "through"} => ~NoBytes(read)
  /\ pc \in {"load", "presign", "signed", "through", "record"} /\ ~NoBytes(read) => digest # None

\* Bytes first, row last; and what is told has happened.
RowInv ==
  /\ blob \in {None} \cup Packings
  /\ pc # "out" => told = None
  /\ pc \in {"presign", "signed", "through", "record"} => ~world.dry
  /\ world.dry => row = None /\ blob = None
  /\ told = "dry" => world.dry
  /\ pc = "signed" => row = None
  /\ pc = "record" /\ ~NoBytes(read) => row = None /\ blob = digest
  /\ row # None => row.recipe = recipe /\ (~NoBytes(recipe) => row.bytes = blob /\ blob # None)
  /\ told = "published" =>
       row # None /\ read = recipe /\ (~NoBytes(read) => row.bytes = digest)

SentInv == ReadInv /\ ArchiveInv /\ RowInv

------------------------------------------------------------------------------
(* What a build uses                                                        *)

\* The row is entered once, and every answer that is taken is the row.
LEMMA UsedStep ==
  ASSUME UsedInv, [Next]_vars
  PROVE  UsedInv'
<1> USE DEF UsedInv
<1>g. ASSUME UNCHANGED <<row, memory, cpc, used>> PROVE UsedInv'
  BY <1>g
<1>1. CASE LoginWrites
  BY <1>1, <1>g DEF LoginWrites, developer, publish, registry, consumer
<1>2. CASE LoginReplaces
  BY <1>2, <1>g DEF LoginReplaces, developer, publish, registry, consumer
<1>3. CASE ReadRecipe
  BY <1>3, <1>g DEF ReadRecipe, End, Goto, developer, registry, consumer
<1>4. CASE Pack
  BY <1>4, <1>g DEF Pack, Goto, publish, registry, consumer
<1>5. CASE Packed
  BY <1>5, <1>g DEF Packed, Goto, publish, registry, consumer
<1>6. CASE HashArchive
  BY <1>6, <1>g DEF HashArchive, End, Goto, developer, registry, consumer
<1>7. CASE LoadCredentials
  BY <1>7, <1>g DEF LoadCredentials, End, Goto, developer, registry, consumer
<1>8. CASE Presign
  BY <1>8, <1>g DEF Presign, End, Goto, developer, publish, registry, consumer
<1>9. CASE Upload
  BY <1>9, <1>g DEF Upload, End, Goto, Fault, developer, publish, consumer
<1>10. CASE UploadFails
  BY <1>10, <1>g DEF UploadFails, End, Fault, NoAnswer, developer, publish, registry, consumer
<1>11. CASE Record
  <2>1. row = None /\ UNCHANGED <<memory, cpc, used>>
    BY <1>11 DEF Record, Takes, consumer
  <2> QED
    BY <2>1
<1>12. CASE RecordFails
  BY <1>12, <1>g DEF RecordFails, End, Fault, NoAnswer, developer, publish, registry, consumer
<1>13. CASE PackFails
  BY <1>13, <1>g DEF PackFails, End, Fault, publish, registry, consumer
<1>14. CASE Remembered
  <2>1. UNCHANGED <<row, memory>>
    BY <1>14 DEF Remembered, registry
  <2>2. CASE Reads(memory)
    BY <1>14, <2>1, <2>2 DEF Remembered, Reads, Consumer
  <2>3. CASE ~Reads(memory)
    BY <1>14, <2>1, <2>3 DEF Remembered, Consumer
  <2> QED
    BY <2>2, <2>3
<1>15. CASE Refuses
  BY <1>15 DEF Refuses, Fault, Consumer, developer, publish, registry
<1>16. CASE Ask
  <2>1. row # None /\ UNCHANGED <<row, memory>> /\ cpc' = "remember"
    BY <1>16 DEF Ask, registry, Consumer
  <2>2. PICK answer \in {Answer, Foreign} : Asked(answer) /\ used' = answer.row
    BY <1>16 DEF Ask
  <2>3. answer = Answer
    BY <2>2 DEF Asked, Reads, Answer, Foreign
  <2>4. used' = row /\ ConsumerReads(row.recipe)
    BY <2>2, <2>3 DEF Asked, Reads, Answer
  <2> QED
    BY <2>1, <2>4
<1>17. CASE Remember
  BY <1>17 DEF Remember, Consumer, developer, publish, registry
<1>18. CASE Select
  BY <1>18 DEF Select, Consumer, developer, publish, registry
<1>19. CASE Edit
  BY <1>19, <1>g DEF Edit, publish, registry, consumer
<1>20. CASE Yank
  BY <1>20, <1>g DEF Yank, developer, publish, consumer
<1>21. CASE Crash
  BY <1>21 DEF Crash, End, Fault, Consumer, developer, publish, registry
<1>22. CASE PublishBeside
  BY <1>22, <1>g DEF PublishBeside, developer, publish, registry, consumer
<1>23. CASE UNCHANGED vars
  BY <1>23, <1>g DEF vars, developer, publish, registry, consumer
<1> QED
  BY <1>1, <1>2, <1>3, <1>4, <1>5, <1>6, <1>7, <1>8, <1>9, <1>10, <1>11, <1>12, <1>13, <1>14,
     <1>15, <1>16, <1>17, <1>18, <1>19, <1>20, <1>21, <1>22, <1>23 DEF Next, Publish, Resolve

\* What a build uses is what the registry holds under the coordinate, whether it was asked just
\* now or remembered from an answer whose writing was cut off, and also when it answered
\* something else (resolve_remembered, check_coordinate): for any recipes, worlds and bounds.
THEOREM UsedSound == Spec => []UsedIsPublished
<1>1. Init => UsedInv
  BY DEF Init, UsedInv
<1>2. UsedInv /\ [Next]_vars => UsedInv'
  BY UsedStep
<1>3. UsedInv => UsedIsPublished
  BY DEF UsedInv, UsedIsPublished
<1> QED
  BY <1>1, <1>2, <1>3, PTL DEF Spec

------------------------------------------------------------------------------
(* What is sent is what was read                                            *)

\* A publish leaves the recipe alone, and the developer does when the world has no such edit.
LEMMA RecipeStays ==
  ASSUME "recipe" \notin world.edits, [Next]_vars
  PROVE  recipe' = recipe /\ "recipe" \notin world'.edits
<1>1. CASE LoginWrites
  BY <1>1 DEF LoginWrites, developer
<1>2. CASE LoginReplaces
  BY <1>2 DEF LoginReplaces, developer
<1>3. CASE ReadRecipe
  BY <1>3 DEF ReadRecipe, End, Goto, developer
<1>4. CASE Pack
  BY <1>4 DEF Pack, Goto
<1>5. CASE Packed
  BY <1>5 DEF Packed, Goto
<1>6. CASE HashArchive
  BY <1>6 DEF HashArchive, End, Goto, developer
<1>7. CASE LoadCredentials
  BY <1>7 DEF LoadCredentials, End, Goto, developer
<1>8. CASE Presign
  BY <1>8 DEF Presign, End, Goto, developer
<1>9. CASE Upload
  BY <1>9 DEF Upload, End, Goto, Fault, developer
<1>10. CASE UploadFails
  BY <1>10 DEF UploadFails, End, Fault, NoAnswer, developer
<1>11. CASE Record
  BY <1>11 DEF Record, End, Fault, developer
<1>12. CASE RecordFails
  BY <1>12 DEF RecordFails, End, Fault, NoAnswer, developer
<1>13. CASE PackFails
  BY <1>13 DEF PackFails, End, Fault
<1>14. CASE Remembered
  BY <1>14 DEF Remembered, Consumer, developer
<1>15. CASE Refuses
  BY <1>15 DEF Refuses, Fault, Consumer, developer
<1>16. CASE Ask
  BY <1>16 DEF Ask, Consumer, developer
<1>17. CASE Remember
  BY <1>17 DEF Remember, Consumer, developer
<1>18. CASE Select
  BY <1>18 DEF Select, Consumer, developer
<1>19. CASE Edit
  BY <1>19 DEF Edit
<1>20. CASE Yank
  BY <1>20 DEF Yank, developer
<1>21. CASE Crash
  BY <1>21 DEF Crash, End, Fault, Consumer, developer
<1>22. CASE PublishBeside
  BY <1>22 DEF PublishBeside, developer
<1>23. CASE UNCHANGED vars
  BY <1>23 DEF vars, developer
<1> QED
  BY <1>1, <1>2, <1>3, <1>4, <1>5, <1>6, <1>7, <1>8, <1>9, <1>10, <1>11, <1>12, <1>13, <1>14,
     <1>15, <1>16, <1>17, <1>18, <1>19, <1>20, <1>21, <1>22, <1>23 DEF Next, Publish, Resolve

\* And what is sent has been accepted.
LEMMA ReadStep ==
  ASSUME ReadInv, [Next]_vars
  PROVE  ReadInv'
<1> USE DEF ReadInv, Reading
<1>e. recipe' = recipe /\ "recipe" \notin world'.edits
  BY RecipeStays
<1>g. ASSUME UNCHANGED <<row, read, pc>> PROVE ReadInv'
  BY <1>g, <1>e
<1>1. CASE LoginWrites
  BY <1>1, <1>g DEF LoginWrites, developer, publish, registry, consumer
<1>2. CASE LoginReplaces
  BY <1>2, <1>g DEF LoginReplaces, developer, publish, registry, consumer
<1>3. CASE ReadRecipe
  <2>1. read' = recipe /\ row' = row
    BY <1>3 DEF ReadRecipe, registry
  <2>2. pc' # "out" => Accepts(recipe)
    BY <1>3 DEF ReadRecipe, End
  <2> QED
    BY <2>1, <2>2, <1>e
<1>4. CASE Pack
  <2>1. UNCHANGED <<row, read>> /\ pc # "out"
    BY <1>4 DEF Pack, Goto, publish, registry, consumer
  <2> QED
    BY <2>1, <1>e
<1>5. CASE Packed
  <2>1. UNCHANGED <<row, read>> /\ pc # "out"
    BY <1>5 DEF Packed, Goto, publish, registry, consumer
  <2> QED
    BY <2>1, <1>e
<1>6. CASE HashArchive
  <2>1. UNCHANGED <<row, read>> /\ pc # "out"
    BY <1>6 DEF HashArchive, End, Goto, developer, registry, consumer
  <2> QED
    BY <2>1, <1>e
<1>7. CASE LoadCredentials
  <2>1. UNCHANGED <<row, read>> /\ pc # "out"
    BY <1>7 DEF LoadCredentials, End, Goto, developer, registry, consumer
  <2> QED
    BY <2>1, <1>e
<1>8. CASE Presign
  <2>1. UNCHANGED <<row, read>> /\ pc # "out"
    BY <1>8 DEF Presign, End, Goto, developer, publish, registry, consumer
  <2> QED
    BY <2>1, <1>e
<1>9. CASE Upload
  <2>1. UNCHANGED <<row, read>> /\ pc # "out"
    BY <1>9 DEF Upload, End, Goto, Fault, developer, publish, consumer
  <2> QED
    BY <2>1, <1>e
<1>10. CASE UploadFails
  <2>1. UNCHANGED <<row, read>> /\ pc # "out"
    BY <1>10 DEF UploadFails, End, Fault, NoAnswer, developer, publish, registry, consumer
  <2> QED
    BY <2>1, <1>e
<1>11. CASE Record
  <2>1. pc # "out" /\ row'.recipe = recipe /\ read' = read
    BY <1>11 DEF Record, publish
  <2> QED
    BY <2>1, <1>e
<1>12. CASE RecordFails
  <2>1. UNCHANGED <<row, read>> /\ pc # "out"
    BY <1>12 DEF RecordFails, End, Fault, NoAnswer, developer, publish, registry, consumer
  <2> QED
    BY <2>1, <1>e
<1>13. CASE PackFails
  <2>1. UNCHANGED <<row, read>> /\ pc # "out"
    BY <1>13 DEF PackFails, End, Fault, publish, registry, consumer
  <2> QED
    BY <2>1, <1>e
<1>14. CASE Remembered
  BY <1>14, <1>g DEF Remembered, Consumer, developer, publish, registry
<1>15. CASE Refuses
  BY <1>15, <1>g DEF Refuses, Fault, Consumer, developer, publish, registry
<1>16. CASE Ask
  BY <1>16, <1>g DEF Ask, Consumer, developer, publish, registry
<1>17. CASE Remember
  BY <1>17, <1>g DEF Remember, Consumer, developer, publish, registry
<1>18. CASE Select
  BY <1>18, <1>g DEF Select, Consumer, developer, publish, registry
<1>19. CASE Edit
  BY <1>19, <1>g DEF Edit, publish, registry, consumer
<1>20. CASE Yank
  BY <1>20, <1>g DEF Yank, developer, publish, consumer
<1>21. CASE Crash
  <2>1. UNCHANGED <<row, read>> /\ (pc # "out" \/ pc' = pc)
    BY <1>21 DEF Crash, End, publish, registry
  <2> QED
    BY <2>1, <1>e
<1>22. CASE PublishBeside
  BY <1>22, <1>g DEF PublishBeside, developer, publish, registry, consumer
<1>23. CASE UNCHANGED vars
  BY <1>23, <1>g DEF vars, developer, publish, registry, consumer
<1> QED
  BY <1>1, <1>2, <1>3, <1>4, <1>5, <1>6, <1>7, <1>8, <1>9, <1>10, <1>11, <1>12, <1>13, <1>14,
     <1>15, <1>16, <1>17, <1>18, <1>19, <1>20, <1>21, <1>22, <1>23 DEF Next, Publish, Resolve

\* What the publisher does not read of a recipe, and its users do: the schema and what others
\* than the publisher's checks say of [deps], [about] and [plugin]; and of a platform's recipe
\* the tables that it has no use for (check_content).
RestIsGood(doc) ==
  /\ SchemaOK(doc) /\ doc.deps = "good" /\ doc.about = "good"
  /\ HasTable(doc, "plugin") => PluginOK(doc)
  /\ Form(doc) = "platform" => ArtifactsOK(doc) /\ BuildOK(doc) /\ ProvideOK(doc)

\* Nothing else stands between a recipe that is accepted and one that can be used.
LEMMA AcceptedIsRead ==
  ASSUME NEW doc, Accepts(doc), RestIsGood(doc)
  PROVE  ConsumerReads(doc)
<1>1. FormOK(doc) /\ Required(doc)
  BY DEF Accepts, FormRead, KeysRead, FormOK, Required
<1>2. CASE Form(doc) = "platform"
  BY <1>2, <1>1 DEF Accepts, ContentOK, RestIsGood, ConsumerReads
<1>3. CASE Form(doc) # "platform"
  <2>1. CoordinateOK(doc)
    BY <1>1, <1>3 DEF RestIsGood, CoordinateOK
  <2>2. /\ ArtifactsOK(doc) /\ BuildOK(doc) /\ ProvideOK(doc)
        /\ Form(doc) = "source" => doc.source = "good"
    BY <1>3 DEF Accepts, ContentOK
  <2> QED
    BY <2>1, <2>2, <1>3 DEF RestIsGood, ConsumerReads
<1> QED
  BY <1>2, <1>3

\* Whatever it uses, its schema is one that an older molto refuses.
LEMMA ReadIsRefused ==
  ASSUME NEW doc, ConsumerReads(doc), HasTable(doc, "plugin") => PluginOK(doc)
  PROVE  Schema(doc) >= Needs(doc)
<1> DEFINE Libraries == HasTable(doc, "build.libraries") \/ HasKey(doc, "build", "sources")
           PerOs == \E t \in doc.tables, os \in OsNames : t \in {Os(os), PrivateOs(os)}
<1>1. Schema(doc) \in Nat /\ Schema(doc) >= 1
  <2>1. Schema(doc) \in 1..SchemaMax
    BY DEF ConsumerReads, CoordinateOK, SchemaOK
  <2> QED
    BY <2>1, SchemaAssumption
<1>2. ASSUME Libraries PROVE Schema(doc) >= SchemaBuildSources
  <2>1. BuildSourcesOK(doc) /\ LibrariesOK(doc)
    BY DEF ConsumerReads, BuildOK, DelegationOK
  <2> QED
    BY <1>2, <2>1 DEF BuildSourcesOK, LibrariesOK
<1>3. ASSUME PerOs PROVE Schema(doc) >= SchemaPerOs
  <2>1. PICK os \in OsNames : HasOs(doc, os)
    BY <1>3 DEF HasOs, HasTable
  <2>2. PerOsOK(doc)
    BY <2>1 DEF ConsumerReads, ArtifactsOK, HasAnyTable
  <2> QED
    BY <2>1, <2>2 DEF PerOsOK
<1>4. Form(doc) = "platform" => Schema(doc) >= SchemaPlatform
  BY DEF ConsumerReads, CoordinateOK
<1>5. HasTable(doc, "plugin") => Schema(doc) >= SchemaPlugin
  BY DEF PluginOK
<1> HIDE DEF Libraries, PerOs
<1>6. Needs(doc) = IF Libraries THEN SchemaBuildSources
                   ELSE IF PerOs THEN SchemaPerOs
                   ELSE IF Form(doc) = "platform" THEN SchemaPlatform
                   ELSE IF HasTable(doc, "plugin") THEN SchemaPlugin
                   ELSE 1
  BY DEF Needs, Libraries, PerOs
<1> QED
  BY <1>1, <1>2, <1>3, <1>4, <1>5, <1>6

\* What is published can be read by those who will use it, and is refused by the older molto that
\* would skip what it does not know (check_content): for any recipes whose remaining parts are as
\* they should be, and any run in which the developer does not edit the recipe while it is sent.
THEOREM PublishedUsable ==
  ASSUME \A w \in Worlds : "recipe" \notin w.edits,
         \A doc \in Recipes : RestIsGood(doc)
  PROVE  Spec => []PublishedCanBeUsed
<1>1. Init => ReadInv
  BY DEF Init, ReadInv, Reading
<1>2. ReadInv /\ [Next]_vars => ReadInv'
  BY ReadStep
<1>3. ReadInv => PublishedCanBeUsed
  BY AcceptedIsRead, ReadIsRefused DEF ReadInv, PublishedCanBeUsed, RestIsGood, OlderRefuses
<1> QED
  BY <1>1, <1>2, <1>3, PTL DEF Spec

------------------------------------------------------------------------------
(* Bytes first, row last                                                    *)

\* What is hashed is whole: nothing is being packed when the archive is looked for.
LEMMA ArchiveIs ==
  ASSUME SentInv, pc # "packing", Archive # None, beside[Archive] # None
  PROVE  beside[Archive] \in Packings
<1>1. Archive \in {"packed", "other"}
  <2>1. CASE Archive \in Found
    BY <2>1 DEF Found, SentInv, ArchiveInv
  <2>2. CASE Cardinality(Found) = 1
    <3>1. Found # {}
      BY <2>2, FS_EmptySet
    <3> QED
      BY <3>1, <2>1 DEF Archive
  <2> QED
    BY <2>2 DEF Archive
<1> QED
  BY <1>1 DEF SentInv, ArchiveInv

LEMMA NoneIs ==
  /\ \A n \in Packings : n # None /\ n # Cut /\ n \in Nat
  /\ \A n \in 0..MaxPacks : n \in Packings
  /\ \A n \in 0..MaxPacks : n < MaxPacks => n + 1 \in 0..MaxPacks
  /\ MaxPacks + 1 \in Packings /\ None # Cut
  /\ \A how \in Ends : how # None
BY NoneAssumption, BoundsAssumption DEF Packings

\* Tar is done, or what it left is removed, before anything is hashed.
LEMMA ArchiveStep ==
  ASSUME SentInv, [Next]_vars
  PROVE  ArchiveInv'
<1> USE DEF SentInv, ArchiveInv, Phases
<1>g. ASSUME UNCHANGED <<world, packs, beside, pc, digest, read>> PROVE ArchiveInv'
  BY <1>g, NoneIs
<1>1. CASE LoginWrites
  BY <1>1, <1>g DEF LoginWrites, developer, publish, registry, consumer
<1>2. CASE LoginReplaces
  BY <1>2, <1>g DEF LoginReplaces, developer, publish, registry, consumer
<1>3. CASE ReadRecipe
  BY <1>3, NoneIs DEF ReadRecipe, End, Goto, developer, registry, consumer
<1>4. CASE Pack
  BY <1>4, NoneIs DEF Pack, Goto, publish, registry, consumer
<1>5. CASE Packed
  BY <1>5, NoneIs DEF Packed, Goto, publish, registry, consumer
<1>6. CASE HashArchive
  <2>1. /\ pc = "find" /\ pc' \in {"out", "load"} /\ UNCHANGED <<world, packs, beside, read>>
    BY <1>6 DEF HashArchive, developer, End, Goto
  <2>2. \/ digest' = digest /\ pc' = "out"
        \/ digest' \in Packings
    BY <1>6, ArchiveIs DEF HashArchive, End
  <2> QED
    BY <2>1, <2>2, NoneIs
<1>7. CASE LoadCredentials
  <2>1. UNCHANGED <<world, packs, beside, digest, read>>
    BY <1>7 DEF LoadCredentials, End, Goto, developer, registry, consumer
  <2>2. /\ pc = "load"
        /\ \/ pc' = "out"
           \/ NoBytes(read) /\ pc' = "record"
           \/ ~NoBytes(read) /\ pc' = "presign"
    BY <1>7 DEF LoadCredentials, End, Goto
  <2> QED
    BY <2>1, <2>2
<1>8. CASE Presign
  <2>1. UNCHANGED <<world, packs, beside, digest, read>>
    BY <1>8 DEF Presign, End, Goto, developer, publish, registry, consumer
  <2>2. pc = "presign" /\ pc' \in {"out", "through", "signed"}
    BY <1>8 DEF Presign, End, Goto
  <2> QED
    BY <2>1, <2>2
<1>9. CASE Upload
  <2>1. UNCHANGED <<world, packs, beside, digest, read>>
    BY <1>9 DEF Upload, End, Goto, Fault, developer, publish, consumer
  <2>2. pc \in {"signed", "through"} /\ pc' \in {"out", "record"}
    BY <1>9 DEF Upload, End, Goto, Fault
  <2> QED
    BY <2>1, <2>2
<1>10. CASE UploadFails
  <2>1. UNCHANGED <<world, packs, beside, digest, read>>
    BY <1>10 DEF UploadFails, End, Fault, NoAnswer, developer, publish, registry, consumer
  <2>2. pc \in {"signed", "through"} /\ pc' = "out"
    BY <1>10 DEF UploadFails, End, Fault, NoAnswer
  <2> QED
    BY <2>1, <2>2
<1>11. CASE Record
  <2>1. UNCHANGED <<world, packs, beside, digest, read>>
    BY <1>11 DEF Record, End, Fault, developer, publish, consumer
  <2>2. pc = "record" /\ pc' = "out"
    BY <1>11 DEF Record, End, Fault
  <2> QED
    BY <2>1, <2>2
<1>12. CASE RecordFails
  <2>1. UNCHANGED <<world, packs, beside, digest, read>>
    BY <1>12 DEF RecordFails, End, Fault, NoAnswer, developer, publish, registry, consumer
  <2>2. pc = "record" /\ pc' = "out"
    BY <1>12 DEF RecordFails, End, Fault, NoAnswer
  <2> QED
    BY <2>1, <2>2
<1>13. CASE PackFails
  BY <1>13, NoneIs DEF PackFails, End, Fault, publish, registry, consumer
<1>14. CASE Remembered
  BY <1>14, <1>g DEF Remembered, Consumer, developer, publish, registry
<1>15. CASE Refuses
  BY <1>15, <1>g DEF Refuses, Fault, Consumer, developer, publish, registry
<1>16. CASE Ask
  BY <1>16, <1>g DEF Ask, Consumer, developer, publish, registry
<1>17. CASE Remember
  BY <1>17, <1>g DEF Remember, Consumer, developer, publish, registry
<1>18. CASE Select
  BY <1>18, <1>g DEF Select, Consumer, developer, publish, registry
<1>19. CASE Edit
  BY <1>19, NoneIs DEF Edit, publish, registry, consumer
<1>20. CASE Yank
  BY <1>20, <1>g DEF Yank, developer, publish, consumer
<1>21. CASE Crash
  BY <1>21, NoneIs DEF Crash, End, Fault, Consumer, developer, publish, registry
<1>22. CASE PublishBeside
  BY <1>22, NoneIs DEF PublishBeside, developer, publish, registry, consumer
<1>23. CASE UNCHANGED vars
  BY <1>23, <1>g DEF vars, developer, publish, registry, consumer
<1> QED
  BY <1>1, <1>2, <1>3, <1>4, <1>5, <1>6, <1>7, <1>8, <1>9, <1>10, <1>11, <1>12, <1>13, <1>14,
     <1>15, <1>16, <1>17, <1>18, <1>19, <1>20, <1>21, <1>22, <1>23 DEF Next, Publish, Resolve

\* The row is entered when the bytes are there, and told about afterwards.
LEMMA RowStep ==
  ASSUME SentInv, [Next]_vars
  PROVE  RowInv'
<1> USE DEF SentInv, ReadInv, Reading, ArchiveInv, RowInv, Phases
<1>e. recipe' = recipe
  BY RecipeStays
<1>g. ASSUME UNCHANGED <<world, pc, digest, read, blob, row, told>> PROVE RowInv'
  BY <1>g, <1>e, NoneIs DEF Ends
<1>1. CASE LoginWrites
  BY <1>1, <1>g DEF LoginWrites, developer, publish, registry, consumer
<1>2. CASE LoginReplaces
  BY <1>2, <1>g DEF LoginReplaces, developer, publish, registry, consumer
<1>3. CASE ReadRecipe
  BY <1>3, <1>e, NoneIs DEF ReadRecipe, End, Goto, developer, registry, consumer, Ends
<1>4. CASE Pack
  BY <1>4, <1>e, NoneIs DEF Pack, Goto, publish, registry, consumer, Ends
<1>5. CASE Packed
  BY <1>5, <1>e, NoneIs DEF Packed, Goto, publish, registry, consumer, Ends
<1>6. CASE HashArchive
  BY <1>6, <1>e, NoneIs DEF HashArchive, End, Goto, developer, registry, consumer, Ends
<1>7. CASE LoadCredentials
  BY <1>7, <1>e, NoneIs DEF LoadCredentials, End, Goto, developer, registry, consumer, Ends
<1>8. CASE Presign
  BY <1>8, <1>e, NoneIs DEF Presign, End, Goto, developer, publish, registry, consumer, Ends
<1>9. CASE Upload
  BY <1>9, <1>e, NoneIs DEF Upload, End, Goto, Fault, developer, publish, consumer, Ends
<1>10. CASE UploadFails
  BY <1>10, <1>e, NoneIs
  DEF UploadFails, End, Fault, NoAnswer, developer, publish, registry, consumer, Ends
<1>11. CASE Record
  <2>1. /\ pc = "record" /\ Takes /\ UNCHANGED <<world, blob, digest, read>> /\ pc' = "out"
        /\ row' = [recipe |-> recipe, bytes |-> IF NoBytes(recipe) THEN None ELSE blob]
        /\ told' \in {"published", "error"}
    BY <1>11 DEF Record, End, publish
  <2>2. row' # None
    BY <2>1, NoneAssumption
  <2>3. /\ row'.recipe = recipe
        /\ ~NoBytes(recipe) => row'.bytes = blob /\ blob # None /\ blob = digest
    BY <2>1 DEF Takes
  <2> QED
    BY <2>1, <2>2, <2>3, <1>e
<1>12. CASE RecordFails
  BY <1>12, <1>e, NoneIs
  DEF RecordFails, End, Fault, NoAnswer, developer, publish, registry, consumer, Ends
<1>13. CASE PackFails
  BY <1>13, <1>e, NoneIs DEF PackFails, End, Fault, publish, registry, consumer, Ends
<1>14. CASE Remembered
  BY <1>14, <1>g DEF Remembered, Consumer, developer, publish, registry
<1>15. CASE Refuses
  BY <1>15, <1>g DEF Refuses, Fault, Consumer, developer, publish, registry
<1>16. CASE Ask
  BY <1>16, <1>g DEF Ask, Consumer, developer, publish, registry
<1>17. CASE Remember
  BY <1>17, <1>g DEF Remember, Consumer, developer, publish, registry
<1>18. CASE Select
  BY <1>18, <1>g DEF Select, Consumer, developer, publish, registry
<1>19. CASE Edit
  BY <1>19, <1>e, NoneIs DEF Edit, publish, registry, consumer, Ends
<1>20. CASE Yank
  BY <1>20, <1>g DEF Yank, developer, publish, consumer
<1>21. CASE Crash
  BY <1>21, <1>e, NoneIs DEF Crash, End, Fault, Consumer, developer, publish, registry, Ends
<1>22. CASE PublishBeside
  BY <1>22, <1>e, NoneIs DEF PublishBeside, developer, publish, registry, consumer, Ends
<1>23. CASE UNCHANGED vars
  BY <1>23, <1>g DEF vars, developer, publish, registry, consumer
<1> QED
  BY <1>1, <1>2, <1>3, <1>4, <1>5, <1>6, <1>7, <1>8, <1>9, <1>10, <1>11, <1>12, <1>13, <1>14,
     <1>15, <1>16, <1>17, <1>18, <1>19, <1>20, <1>21, <1>22, <1>23 DEF Next, Publish, Resolve

LEMMA SentStep == SentInv /\ [Next]_vars => SentInv'
<1> SUFFICES ASSUME SentInv, [Next]_vars PROVE SentInv'
  OBVIOUS
<1> QED
  BY ReadStep, ArchiveStep, RowStep DEF SentInv

\* A row that anybody can see has the bytes of a whole archive, and what the publisher is told is
\* what happened, whatever tar and the registry do on the way (publish_command_run,
\* pack_directory): for any recipes and worlds, unless the developer edits the recipe while it is
\* sent, or a crash cuts off tar and what it wrote is published as what is beside the recipe.
THEOREM PublishSound ==
  ASSUME \A w \in Worlds : "recipe" \notin w.edits /\ (w.way = "pack" => "crash" \notin w.faults)
  PROVE  Spec => []PublishIsSound
<1>1. Init => SentInv
  <2> SUFFICES ASSUME Init PROVE SentInv
    OBVIOUS
  <2>1. beside["other"] # Cut /\ beside["packed"] # Cut /\ 0 \in Packings /\ 0 \in 0..MaxPacks
    BY NoneIs, BoundsAssumption DEF Init, Packings
  <2>2. ReadInv
    BY DEF Init, ReadInv, Reading
  <2>3. ArchiveInv
    BY <2>1 DEF Init, ArchiveInv, Phases
  <2>4. RowInv
    BY NoneIs DEF Init, RowInv, Ends
  <2> QED
    BY <2>2, <2>3, <2>4 DEF SentInv
<1>2. SentInv /\ [Next]_vars => SentInv'
  BY SentStep
<1>3. SentInv => PublishIsSound
  <2> SUFFICES ASSUME SentInv PROVE PublishIsSound
    OBVIOUS
  <2>1. RowHasBytes
    BY NoneIs DEF RowHasBytes, SentInv, RowInv
  <2>2. ToldIsDone
    BY DEF ToldIsDone, SentInv, RowInv
  <2> QED
    BY <2>1, <2>2 DEF PublishIsSound
<1> QED
  BY <1>1, <1>2, <1>3, PTL
  DEF Spec
==============================================================================
