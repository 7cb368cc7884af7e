--------------------------- MODULE DocumentTheorems ---------------------------
(***************************************************************************)
(* Proofs about the documents beside their sources, for any theorems,      *)
(* claims, gates and RFCs: green gates say that the committed documents    *)
(* are true of the code (GreenIsTrue), and a migration that gets to its    *)
(* end, however often it was interrupted, leaves files that the gate       *)
(* accepts (MigratedIsAccepted).                                           *)
(***************************************************************************)
EXTENDS Documents, SequenceTheorems, FiniteSetTheorems, TLAPS

-----------------------------------------------------------------------------
(* Files *)

\* What is known of the files and of the run of the migration.
RfcTypes ==
  /\ rfcs \in [Folder -> [Number -> {Missing} \cup File]]
  /\ migration \in [pc : {"none", "running", "interrupted", "finished"},
                    todo : SUBSET Slot, legible : BOOLEAN]

\* A file as the migration leaves it.
Settled(s) == FileAt(s) = Canonical(s[1], s[2], FileAt(s))

\* The files were legible since the last edit, and those a run has passed are
\* as the migration leaves them; an interrupted run leaves nothing to go.
MigrationInv ==
  /\ RfcTypes
  /\ migration.todo \subseteq Slots
  /\ migration.pc # "running" => migration.todo = {}
  /\ migration.legible => migration.pc # "none" /\ Legible
  /\ migration.legible /\ migration.pc \in {"running", "finished"} =>
       \A s \in Slots \ migration.todo : Settled(s)

\* The front matter that the migration writes is front matter.
LEMMA CanonicalTyped ==
  ASSUME NEW folder \in Folder, NEW n \in Number, NEW f \in File
  PROVE  /\ Canonical(folder, n, f) \in File
         /\ Canonical(folder, n, f).front \in FrontMatter
         /\ Canonical(folder, n, f).front # Missing
<1> DEFINE front == [status |-> Clean(CanonicalStatus(folder, f)), title |-> TRUE,
                     implemented_in |-> ImplementedIn(folder, f),
                     relations |-> IF n \in DOMAIN Wave THEN Wave[n] ELSE NoRelations]
<1>1. CanonicalStatus(folder, f) \in RfcStatus
  BY DEF CanonicalStatus, RfcStatus, Folder
<1>2. Clean(CanonicalStatus(folder, f)) \in StatusText
  BY <1>1 DEF Clean, StatusText
<1>3. StatusTextOf(f) \in {Missing} \cup StatusText
  BY DEF StatusTextOf, File, FrontMatter
<1>4. VersionInText(f) \in {Missing} \cup Shipped
  BY <1>3 DEF VersionInText, StatusText, Shipped
<1>5. f.front # Missing => f.front.implemented_in \in {Missing} \cup Shipped
  BY DEF File, FrontMatter
<1>6. ImplementedIn(folder, f) \in {Missing} \cup Shipped
  BY <1>4, <1>5 DEF ImplementedIn
<1>7. NoRelations \in [Relation -> SUBSET Number]
  BY DEF NoRelations
<1>8. (IF n \in DOMAIN Wave THEN Wave[n] ELSE NoRelations) \in [Relation -> SUBSET Number]
  BY <1>7, RfcAssumption
<1>9. front \in FrontMatter
  BY <1>2, <1>6, <1>8 DEF FrontMatter
<1>10. Missing \notin FrontMatter
  BY RfcAssumption
<1>11. [f EXCEPT !.front = front] \in File /\ [f EXCEPT !.front = front].front = front
  <2> HIDE DEF front
  <2>1. QED BY <1>9 DEF File
<1>12. Canonical(folder, n, f) = [f EXCEPT !.front = front]
  BY DEF Canonical
<1>13. QED BY <1>9, <1>10, <1>11, <1>12

\* What the migration writes stays as it is when a second run gets there: the
\* status is derived from itself, and a version that was found is kept.
LEMMA CanonicalIsSettled ==
  ASSUME NEW folder \in Folder, NEW n \in Number, NEW f \in File
  PROVE  LET g == Canonical(folder, n, f) IN
         /\ Canonical(folder, n, g) = g
         /\ TitleFound(g)
         /\ ImplementedIn(folder, g) = ImplementedIn(folder, f)
<1> DEFINE front == [status |-> Clean(CanonicalStatus(folder, f)), title |-> TRUE,
                     implemented_in |-> ImplementedIn(folder, f),
                     relations |-> IF n \in DOMAIN Wave THEN Wave[n] ELSE NoRelations]
<1> DEFINE g == Canonical(folder, n, f)
<1>1. g = [f EXCEPT !.front = front]
  BY DEF Canonical
<1>2. g \in File /\ g.front = front /\ front # Missing
  <2> HIDE DEF front
  <2>1. g.front # Missing /\ g \in File
    BY CanonicalTyped
  <2>2. [f EXCEPT !.front = front].front = front
    BY DEF File
  <2>3. QED BY <2>1, <2>2, <1>1
<1>3. Word(g) = CanonicalStatus(folder, f)
  <2>1. StatusTextOf(g) = Clean(CanonicalStatus(folder, f))
    BY <1>2 DEF StatusTextOf
  <2>2. Clean(CanonicalStatus(folder, f)) \in StatusText
    BY DEF Clean, StatusText, CanonicalStatus, RfcStatus, Folder
  <2>3. Clean(CanonicalStatus(folder, f)) # Missing
    BY <2>2, RfcAssumption
  <2>4. QED BY <2>1, <2>3 DEF Word, Clean
<1>4. CanonicalStatus(folder, g) = CanonicalStatus(folder, f)
  BY <1>3 DEF CanonicalStatus, Folder
<1>5. ImplementedIn(folder, g) = ImplementedIn(folder, f)
  <2>1. VersionInText(g) = Missing
    BY <1>2 DEF VersionInText, StatusTextOf, Clean
  <2>2. g.front.implemented_in = ImplementedIn(folder, f)
    BY <1>2
  <2>3. QED BY <1>2, <2>1, <2>2 DEF ImplementedIn
<1>6. Canonical(folder, n, g) = [g EXCEPT !.front = front]
  BY <1>4, <1>5 DEF Canonical
<1>7. [g EXCEPT !.front = front] = g
  <2> HIDE DEF front
  <2>1. g \in File /\ g.front = front
    BY <1>2
  <2>2. QED BY ONLY <2>1 DEF File
<1>8. TitleFound(g)
  BY <1>2 DEF TitleFound
<1>9. QED BY <1>5, <1>6, <1>7, <1>8

Files == [Folder -> [Number -> {Missing} \cup File]]

\* Files are files after one was written.
LEMMA OneFile ==
  ASSUME NEW r \in Files, NEW folder \in Folder, NEW n \in Number,
         NEW g \in {Missing} \cup File
  PROVE  [r EXCEPT ![folder][n] = g] \in Files
BY DEF Files

\* A slot is a folder and a number.
LEMMA SlotParts ==
  ASSUME NEW s \in Slot
  PROVE  s[1] \in Folder /\ s[2] \in Number /\ s = << s[1], s[2] >>
BY DEF Slot

\* A file that is there is a file.
LEMMA FileThere ==
  ASSUME RfcTypes, NEW s \in Slots
  PROVE  FileAt(s) \in File /\ FileAt(s) # Missing /\ s \in Slot
BY SlotParts DEF RfcTypes, Slots, FileAt

\* A step of the migration: the file gets its front matter, and is as legible as before.
LEMMA FileMigrated ==
  ASSUME RfcTypes, NEW s \in Slots,
         rfcs' = [rfcs EXCEPT ![s[1]][s[2]] = Canonical(s[1], s[2], @)]
  PROVE  /\ rfcs' \in Files
         /\ Slots' = Slots
         /\ Settled(s)'
         /\ \A t \in Slots : t # s => FileAt(t)' = FileAt(t)
         /\ \A t \in Slots : t # s /\ Settled(t) => Settled(t)'
         /\ Legible => Legible'
<1> DEFINE f == FileAt(s)
           g == Canonical(s[1], s[2], f)
<1>1. f \in File /\ s \in Slot
  BY FileThere
<1>2. s[1] \in Folder /\ s[2] \in Number /\ s = << s[1], s[2] >>
  BY <1>1, SlotParts
<1>3. g \in File /\ g # Missing
  BY <1>1, <1>2, CanonicalTyped, RfcAssumption
<1>4. rfcs \in Files
  BY DEF RfcTypes, Files
<1>5. rfcs' = [rfcs EXCEPT ![s[1]][s[2]] = g]
  BY <1>2, <1>4 DEF FileAt, Files
<1> HIDE DEF g
<1>6. /\ rfcs' \in Files
      /\ FileAt(s)' = g
      /\ \A t \in Slot : t # s => FileAt(t)' = FileAt(t)
  <2>1. /\ rfcs' \in Files
        /\ rfcs'[s[1]][s[2]] = g
        /\ \A t \in Slot : t # s => rfcs'[t[1]][t[2]] = rfcs[t[1]][t[2]]
    <3>1. [rfcs EXCEPT ![s[1]][s[2]] = g] \in Files
      BY <1>2, <1>3, <1>4, OneFile
    <3>2. rfcs'[s[1]][s[2]] = g
      BY <1>2, <1>4, <1>5 DEF Files
    <3>3. ASSUME NEW t \in Slot, t # s
          PROVE  rfcs'[t[1]][t[2]] = rfcs[t[1]][t[2]]
      <4>1. t[1] \in Folder /\ t[2] \in Number /\ t = << t[1], t[2] >>
        BY SlotParts
      <4>2. t[1] # s[1] \/ t[2] # s[2]
        BY <3>3, <4>1, <1>2
      <4>3. QED BY <4>1, <4>2, <1>2, <1>4, <1>5 DEF Files
    <3>4. QED BY <3>1, <3>2, <3>3, <1>5
  <2>2. QED BY <2>1 DEF FileAt
<1>7. Slots' = Slots
  BY <1>1, <1>3, <1>6 DEF Slots
<1>8. Canonical(s[1], s[2], g) = g /\ TitleFound(g)
      /\ ImplementedIn(s[1], g) = ImplementedIn(s[1], f)
  BY <1>1, <1>2, CanonicalIsSettled DEF g
<1>9. Settled(s)'
  BY <1>6, <1>8 DEF Settled
<1>10. ASSUME NEW t \in Slots, t # s
       PROVE  FileAt(t)' = FileAt(t) /\ (Settled(t) => Settled(t)')
  BY <1>6, <1>10 DEF Settled, Slots
<1>11. Legible => Legible'
  <2> HAVE Legible
  <2>1. Numbers' = Numbers
    BY <1>7 DEF Numbers
  <2>2. ASSUME NEW t \in Slots
        PROVE  /\ TitleFound(FileAt(t)')
               /\ t[1] = "done" => ImplementedIn("done", FileAt(t)') = "version"
    <3>1. CASE t = s
      BY <3>1, <1>6, <1>8 DEF Legible
    <3>2. CASE t # s
      BY <3>2, <1>10 DEF Legible
    <3>3. QED BY <3>1, <3>2
  <2>3. QED BY <2>1, <2>2, <1>7 DEF Legible
<1>12. QED BY <1>6, <1>7, <1>9, <1>10, <1>11

-----------------------------------------------------------------------------
(* Edits *)

\* After an edit there is no migration whose files were legible.
LEMMA EditedFiles ==
  ASSUME NEW new \in Files, Edited(new)
  PROVE  MigrationInv'
BY DEF Edited, MigrationInv, RfcTypes, Files

\* A status line and a version are front matter, whatever was there.
LEMMA StatusIsSet ==
  ASSUME RfcTypes, NEW s \in Slots, FrontOf(s) # Missing,
         NEW word \in RfcStatus, NEW v \in {Missing} \cup Shipped
  PROVE  [rfcs EXCEPT ![s[1]][s[2]].front =
            [@ EXCEPT !.status = Clean(word), !.implemented_in = v]] \in Files
<1> DEFINE f == FileAt(s)
           h == [f.front EXCEPT !.status = Clean(word), !.implemented_in = v]
           g == [f EXCEPT !.front = h]
<1>1. f \in File /\ s \in Slot /\ f.front \in FrontMatter
  BY FileThere DEF FrontOf, File
<1>2. s[1] \in Folder /\ s[2] \in Number
  BY <1>1, SlotParts
<1>3. rfcs \in Files
  BY DEF RfcTypes, Files
<1>4. h \in FrontMatter
  <2>1. Clean(word) \in StatusText
    BY DEF Clean, StatusText
  <2>2. QED BY <1>1, <2>1 DEF FrontMatter
<1>5. g \in File
  <2> HIDE DEF h
  <2>1. QED BY <1>1, <1>4 DEF File
<1>6. [rfcs EXCEPT ![s[1]][s[2]].front =
            [@ EXCEPT !.status = Clean(word), !.implemented_in = v]]
        = [rfcs EXCEPT ![s[1]][s[2]] = g]
  BY <1>2, <1>3 DEF Files, FileAt
<1>7. [rfcs EXCEPT ![s[1]][s[2]] = g] \in Files
  <2> HIDE DEF g
  <2>1. QED BY <1>2, <1>3, <1>5, OneFile
<1>8. QED BY <1>6, <1>7

\* A relation that is declared or withdrawn is a relation between numbers.
LEMMA RelationIsSet ==
  ASSUME RfcTypes, NEW s \in Slots, FrontOf(s) # Missing, FrontOf(s).relations # Missing,
         NEW r \in Relation, NEW n \in Number
  PROVE  [rfcs EXCEPT ![s[1]][s[2]].front.relations[r] = (@ \ {n}) \cup ({n} \ @)] \in Files
<1> DEFINE f == FileAt(s)
           old == f.front.relations
           h == [f.front EXCEPT !.relations = [old EXCEPT ![r] = (old[r] \ {n}) \cup ({n} \ old[r])]]
           g == [f EXCEPT !.front = h]
<1>1. f \in File /\ s \in Slot /\ f.front \in FrontMatter
      /\ old \in [Relation -> SUBSET Number]
  BY FileThere DEF FrontOf, File, FrontMatter
<1>2. s[1] \in Folder /\ s[2] \in Number
  BY <1>1, SlotParts
<1>3. rfcs \in Files
  BY DEF RfcTypes, Files
<1>4. h \in FrontMatter
  <2>1. [old EXCEPT ![r] = (old[r] \ {n}) \cup ({n} \ old[r])] \in [Relation -> SUBSET Number]
    BY <1>1
  <2>2. QED BY <1>1, <2>1 DEF FrontMatter
<1>5. g \in File
  <2> HIDE DEF h
  <2>1. QED BY <1>1, <1>4 DEF File
<1>6. [rfcs EXCEPT ![s[1]][s[2]].front.relations[r] = (@ \ {n}) \cup ({n} \ @)]
        = [rfcs EXCEPT ![s[1]][s[2]] = g]
  BY <1>2, <1>3 DEF Files, FileAt
<1>7. [rfcs EXCEPT ![s[1]][s[2]] = g] \in Files
  <2> HIDE DEF g
  <2>1. QED BY <1>2, <1>3, <1>5, OneFile
<1>8. QED BY <1>6, <1>7

\* Every edit of the RFCs leaves files.
LEMMA RfcEdits ==
  ASSUME RfcTypes, EditRfcs
  PROVE  MigrationInv'
<1>0. rfcs \in Files
  BY DEF RfcTypes, Files
<1>1. ASSUME NEW n \in Number, Propose(n) PROVE MigrationInv'
  <2> DEFINE f == [front |-> [status |-> Clean("Draft"), title |-> TRUE,
                              implemented_in |-> Missing, relations |-> NoRelations],
                   status |-> Missing, h1 |-> TRUE]
  <2>1. f \in File
    BY DEF File, FrontMatter, Clean, StatusText, RfcStatus, NoRelations
  <2> HIDE DEF f
  <2>2. [rfcs EXCEPT !["proposed"][n] = f] \in Files
    BY <1>0, <2>1, OneFile DEF Folder
  <2>3. Edited([rfcs EXCEPT !["proposed"][n] = f])
    BY <1>1 DEF Propose, f
  <2>4. QED BY <2>2, <2>3, EditedFiles
<1>2. ASSUME NEW s \in Slot, NEW folder \in Folder, CopyFile(s, folder) PROVE MigrationInv'
  <2>1. [rfcs EXCEPT ![folder][s[2]] = FileAt(s)] \in Files
    BY <1>0, <1>2, OneFile, FileThere, SlotParts DEF CopyFile
  <2>2. QED BY <1>2, <2>1, EditedFiles DEF CopyFile
<1>3. ASSUME NEW s \in Slot, RemoveFile(s) PROVE MigrationInv'
  <2>1. [rfcs EXCEPT ![s[1]][s[2]] = Missing] \in Files
    BY <1>0, OneFile, SlotParts
  <2>2. QED BY <1>3, <2>1, EditedFiles DEF RemoveFile
<1>4. ASSUME NEW s \in Slot, LoseFrontMatter(s) PROVE MigrationInv'
  <2> DEFINE g == [FileAt(s) EXCEPT !.front = Missing]
  <2>1. g \in File
    BY <1>4, FileThere DEF LoseFrontMatter, File
  <2>2. [rfcs EXCEPT ![s[1]][s[2]].front = Missing] = [rfcs EXCEPT ![s[1]][s[2]] = g]
    BY <1>0, SlotParts DEF Files, FileAt
  <2> HIDE DEF g
  <2>3. [rfcs EXCEPT ![s[1]][s[2]] = g] \in Files
    BY <1>0, <2>1, OneFile, SlotParts
  <2>4. Edited([rfcs EXCEPT ![s[1]][s[2]] = g])
    BY <1>4, <2>2 DEF LoseFrontMatter
  <2>5. QED BY <2>3, <2>4, EditedFiles
<1>5. ASSUME NEW s \in Slot, NEW word \in RfcStatus, NEW v \in {Missing} \cup Shipped,
             SetStatus(s, word, v)
      PROVE  MigrationInv'
  BY <1>5, StatusIsSet, EditedFiles DEF SetStatus
<1>6. ASSUME NEW s \in Slot, NEW r \in Relation, NEW n \in Number, Relate(s, r, n)
      PROVE  MigrationInv'
  BY <1>6, RelationIsSet, EditedFiles DEF Relate
<1>7. QED BY <1>1, <1>2, <1>3, <1>4, <1>5, <1>6 DEF EditRfcs

-----------------------------------------------------------------------------
(* The migration *)

\* The next file of a run: it is migrated, or the run ends for want of a title.
LEMMA FilePassed ==
  ASSUME MigrationInv, MigrateFile
  PROVE  MigrationInv'
<1>1. PICK s \in migration.todo :
        IF TitleFound(FileAt(s))
        THEN /\ rfcs' = [rfcs EXCEPT ![s[1]][s[2]] = Canonical(s[1], s[2], @)]
             /\ migration' = [migration EXCEPT !.todo = @ \ {s}]
        ELSE UNCHANGED rfcs /\ migration' = [migration EXCEPT !.pc = "interrupted", !.todo = {}]
  BY DEF MigrateFile
<1>2. migration.pc = "running" /\ RfcTypes
  BY DEF MigrateFile, MigrationInv
<1>3. CASE ~ TitleFound(FileAt(s))
  <2>1. UNCHANGED rfcs
    BY <1>1, <1>3
  <2>2. migration' = [migration EXCEPT !.pc = "interrupted", !.todo = {}]
    BY <1>1, <1>3
  <2>3. Legible' = Legible
    BY <2>1 DEF Legible, Slots, Numbers, FileAt
  <2>4. QED BY <1>2, <2>1, <2>2, <2>3 DEF MigrationInv, RfcTypes
<1>4. CASE TitleFound(FileAt(s))
  <2>1. rfcs' = [rfcs EXCEPT ![s[1]][s[2]] = Canonical(s[1], s[2], @)]
    BY <1>1, <1>4
  <2>2. migration' = [migration EXCEPT !.todo = @ \ {s}]
    BY <1>1, <1>4
  <2>3. migration' \in [pc : {"none", "running", "interrupted", "finished"},
                        todo : SUBSET Slot, legible : BOOLEAN]
        /\ migration'.pc = "running" /\ migration'.legible = migration.legible
        /\ migration'.todo = migration.todo \ {s}
    BY <1>2, <2>2 DEF RfcTypes
  <2>4. s \in Slots
    BY <1>2 DEF MigrationInv
  <2>5. QED BY <1>2, <2>1, <2>3, <2>4, FileMigrated DEF MigrationInv, RfcTypes, Files
<1>5. QED BY <1>3, <1>4
\* A run starts with all files, which are legible if those of an interrupted run were.
LEMMA MigrationStarts ==
  ASSUME MigrationInv, StartMigration
  PROVE  MigrationInv'
<1>1. /\ migration' = [pc |-> "running", todo |-> Slots,
                       legible |-> IF migration.pc = "none" THEN Legible ELSE migration.legible]
      /\ UNCHANGED rfcs
  BY DEF StartMigration
<1>2. Legible \in BOOLEAN /\ Slots \subseteq Slot
  BY DEF Legible, Slots
<1>3. Legible' = Legible /\ Slots' = Slots
  BY <1>1 DEF Legible, Slots, Numbers, FileAt
<1>4. migration'.pc = "running" /\ migration'.todo = Slots
      /\ migration'.legible \in BOOLEAN /\ (migration'.legible => Legible)
  BY <1>1, <1>2 DEF MigrationInv, RfcTypes
<1>5. QED BY <1>1, <1>2, <1>3, <1>4 DEF MigrationInv, RfcTypes

\* A run that is interrupted or that gets to its end leaves the files as they are.
LEMMA MigrationStops ==
  ASSUME MigrationInv, InterruptMigration \/ EndMigration
  PROVE  MigrationInv'
<1>1. UNCHANGED rfcs
  BY DEF InterruptMigration, EndMigration
<1>2. Legible' = Legible /\ Slots' = Slots /\ \A s \in Slots : Settled(s)' = Settled(s)
  BY <1>1 DEF Legible, Slots, Numbers, FileAt, Settled
<1>3. CASE InterruptMigration
  BY <1>1, <1>2, <1>3 DEF MigrationInv, RfcTypes, InterruptMigration
<1>4. CASE EndMigration
  BY <1>1, <1>2, <1>4 DEF MigrationInv, RfcTypes, EndMigration
<1>5. QED BY <1>3, <1>4

\* Generators and the edits of other documents leave the files alone.
LEMMA FilesStay ==
  ASSUME MigrationInv, UNCHANGED << rfcs, migration >>
  PROVE  MigrationInv'
<1>1. Legible' = Legible /\ Slots' = Slots /\ \A s \in Slots : Settled(s)' = Settled(s)
  BY DEF Legible, Slots, Numbers, FileAt, Settled
<1>2. QED BY <1>1 DEF MigrationInv, RfcTypes

\* At first there is no migration.
LEMMA MigrationBegins ==
  ASSUME DocumentsInit
  PROVE  MigrationInv
<1>1. ASSUME NEW files \in SUBSET File, RfcInit(files)
      PROVE  MigrationInv
  <2>1. PICK f \in [Number -> Folder \X files] : rfcs = Placed(f)
    BY <1>1 DEF RfcInit
  <2>2. rfcs \in Files
    <3>1. \A n \in Number : f[n][2] \in File
      BY <2>1
    <3>2. QED BY <2>1, <3>1 DEF Placed, Files
  <2>3. QED BY <1>1, <2>2 DEF RfcInit, MigrationInv, RfcTypes, Files
<1>2. Legacy \subseteq File
  <2> DEFINE texts == {[word |-> "Implemented", version |-> "version"],
                       [word |-> "Implemented", version |-> Missing],
                       [word |-> "Draft", version |-> Missing],
                       [word |-> "Superseded", version |-> Missing]}
  <2>1. texts \subseteq StatusText
    BY DEF StatusText, RfcStatus
  <2>2. ASSUME NEW f \in Legacy
        PROVE  \/ \E t \in texts : f = [front |-> Missing, status |-> t, h1 |-> TRUE]
               \/ \E t \in texts :
                    f = [front |-> [status |-> t, title |-> TRUE, implemented_in |-> Missing,
                                    relations |-> Missing], status |-> Missing, h1 |-> FALSE]
               \/ f = [front |-> Missing, status |-> Missing, h1 |-> FALSE]
    BY DEF Legacy
  <2> HIDE DEF texts
  <2>3. ASSUME NEW t \in texts
        PROVE  /\ [front |-> Missing, status |-> t, h1 |-> TRUE] \in File
               /\ [front |-> [status |-> t, title |-> TRUE, implemented_in |-> Missing,
                              relations |-> Missing], status |-> Missing, h1 |-> FALSE] \in File
    <3>1. t \in StatusText
      BY <2>1
    <3>2. [status |-> t, title |-> TRUE, implemented_in |-> Missing,
           relations |-> Missing] \in FrontMatter
      BY <3>1 DEF FrontMatter
    <3>3. QED BY <3>1, <3>2 DEF File
  <2>4. [front |-> Missing, status |-> Missing, h1 |-> FALSE] \in File
    BY DEF File
  <2>5. QED BY <2>2, <2>3, <2>4
<1>3. QED BY <1>1, <1>2 DEF DocumentsInit

\* Every step keeps what is known of the files and of the migration.
LEMMA MigrationSteps ==
  ASSUME MigrationInv, [DocumentsNext]_documentVars
  PROVE  MigrationInv'
<1>1. CASE Generators
  BY <1>1, FilesStay DEF Generators, GenerateIndexes, rfcVars
<1>2. CASE Migration
  BY <1>2, MigrationStarts, FilePassed, MigrationStops DEF Migration
<1>3. CASE EditSurface
  BY <1>3, FilesStay DEF EditSurface, rfcVars
<1>4. CASE EditClaims
  BY <1>4, FilesStay DEF EditClaims, rfcVars
<1>5. CASE EditRfcs
  BY <1>5, RfcEdits DEF MigrationInv
<1>6. CASE UNCHANGED documentVars
  BY <1>6, FilesStay DEF documentVars, rfcVars
<1>7. QED BY <1>1, <1>2, <1>3, <1>4, <1>5, <1>6 DEF DocumentsNext

\* Of legible files that are as the migration leaves them, each has the front
\* matter the gate asks for.
LEMMA SettledIsAccepted ==
  ASSUME RfcTypes, Legible, NEW s \in Slots, Settled(s)
  PROVE  /\ FileAccepted(s)
         /\ FrontOf(s).relations = IF s[2] \in DOMAIN Wave THEN Wave[s[2]] ELSE NoRelations
<1> DEFINE f == FileAt(s)
           front == [status |-> Clean(CanonicalStatus(s[1], f)), title |-> TRUE,
                     implemented_in |-> ImplementedIn(s[1], f),
                     relations |-> IF s[2] \in DOMAIN Wave THEN Wave[s[2]] ELSE NoRelations]
<1>1. f \in File /\ s[1] \in Folder /\ s[2] \in Number
  BY FileThere, SlotParts
<1>2. FrontOf(s) = front /\ FrontOf(s) # Missing
  <2>1. f = Canonical(s[1], s[2], f)
    BY DEF Settled
  <2>2. f.front # Missing
    BY <1>1, <2>1, CanonicalTyped
  <2>3. [f EXCEPT !.front = front].front = front
    <3> HIDE DEF front
    <3>1. QED BY <1>1 DEF File
  <2>4. QED BY <2>1, <2>2, <2>3 DEF FrontOf, Canonical
<1>3. \E word \in FOLDER_OK[s[1]] :
        /\ FrontOf(s).status = Clean(word)
        /\ FrontOf(s).implemented_in = IF word = "Implemented" THEN "version" ELSE Missing
  <2>1. CASE s[1] = "done"
    <3>1. ImplementedIn("done", f) = "version"
      BY <2>1 DEF Legible
    <3>2. "Implemented" \in FOLDER_OK[s[1]]
      BY <2>1 DEF FOLDER_OK
    <3>3. QED BY <1>2, <2>1, <3>1, <3>2 DEF CanonicalStatus
  <2>2. CASE s[1] = "proposed"
    <3>1. CanonicalStatus(s[1], f) \in {"Draft", "Proposed"}
      BY <2>2 DEF CanonicalStatus
    <3>2. FOLDER_OK[s[1]] = {"Draft", "Proposed"}
      BY <2>2 DEF FOLDER_OK
    <3>3. QED BY <1>2, <2>2, <3>1, <3>2 DEF ImplementedIn
  <2>3. CASE s[1] = "archive"
    <3>1. CanonicalStatus(s[1], f) \in {"Withdrawn", "Superseded"}
      BY <2>3 DEF CanonicalStatus
    <3>2. FOLDER_OK[s[1]] = {"Withdrawn", "Superseded"}
      BY <2>3 DEF FOLDER_OK
    <3>3. QED BY <1>2, <2>3, <3>1, <3>2 DEF ImplementedIn
  <2>4. QED BY <1>1, <2>1, <2>2, <2>3 DEF Folder
<1>4. FrontOf(s).relations # Missing
  <2>1. NoRelations \in [Relation -> SUBSET Number]
    BY DEF NoRelations
  <2>2. FrontOf(s).relations \in [Relation -> SUBSET Number]
    BY <1>2, <2>1, RfcAssumption
  <2>3. QED BY <2>2, RfcAssumption
<1>5. ASSUME NEW r \in Relation
      PROVE  FrontOf(s).relations[r] \subseteq Numbers \ {s[2]}
  <2>1. CASE s[2] \in DOMAIN Wave
    <3>1. /\ Wave[s[2]].supersedes = {} /\ Wave[s[2]].superseded_by = {}
          /\ (Wave[s[2]].blocks \cup Wave[s[2]].depends_on) \subseteq Numbers \ {s[2]}
      BY <2>1, RfcAssumption DEF Legible
    <3>2. Wave[s[2]][r] \subseteq Numbers \ {s[2]}
      BY <3>1 DEF Relation
    <3>3. QED BY <1>2, <2>1, <3>2
  <2>2. CASE s[2] \notin DOMAIN Wave
    BY <1>2, <2>2 DEF NoRelations
  <2>3. QED BY <2>1, <2>2
<1>6. QED BY <1>2, <1>3, <1>4, <1>5 DEF FileAccepted

\* Where a number has one file, its relations are those of that file.
LEMMA RelatedIsOfTheFile ==
  ASSUME NEW s \in Slots, \A t \in Slots : t[2] = s[2] => t = s
  PROVE  Related(s[2]) = FrontOf(s).relations
<1> DEFINE order == << "done", "proposed", "archive" >>
           P(i) == /\ << order[i], s[2] >> \in Slots
                   /\ \A j \in i + 1 .. 3 : << order[j], s[2] >> \notin Slots
<1>1. s[1] \in Folder /\ s = << s[1], s[2] >>
  BY SlotParts DEF Slots
<1>2. PICK k \in 1 .. 3 : order[k] = s[1]
  <2>1. order[1] = "done" /\ order[2] = "proposed" /\ order[3] = "archive"
    OBVIOUS
  <2>2. QED BY <1>1, <2>1 DEF Folder
<1>3. \A i \in 1 .. 3 : << order[i], s[2] >> \in Slots => << order[i], s[2] >> = s
  OBVIOUS
<1>4. \A i, j \in 1 .. 3 : order[i] = order[j] => i = j
  OBVIOUS
<1>5. \A i \in 1 .. 3 : << order[i], s[2] >> = s => order[i] = s[1]
  BY <1>1
<1>6. P(k)
  BY <1>1, <1>2, <1>3, <1>4, <1>5
<1>7. PICK last \in 1 .. 3 : last = CHOOSE i \in 1 .. 3 : P(i)
  BY <1>6
<1>8. P(last)
  BY <1>6, <1>7
<1>9. << order[last], s[2] >> = s
  BY <1>3, <1>8
<1>10. QED BY <1>7, <1>9 DEF Related

\* Legible files that are all as the migration leaves them are accepted: the
\* relations, written file by file, mirror each other as those of the wave do.
LEMMA MigratedFiles ==
  ASSUME RfcTypes, Legible, \A s \in Slots : Settled(s)
  PROVE  MetadataAccepted
<1>1. \A s, t \in Slots : s[2] = t[2] => s = t
  BY DEF Legible
<1>2. ASSUME NEW n \in Numbers
      PROVE  Related(n) = IF n \in DOMAIN Wave THEN Wave[n] ELSE NoRelations
  <2>1. PICK s \in Slots : s[2] = n
    BY DEF Numbers
  <2>2. Related(n) = FrontOf(s).relations
    BY <1>1, <2>1, RelatedIsOfTheFile
  <2>3. QED BY <2>1, <2>2, SettledIsAccepted
<1>3. ASSUME NEW n \in Numbers, NEW m \in Related(n).blocks
      PROVE  n \in Related(m).depends_on
  <2>1. n \in DOMAIN Wave
    <3>1. NoRelations.blocks = {}
      BY DEF NoRelations, Relation
    <3>2. QED BY <1>2, <1>3, <3>1
  <2>2. m \in Wave[n].blocks
    BY <1>2, <1>3, <2>1
  <2>3. m \in DOMAIN Wave /\ n \in Wave[m].depends_on
    BY <2>1, <2>2, RfcAssumption
  <2>4. m \in Numbers
    <3>1. PICK s \in Slots : s[2] = n
      BY DEF Numbers
    <3>2. QED BY <2>1, <2>2, <3>1 DEF Legible
  <2>5. QED BY <1>2, <2>3, <2>4
<1>4. QED BY <1>1, <1>3, SettledIsAccepted DEF MetadataAccepted, BlocksMirrored

\* A migration of legible files that gets to its end leaves files that the gate
\* accepts, for any files and any interruptions (migrate_rfc_frontmatter.py).
THEOREM MigrationIsAccepted == DocumentsSpec => []MigratedIsAccepted
<1>1. DocumentsInit => MigrationInv
  BY MigrationBegins
<1>2. MigrationInv /\ [DocumentsNext]_documentVars => MigrationInv'
  BY MigrationSteps
<1>3. MigrationInv => MigratedIsAccepted
  <2> SUFFICES ASSUME MigrationInv, migration.pc = "finished", migration.legible
               PROVE  MetadataAccepted
    BY DEF MigratedIsAccepted
  <2>1. RfcTypes /\ Legible /\ \A s \in Slots : Settled(s)
    BY DEF MigrationInv
  <2>2. QED BY <2>1, MigratedFiles
<1>4. QED BY <1>1, <1>2, <1>3, PTL DEF DocumentsSpec

-----------------------------------------------------------------------------
(* Green gates *)

\* What is known of the sources and the committed documents. No generator
\* commits a refusal, so a document that agrees with its source is a document.
GreenInv ==
  /\ allowlist \in [Name -> Tier \cup {Absent}]
  /\ metadata \in Seq(Ctor)
  /\ DOMAIN generated = SurfaceDoc
  /\ generated["runtime-op-table"] # Refused
  /\ registered \in [Profile -> SUBSET Gate]
  /\ active \in Profile

\* Every step keeps it.
LEMMA GreenSteps ==
  ASSUME GreenInv, [DocumentsNext]_documentVars
  PROVE  GreenInv'
<1>1. CASE UNCHANGED << surfaceVars, claimVars >>
  BY <1>1 DEF GreenInv, surfaceVars, sources, claimVars, claimSources
<1>2. ASSUME NEW doc \in SurfaceDoc, Generate(doc), UNCHANGED claimVars
      PROVE  GreenInv'
  <2>1. /\ Fresh(doc) # Refused
        /\ generated' = [generated EXCEPT ![doc] = Fresh(doc)]
        /\ UNCHANGED sources
    BY <1>2 DEF Generate
  <2>2. DOMAIN generated' = SurfaceDoc /\ generated'["runtime-op-table"] # Refused
    BY <2>1 DEF GreenInv, SurfaceDoc
  <2>3. QED BY <1>2, <2>1, <2>2 DEF GreenInv, sources, claimVars, claimSources
<1>3. ASSUME GenerateLedger, UNCHANGED surfaceVars
      PROVE  GreenInv'
  BY <1>3 DEF GenerateLedger, GreenInv, surfaceVars, sources, claimSources
<1>4. CASE EditSurface
  <2>0. UNCHANGED << registered, active >>
    BY <1>4 DEF EditSurface, claimVars, claimSources
  <2>1. ASSUME NEW n \in Name, NEW d, EditTheorem(n, d) PROVE GreenInv'
    BY <2>0, <2>1 DEF EditTheorem, GreenInv
  <2>2. ASSUME NEW n \in Name, NEW tier \in Tier \cup {Absent}, EditAllowlist(n, tier)
        PROVE  GreenInv'
    BY <2>0, <2>2 DEF EditAllowlist, GreenInv
  <2>3. ASSUME NEW n \in Name, EditPrinted(n) PROVE GreenInv'
    BY <2>0, <2>3 DEF EditPrinted, GreenInv
  <2>4. ASSUME NEW c \in Ctor, EditConstructors(c) PROVE GreenInv'
    BY <2>0, <2>4 DEF EditConstructors, GreenInv
  <2>5. ASSUME NEW m \in SeqOf(Ctor, Descriptors), EditMetadata(m) PROVE GreenInv'
    <3>1. PICK k \in 0 .. Descriptors : m \in [1 .. k -> Ctor]
      BY DEF SeqOf
    <3>2. k \in Nat
      BY DescriptorsAssumption
    <3>3. m \in Seq(Ctor)
      BY <3>1, <3>2
    <3>4. QED BY <2>0, <2>5, <3>3 DEF EditMetadata, GreenInv
  <2>6. ASSUME NEW doc \in SurfaceDoc, LoseDocument(doc) PROVE GreenInv'
    <3>1. Absent # Refused
      BY SurfaceAssumption
    <3>2. QED BY <2>0, <2>6, <3>1 DEF LoseDocument, GreenInv, SurfaceDoc, sources
  <2>7. QED BY <1>4, <2>1, <2>2, <2>3, <2>4, <2>5, <2>6 DEF EditSurface
<1>5. CASE EditClaims
  <2>0. UNCHANGED << allowlist, metadata, generated >>
    BY <1>5 DEF EditClaims, surfaceVars, sources
  <2>1. ASSUME NEW c \in Claim, EditEntry(c) PROVE GreenInv'
    BY <2>0, <2>1 DEF EditEntry, GreenInv
  <2>2. ASSUME NEW g \in Gate, EditGates(g) PROVE GreenInv'
    <3>1. active' = active
      BY <2>2 DEF EditGates
    <3>2. CASE UNCHANGED registered
      BY <2>0, <3>1, <3>2 DEF GreenInv
    <3>3. ASSUME NEW p \in Profile,
                 registered' = [registered EXCEPT ![p] = (@ \ {g}) \cup ({g} \ @)]
          PROVE  GreenInv'
      <4>1. registered' \in [Profile -> SUBSET Gate]
        BY <3>3 DEF GreenInv
      <4>2. QED BY <2>0, <3>1, <4>1 DEF GreenInv
    <3>4. QED BY <2>2, <3>2, <3>3 DEF EditGates
  <2>3. ASSUME NEW p \in Profile, EditProfile(p) PROVE GreenInv'
    BY <2>0, <2>3 DEF EditProfile, GreenInv
  <2>4. CASE EditPages
    BY <2>0, <2>4 DEF EditPages, GreenInv
  <2>5. QED BY <1>5, <2>1, <2>2, <2>3, <2>4 DEF EditClaims
<1>6. QED BY <1>1, <1>2, <1>3, <1>4, <1>5
          DEF DocumentsNext, Generators, Migration, EditRfcs, documentVars

\* It holds in a repository that is in order.
LEMMA GreenBegins ==
  ASSUME DocumentsInit
  PROVE  GreenInv
<1>1. SurfaceInit /\ ClaimsInit
  BY DEF DocumentsInit
<1>2. metadata = << >> /\ ctors = {}
  BY <1>1 DEF SurfaceInit
<1>3. OperationTable = << >>
  <2>1. \A i \in DOMAIN metadata : FALSE
    BY <1>2
  <2>2. {metadata[i] : i \in DOMAIN metadata} = {}
    BY <2>1
  <2>3. QED BY <1>2, <2>1, <2>2 DEF OperationTable, MetadataValid
<1>4. /\ DOMAIN generated = SurfaceDoc
      /\ generated["runtime-op-table"] = << >>
  BY <1>1, <1>3 DEF SurfaceInit, Fresh, SurfaceDoc
<1>5. allowlist \in [Name -> Tier \cup {Absent}]
  BY <1>1 DEF SurfaceInit, Tier
<1>6. registered \in [Profile -> SUBSET Gate] /\ active \in Profile
  BY <1>1, ClaimsAssumption DEF ClaimsInit
<1>7. << >> # Refused /\ << >> \in Seq(Ctor)
  BY SurfaceAssumption
<1>8. QED BY <1>2, <1>4, <1>5, <1>6, <1>7 DEF GreenInv

\* A list without repetitions is as long as it has members.
LEMMA DistinctLength ==
  ASSUME NEW T, NEW q \in Seq(T), \A i, j \in DOMAIN q : q[i] = q[j] => i = j
  PROVE  Cardinality({q[i] : i \in DOMAIN q}) = Len(q)
<1> DEFINE S == 1 .. Len(q)
           R == {q[i] : i \in DOMAIN q}
<1>1. Len(q) \in Nat /\ DOMAIN q = S /\ q = [i \in S |-> q[i]]
  BY LenProperties
<1>2. IsFiniteSet(S) /\ Cardinality(S) = Len(q)
  <2>1. PICK n \in Nat : n = Len(q)
    BY <1>1
  <2>2. IsFiniteSet(1 .. n) /\ Cardinality(1 .. n) = n
    BY ONLY n \in Nat, FS_Interval
  <2>3. QED BY <2>1, <2>2
<1>3. q \in Bijection(S, R)
  <2>1. q \in [S -> R]
    <3>1. \A i \in S : q[i] \in R
      BY <1>1
    <3>2. QED BY <1>1, <3>1
  <2>2. \A i, j \in S : q[i] = q[j] => i = j
    BY <1>1
  <2>3. \A r \in R : \E i \in S : q[i] = r
    BY <1>1
  <2> HIDE DEF R, S
  <2>4. QED BY <2>1, <2>2, <2>3 DEF Bijection, Injection, Surjection, IsInjective
<1>4. QED BY <1>2, <1>3, FS_Bijection DEF ExistsBijection
\* Green gates make the page on theorems true: the audit ties the allowlist to
\* Lean, and the documents are those that the generators would write.
LEMMA GreenTheorems ==
  ASSUME GreenInv, GreenGates
  PROVE  TheoremsTold
<1>1. /\ printed # {} /\ printed = Audited
      /\ \A n \in Audited :
           /\ lean[n] # Absent
           /\ Required(allowlist[n]) \subseteq lean[n].axioms
           /\ lean[n].axioms \subseteq Allowed(allowlist[n])
  BY DEF GreenGates, AxiomAudit
<1>2. \A doc \in SurfaceDoc : generated[doc] = Fresh(doc)
  BY DEF GreenGates, DocsGate, SurfaceCurrent
<1>3. Audited \subseteq Name /\ \A n \in Audited : allowlist[n] \in Tier
  BY DEF Audited, GreenInv
<1>4. /\ generated["public-theorem-index"] = Audited
      /\ generated["public-theorems"] = PublicTheorems
      /\ generated["proof-dependency-budget"] = DependencyBudget(PublicTheorems)
      /\ generated["axiom-budget"] = [t \in Tier |-> Cardinality({n \in Audited : allowlist[n] = t})]
      /\ generated["runtime-op-table"] = OperationTable
  BY <1>1, <1>2 DEF SurfaceDoc, Fresh, TheoremIndex, AxiomBudget
<1>5. generated["public-theorem-index"] \subseteq {n \in Name : lean[n] # Absent}
  BY <1>1, <1>3, <1>4
<1>6. ASSUME NEW row \in generated["public-theorems"]
      PROVE  lean[row.name] # Absent /\ (row.audited => row.name \in printed)
  <2>1. PICK n \in Collected : row = [name |-> n, audited |-> n \in Audited]
    BY <1>4, <1>6 DEF PublicTheorems
  <2>2. lean[n] # Absent
    BY DEF Collected
  <2>3. row.name = n /\ (row.audited <=> n \in Audited)
    BY <2>1, Zenon
  <2>4. n \in Audited => n \in printed
    BY <1>1
  <2>5. QED BY <2>2, <2>3, <2>4, Zenon
<1>7. ASSUME NEW row \in generated["proof-dependency-budget"]
      PROVE  LET axioms == lean[row.name].axioms IN
             /\ row.constructiveness = "constructive" => axioms = {}
             /\ row.constructiveness = "classical" => "NativeDeque" \notin axioms
             /\ row.constructiveness = "trusted" => "NativeDeque" \in axioms
             /\ row.stable => row.name \in PublicName
  <2>1. PICK n \in Audited :
          row = [name |-> n, weight |-> WeightOf[n],
                 constructiveness |-> Constructiveness(allowlist[n]),
                 stable |-> n \in PublicStable(PublicTheorems)]
    BY <1>4, <1>7 DEF DependencyBudget
  <2>2. n \in PublicStable(PublicTheorems) => n \in PublicName
    BY DEF PublicStable, PublicTheorems, Collected
  <2>3. allowlist[n] \in Tier
    BY <1>3
  <2>4. CASE allowlist[n] = "STD"
    <3>1. Constructiveness(allowlist[n]) = "constructive"
      BY <2>4 DEF Constructiveness, Required, Allowed
    <3>2. lean[n].axioms = {}
      BY <1>1, <2>4 DEF Allowed
    <3>3. QED BY <2>1, <2>2, <3>1, <3>2
  <2>5. CASE allowlist[n] = "STD_C"
    <3>1. Constructiveness(allowlist[n]) = "classical"
      BY <2>5 DEF Constructiveness, Required, Allowed
    <3>2. "NativeDeque" \notin lean[n].axioms
      BY <1>1, <2>5 DEF Allowed
    <3>3. QED BY <2>1, <2>2, <3>1, <3>2
  <2>6. CASE allowlist[n] = "NATIVE"
    <3>1. Constructiveness(allowlist[n]) = "trusted"
      BY <2>6 DEF Constructiveness, Required
    <3>2. "NativeDeque" \in lean[n].axioms
      BY <1>1, <2>6 DEF Required
    <3>3. QED BY <2>1, <2>2, <3>1, <3>2
  <2>7. QED BY <2>3, <2>4, <2>5, <2>6 DEF Tier
<1>8. ASSUME NEW t \in Tier
      PROVE  generated["axiom-budget"][t] <=
               Cardinality({n \in Name : lean[n] # Absent /\ lean[n].axioms \subseteq Allowed(t)})
  <2> DEFINE A == {n \in Audited : allowlist[n] = t}
             B == {n \in Name : lean[n] # Absent /\ lean[n].axioms \subseteq Allowed(t)}
  <2>1. A \subseteq B
    BY <1>1, <1>3
  <2>2. IsFiniteSet(B)
    <3>1. IsFiniteSet(Name) /\ B \subseteq Name
      BY SurfaceAssumption
    <3> HIDE DEF B
    <3>2. QED BY <3>1, FS_Subset
  <2>3. Cardinality(A) <= Cardinality(B)
    <3> HIDE DEF A, B
    <3>1. QED BY <2>1, <2>2, FS_Subset
  <2>4. generated["axiom-budget"][t] = Cardinality(A)
    BY <1>4
  <2>5. QED BY <2>3, <2>4
<1>9. MetadataValid /\ generated["runtime-op-table"] = metadata
  BY <1>4 DEF OperationTable, GreenInv
<1>10. /\ {metadata[i] : i \in DOMAIN metadata} = ctors
       /\ Len(metadata) = Cardinality(ctors)
  <2>1. /\ metadata \in Seq(Ctor)
        /\ \A i, j \in DOMAIN metadata : metadata[i] = metadata[j] => i = j
        /\ {metadata[i] : i \in DOMAIN metadata} = ctors
    BY <1>9 DEF MetadataValid, GreenInv
  <2>2. QED BY <2>1, DistinctLength
<1>11. QED BY <1>5, <1>6, <1>7, <1>8, <1>9, <1>10 DEF TheoremsTold

\* Green gates make the page on claims true: a claim that is here is bound to a
\* gate with the capability its kind of evidence needs, which is then registered
\* under the profile in force, and so runs.
LEMMA GreenClaims ==
  ASSUME GreenInv, GreenGates
  PROVE  ClaimsTold
<1>1. /\ ledgerPage = Rendered /\ LedgerValid
      /\ declared = {g \in Gate : capability[g] # Null}
  BY DEF GreenGates, DocsGate, ClaimsCurrent, RegistryExact
<1>2. SUFFICES ASSUME NEW c \in Claimed, ledger[c].here, Row(c).binding # Null
               PROVE  LET row == Row(c) IN
                      /\ row.binding[1] = active
                      /\ row.binding[2] \in declared
                      /\ row.tier = "PROVEN"  => capability[row.binding[2]] = "kernel-build"
                      /\ row.tier = "TRUSTED" => capability[row.binding[2]] = "axiom-audit"
                      /\ row.tier = "TESTED"  => capability[row.binding[2]] = "executable-test"
  BY <1>1 DEF ClaimsTold, Rendered, Row
<1> DEFINE entry == ledger[c]
<1>3. EntryValid(entry)
  BY <1>1 DEF LedgerValid
<1>4. entry.ci /\ Row(c).binding = << entry.profile, entry.gate >> /\ Row(c).tier = entry.tier
  BY <1>2 DEF Row
<1>5. entry.location \in InTree
  BY <1>2, <1>3 DEF EntryValid
<1>6. /\ entry.profile = active /\ entry.gate \in registered[Bindable]
      /\ capability[entry.gate] = NeededFor(entry) /\ NeededFor(entry) # Null
  BY <1>3, <1>4, <1>5 DEF EntryValid, Bound, BoundToActive
<1>7. entry.gate \in Gate
  BY <1>6, ClaimsAssumption DEF GreenInv
<1>8. entry.gate \in declared
  BY <1>1, <1>6, <1>7
<1>9. /\ entry.tier = "PROVEN"  => NeededFor(entry) = "kernel-build"
      /\ entry.tier = "TRUSTED" => NeededFor(entry) = "axiom-audit"
      /\ entry.tier = "TESTED"  => NeededFor(entry) = "executable-test"
  BY <1>6 DEF NeededFor
<1>10. QED BY <1>4, <1>6, <1>8, <1>9

\* Green gates make the indexes true: a number has one file, and its row has the
\* section and the version of that file.
LEMMA GreenRfcs ==
  ASSUME GreenGates
  PROVE  RfcsTold
<1>1. /\ indexes = IndexRows
      /\ \A s \in Slots : FileAccepted(s)
      /\ \A s, t \in Slots : s[2] = t[2] => s = t
  BY DEF GreenGates, DocsGate, IndexCurrent, MetadataAccepted
<1>0. SUFFICES ASSUME NEW n \in Numbers
               PROVE  \E row \in indexes :
                        /\ row.rfc = n
                        /\ \A other \in indexes : other.rfc = n => other = row
                        /\ << row.section, n >> \in Slots
                        /\ FrontOf(<< row.section, n >>).status.word \in FOLDER_OK[row.section]
                        /\ row.note[1] = "shipped in" <=> row.note = << "shipped in", "version" >>
  BY Zenon DEF RfcsTold
<1>2. PICK s \in Slots : s[2] = n
  BY DEF Numbers
<1> DEFINE row == [section |-> s[1], rfc |-> s[2], note |-> Note(s)]
<1>3. s = << s[1], s[2] >> /\ s[1] \in Folder
  BY SlotParts DEF Slots
<1>4. FrontOf(s) # Missing
  BY <1>1 DEF FileAccepted
<1>5. row \in indexes
  BY <1>1, <1>4 DEF IndexRows
<1>6. ASSUME NEW other \in indexes, other.rfc = s[2]
      PROVE  other = row
  <2>1. PICK t \in Slots : other = [section |-> t[1], rfc |-> t[2], note |-> Note(t)]
    BY <1>1 DEF IndexRows
  <2>2. t = s
    BY <1>1, <1>6, <2>1
  <2>3. QED BY <2>1, <2>2
<1>7. PICK word \in FOLDER_OK[s[1]] :
        /\ FrontOf(s).status = Clean(word)
        /\ FrontOf(s).implemented_in = IF word = "Implemented" THEN "version" ELSE Missing
  BY <1>1 DEF FileAccepted
<1>8. FrontOf(s).status.word = word
  BY <1>7 DEF Clean
<1>9. Note(s)[1] = "shipped in" <=> Note(s) = << "shipped in", "version" >>
  <2>0. << "shipped in", "version" >>[1] = "shipped in"
    OBVIOUS
  <2>1. CASE s[1] = "done"
    <3>1. word = "Implemented"
      BY <1>7, <2>1 DEF FOLDER_OK
    <3>2. Note(s) = << "shipped in", "version" >>
      BY <1>7, <2>1, <3>1 DEF Note
    <3>3. QED BY <2>0, <3>2
  <2>2. CASE s[1] = "proposed"
    <3>1. Note(s)[1] = "depends on"
      BY <2>2 DEF Note
    <3>2. QED BY <2>0, <3>1
  <2>3. CASE s[1] = "archive"
    <3>1. Note(s)[1] \in {"superseded by", "status"}
      BY <2>3 DEF Note
    <3>2. QED BY <2>0, <3>1
  <2>4. QED BY <1>3, <2>1, <2>2, <2>3 DEF Folder
<1>10. /\ row.rfc = s[2] /\ << row.section, s[2] >> = s
       /\ row.section = s[1] /\ row.note = Note(s)
  BY <1>3
<1> HIDE DEF row
<1>11. QED BY <1>2, <1>5, <1>6, <1>7, <1>8, <1>9, <1>10

\* When the gates are green, the committed documents are true of the code, for
\* any theorems, claims, gates and RFCs, and any edits (check.sh, gates 0, 6 to 8).
THEOREM GreenDocuments == DocumentsSpec => []GreenIsTrue
<1>1. DocumentsInit => GreenInv
  BY GreenBegins
<1>2. GreenInv /\ [DocumentsNext]_documentVars => GreenInv'
  BY GreenSteps
<1>3. GreenInv => GreenIsTrue
  BY GreenTheorems, GreenClaims, GreenRfcs DEF GreenIsTrue
<1>4. QED BY <1>1, <1>2, <1>3, PTL DEF DocumentsSpec

=============================================================================
