-------------------------------- MODULE Rfcs --------------------------------
(***************************************************************************)
(* The RFC files in rfcs/done, proposed and archive: their front matter,   *)
(* the gate on it (rfc_metadata_check.py), the two indexes generated from  *)
(* it (extract_rfc_index.py) and the migration of older files to it        *)
(* (migrate_rfc_frontmatter.py), file by file.                             *)
(***************************************************************************)
EXTENDS Naturals, FiniteSets

CONSTANTS
  Number,       \* RFC numbers
  Wave,         \* declared relations of the stabilization wave
  Missing       \* no file, no front matter, no value, no index

Folder == {"done", "proposed", "archive"}
Relation == {"supersedes", "superseded_by", "depends_on", "blocks"}
RfcStatus == {"Draft", "Proposed", "Implemented", "Withdrawn", "Superseded"}

\* A version: vMAJOR.MINOR.PATCH, or text that begins otherwise or goes on.
Shipped == {"version", "other"}

\* A status line: the status word it opens with, and a version in the rest of it.
StatusText == [word : RfcStatus, version : {Missing, "version"}]

\* Front matter; an old one lacks the relations. null is Missing.
FrontMatter ==
  [status : StatusText, title : BOOLEAN, implemented_in : {Missing} \cup Shipped,
   relations : {Missing} \cup [Relation -> SUBSET Number]]

\* A file, with the status and the title that stand in its body.
File ==
  [front : {Missing} \cup FrontMatter, status : {Missing} \cup StatusText, h1 : BOOLEAN]

NoRelations == [r \in Relation |-> {}]

ASSUME RfcAssumption ==
  /\ Number \subseteq Nat /\ IsFiniteSet(Number)
  /\ DOMAIN Wave \subseteq Number
  /\ \A n \in DOMAIN Wave :
       /\ Wave[n] \in [Relation -> SUBSET Number]
       /\ Wave[n].supersedes = {} /\ Wave[n].superseded_by = {}
  /\ \A n \in DOMAIN Wave : \A m \in Wave[n].blocks :
       m \in DOMAIN Wave /\ n \in Wave[m].depends_on
  /\ Missing \notin File \cup FrontMatter \cup StatusText \cup Shipped
  /\ Missing \notin [Relation -> SUBSET Number]

VARIABLES
  rfcs,         \* the file of a number in a folder
  indexes,      \* the rows of the book's index and of rfcs/README.md
  migration     \* stage, files to go, and whether the first run found them legible

rfcVars == << rfcs, indexes, migration >>

Slot == Folder \X Number
FileAt(s) == rfcs[s[1]][s[2]]
Slots == {s \in Slot : FileAt(s) # Missing}
Numbers == {s[2] : s \in Slots}
FrontOf(s) == FileAt(s).front
Clean(word) == [word |-> word, version |-> Missing]

-----------------------------------------------------------------------------
(* rfc_metadata_check.py *)

FOLDER_OK ==
  [done     |-> {"Implemented"},
   proposed |-> {"Draft", "Proposed"},
   archive  |-> {"Withdrawn", "Superseded"}]

\* What the gate asks of one file: every field, the status of its folder and
\* nothing else on that line, a version if and only if it is implemented, and
\* relations to other RFCs that exist.
FileAccepted(s) ==
  /\ FrontOf(s) # Missing
  /\ FrontOf(s).title
  /\ FrontOf(s).relations # Missing
  /\ \E word \in FOLDER_OK[s[1]] :
       /\ FrontOf(s).status = Clean(word)
       /\ FrontOf(s).implemented_in = IF word = "Implemented" THEN "version" ELSE Missing
  /\ \A r \in Relation : FrontOf(s).relations[r] \subseteq Numbers \ {s[2]}

\* relations: of two files with one number the last read counts.
Related(n) ==
  LET order == << "done", "proposed", "archive" >>
      last == CHOOSE i \in 1 .. 3 :
                /\ << order[i], n >> \in Slots
                /\ \A j \in i + 1 .. 3 : << order[j], n >> \notin Slots
  IN FrontOf(<< order[last], n >>).relations

\* blocks is mirrored by depends_on.
BlocksMirrored ==
  \A n \in Numbers : \A m \in Related(n).blocks : n \in Related(m).depends_on

MetadataAccepted ==
  /\ \A s \in Slots : FileAccepted(s)
  /\ \A s, t \in Slots : s[2] = t[2] => s = t
  /\ BlocksMirrored

-----------------------------------------------------------------------------
(* extract_rfc_index.py *)

\* A file without front matter has no row; a row needs the fields it shows.
Collectable == \A s \in Slots : FrontOf(s) # Missing => FrontOf(s).title /\ FrontOf(s).relations # Missing

\* The column of a row: when it shipped, what it waits for, or its note.
Note(s) ==
  CASE s[1] = "done" -> << "shipped in", FrontOf(s).implemented_in >>
    [] s[1] = "proposed" -> << "depends on", FrontOf(s).relations["depends_on"] >>
    [] s[1] = "archive" /\ FrontOf(s).status = Clean("Superseded") ->
         << "superseded by", FrontOf(s).relations["superseded_by"] >>
    [] OTHER -> << "status", FrontOf(s).status >>

IndexRows ==
  {[section |-> s[1], rfc |-> s[2], note |-> Note(s)] :
     s \in {t \in Slots : FrontOf(t) # Missing}}

IndexCurrent == Collectable /\ indexes = IndexRows

GenerateIndexes ==
  /\ Collectable
  /\ indexes # IndexRows
  /\ indexes' = IndexRows
  /\ UNCHANGED << rfcs, migration >>

-----------------------------------------------------------------------------
(* migrate_rfc_frontmatter.py *)

TitleFound(f) == (f.front # Missing /\ f.front.title) \/ f.h1

\* The status line looked at: that of the front matter, else that of the body.
StatusTextOf(f) == IF f.front # Missing THEN f.front.status ELSE f.status

Word(f) == IF StatusTextOf(f) = Missing THEN Missing ELSE StatusTextOf(f).word

\* The folder is the source of truth, the text decides within it.
CanonicalStatus(folder, f) ==
  CASE folder = "done" -> "Implemented"
    [] folder = "proposed" -> IF Word(f) = "Draft" THEN "Draft" ELSE "Proposed"
    [] folder = "archive" -> IF Word(f) = "Superseded" THEN "Superseded" ELSE "Withdrawn"

VersionInText(f) == IF StatusTextOf(f) = Missing THEN Missing ELSE StatusTextOf(f).version

\* Fault: the version is looked for in the status line every time.
VersionFromText(folder, f) ==
  IF folder = "done" THEN VersionInText(f) ELSE Missing

\* A version in the front matter is kept; else one is looked for in the status line.
ImplementedIn(folder, f) ==
  IF folder # "done" THEN Missing
  ELSE IF f.front # Missing /\ f.front.implemented_in # Missing
       THEN f.front.implemented_in ELSE VersionInText(f)

\* build_frontmatter: relations are those of the wave and no others.
Canonical(folder, n, f) ==
  [f EXCEPT !.front =
     [status |-> Clean(CanonicalStatus(folder, f)), title |-> TRUE,
      implemented_in |-> ImplementedIn(folder, f),
      relations |-> IF n \in DOMAIN Wave THEN Wave[n] ELSE NoRelations]]

\* What a set of files must be like for a migration to succeed.
Legible ==
  /\ \A s \in Slots :
       /\ TitleFound(FileAt(s))
       /\ s[1] = "done" => ImplementedIn("done", FileAt(s)) = "version"
       /\ s[2] \in DOMAIN Wave =>
            (Wave[s[2]].blocks \cup Wave[s[2]].depends_on) \subseteq Numbers \ {s[2]}
  /\ \A s, t \in Slots : s[2] = t[2] => s = t

\* done, proposed, archive, each in the order of the file names.
Before(s, t) ==
  LET rank(u) == CASE u[1] = "done" -> 0 [] u[1] = "proposed" -> 1 [] u[1] = "archive" -> 2
  IN rank(s) < rank(t) \/ (rank(s) = rank(t) /\ s[2] < t[2])

\* A first run since the last edit, or another after a run that was interrupted.
StartMigration ==
  /\ migration.pc \in {"none", "interrupted"}
  /\ migration' = [pc |-> "running", todo |-> Slots,
                   legible |-> IF migration.pc = "none" THEN Legible ELSE migration.legible]
  /\ UNCHANGED << rfcs, indexes >>

\* The next file. One without a title ends the run where it is.
MigrateFile ==
  /\ migration.pc = "running"
  /\ \E s \in migration.todo :
       /\ \A t \in migration.todo \ {s} : Before(s, t)
       /\ IF TitleFound(FileAt(s))
          THEN /\ rfcs' = [rfcs EXCEPT ![s[1]][s[2]] = Canonical(s[1], s[2], @)]
               /\ migration' = [migration EXCEPT !.todo = @ \ {s}]
          ELSE UNCHANGED rfcs /\ migration' = [migration EXCEPT !.pc = "interrupted", !.todo = {}]
  /\ UNCHANGED indexes

InterruptMigration ==
  /\ migration.pc = "running"
  /\ migration.todo # {}
  /\ migration' = [migration EXCEPT !.pc = "interrupted", !.todo = {}]
  /\ UNCHANGED << rfcs, indexes >>

EndMigration ==
  /\ migration.pc = "running"
  /\ migration.todo = {}
  /\ migration' = [migration EXCEPT !.pc = "finished"]
  /\ UNCHANGED << rfcs, indexes >>

-----------------------------------------------------------------------------
(* Edits, while no migration runs. *)

Edited(new) ==
  /\ migration.pc # "running"
  /\ rfcs' = new
  /\ migration' = [pc |-> "none", todo |-> {}, legible |-> FALSE]
  /\ UNCHANGED indexes

\* A new file, from the template.
Propose(n) ==
  /\ n \notin Numbers
  /\ Edited([rfcs EXCEPT !["proposed"][n] =
       [front |-> [status |-> Clean("Draft"), title |-> TRUE, implemented_in |-> Missing,
                   relations |-> NoRelations],
        status |-> Missing, h1 |-> TRUE]])

\* A file is copied to another folder; its status line is another edit.
CopyFile(s, folder) ==
  /\ s \in Slots
  /\ rfcs[folder][s[2]] = Missing
  /\ Edited([rfcs EXCEPT ![folder][s[2]] = FileAt(s)])

RemoveFile(s) ==
  /\ s \in Slots
  /\ Edited([rfcs EXCEPT ![s[1]][s[2]] = Missing])

SetStatus(s, word, version) ==
  /\ s \in Slots /\ FrontOf(s) # Missing
  /\ Edited([rfcs EXCEPT ![s[1]][s[2]].front =
       [@ EXCEPT !.status = Clean(word), !.implemented_in = version]])

Relate(s, r, n) ==
  /\ s \in Slots /\ FrontOf(s) # Missing /\ FrontOf(s).relations # Missing
  /\ Edited([rfcs EXCEPT ![s[1]][s[2]].front.relations[r] = (@ \ {n}) \cup ({n} \ @)])

LoseFrontMatter(s) ==
  /\ s \in Slots
  /\ Edited([rfcs EXCEPT ![s[1]][s[2]].front = Missing])

\* Older files, by the way they state their status: front matter without the
\* relations, a line in the body, or a body that says nothing and has no title.
Legacy ==
  LET text(word, version) == [word |-> word, version |-> version]
      texts == {text("Implemented", "version"), text("Implemented", Missing),
                text("Draft", Missing), text("Superseded", Missing)}
  IN {[front |-> Missing, status |-> t, h1 |-> TRUE] : t \in texts} \cup
     {[front |-> [status |-> t, title |-> TRUE, implemented_in |-> Missing,
                  relations |-> Missing], status |-> Missing, h1 |-> FALSE] : t \in texts} \cup
     {[front |-> Missing, status |-> Missing, h1 |-> FALSE]}

Placed(f) == [folder \in Folder |-> [n \in Number |-> IF f[n][1] = folder THEN f[n][2] ELSE Missing]]

\* Before the migration without indexes, or after it with current ones.
RfcInit(files) ==
  /\ \E f \in [Number -> Folder \X files] : rfcs = Placed(f)
  /\ indexes = IF files = Legacy THEN Missing ELSE IndexRows
  /\ migration = [pc |-> "none", todo |-> {}, legible |-> FALSE]

\* However often a migration of legible files was interrupted, with some of them
\* migrated and some not, and started again, once a run gets to its end the gate
\* accepts all of them: no version is lost to a second run, and the relations
\* written file by file mirror each other.
MigratedIsAccepted ==
  migration.pc = "finished" /\ migration.legible => MetadataAccepted

=============================================================================
