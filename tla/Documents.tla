------------------------------ MODULE Documents ------------------------------
(***************************************************************************)
(* The documents of the repository beside their sources. Developers edit   *)
(* sources one at a time, and run the generators when gate 7 tells them    *)
(* to, in any order: one generator reads what another one has committed.   *)
(***************************************************************************)
EXTENDS Surface, Claims, Rfcs, SequencesExt

CONSTANT Descriptors  \* how many descriptors the metadata have at most

ASSUME DescriptorsAssumption == Descriptors \in Nat

VARIABLE edits  \* how many there were; each run bounds them

documentVars == << surfaceVars, claimVars, rfcVars, edits >>

Generators ==
  /\ \/ /\ \E doc \in SurfaceDoc : Generate(doc)
        /\ UNCHANGED << claimVars, rfcVars >>
     \/ GenerateLedger /\ UNCHANGED << surfaceVars, rfcVars >>
     \/ GenerateIndexes /\ UNCHANGED << surfaceVars, claimVars >>
  /\ UNCHANGED edits

Migration ==
  /\ StartMigration \/ MigrateFile \/ InterruptMigration \/ EndMigration
  /\ UNCHANGED << surfaceVars, claimVars, edits >>

Counted == edits' = edits + 1

EditSurface ==
  /\ Counted
  /\ \/ \E n \in Name : \E d \in Declaration \cup {Absent} : EditTheorem(n, d)
     \/ \E n \in Name : \E tier \in Tier \cup {Absent} : EditAllowlist(n, tier)
     \/ \E n \in Name : EditPrinted(n)
     \/ \E c \in Ctor : EditConstructors(c)
     \/ \E m \in SeqOf(Ctor, Descriptors) : EditMetadata(m)
     \/ \E doc \in SurfaceDoc : LoseDocument(doc)
  /\ UNCHANGED << claimVars, rfcVars >>

EditClaims ==
  /\ Counted
  /\ \/ \E c \in Claim : EditEntry(c)
     \/ \E g \in Gate : EditGates(g)
     \/ \E p \in Profile : EditProfile(p)
     \/ EditPages
  /\ UNCHANGED << surfaceVars, rfcVars >>

EditRfcs ==
  /\ Counted
  /\ \/ \E n \in Number : Propose(n)
     \/ \E s \in Slot, folder \in Folder : CopyFile(s, folder)
     \/ \E s \in Slot : RemoveFile(s) \/ LoseFrontMatter(s)
     \/ \E s \in Slot, word \in RfcStatus, v \in {Missing} \cup Shipped : SetStatus(s, word, v)
     \/ \E s \in Slot, r \in Relation, n \in Number : Relate(s, r, n)
  /\ UNCHANGED << surfaceVars, claimVars >>

DocumentsNext == Generators \/ Migration \/ EditSurface \/ EditClaims \/ EditRfcs

\* Everything is in order, but for RFCs as they were before the migration.
DocumentsInit ==
  /\ edits = 0
  /\ SurfaceInit
  /\ ClaimsInit
  /\ RfcInit(Legacy) \/ \E files \in SUBSET File : RfcInit(files) /\ MetadataAccepted

DocumentsSpec == DocumentsInit /\ [][DocumentsNext]_documentVars

\* Gates 0 and 6 to 8 of check.sh, in the part that looks at the documents.
DocsGate == SurfaceCurrent /\ ClaimsCurrent /\ IndexCurrent

GreenGates ==
  SelfTest /\ RegistryExact /\ AxiomAudit /\ DocsGate /\ MetadataAccepted

-----------------------------------------------------------------------------

\* What the page on theorems says of each name is true of Lean.
TheoremsTold ==
  /\ generated["public-theorem-index"] \subseteq {n \in Name : lean[n] # Absent}
  /\ \A row \in generated["public-theorems"] :
       /\ lean[row.name] # Absent
       /\ row.audited => row.name \in printed
  /\ \A row \in generated["proof-dependency-budget"] :
       LET axioms == lean[row.name].axioms IN
       /\ row.constructiveness = "constructive" => axioms = {}
       /\ row.constructiveness = "classical" => "NativeDeque" \notin axioms
       /\ row.constructiveness = "trusted" => "NativeDeque" \in axioms
       /\ row.stable => row.name \in PublicName
  /\ \A t \in Tier :
       generated["axiom-budget"][t] <=
         Cardinality({n \in Name : lean[n] # Absent /\ lean[n].axioms \subseteq Allowed(t)})
  /\ {generated["runtime-op-table"][i] : i \in DOMAIN generated["runtime-op-table"]} = ctors
  /\ Len(generated["runtime-op-table"]) = Cardinality(ctors)

\* A claim shown as proved, trusted or tested here and bound to a gate is bound to
\* one that runs, under the profile in force, and can show such a thing.
ClaimsTold ==
  \A row \in ledgerPage :
    row.here /\ row.binding # Null =>
      /\ row.binding[1] = active
      /\ row.binding[2] \in declared
      /\ row.tier = "PROVEN"  => capability[row.binding[2]] = "kernel-build"
      /\ row.tier = "TRUSTED" => capability[row.binding[2]] = "axiom-audit"
      /\ row.tier = "TESTED"  => capability[row.binding[2]] = "executable-test"

\* Every RFC is in the index, once, in the section its status belongs to, and
\* shown as shipped if and only if it is implemented.
RfcsTold ==
  \A n \in Numbers :
    \E row \in indexes :
      /\ row.rfc = n
      /\ \A other \in indexes : other.rfc = n => other = row
      /\ << row.section, n >> \in Slots
      /\ FrontOf(<< row.section, n >>).status.word \in FOLDER_OK[row.section]
      /\ row.note[1] = "shipped in" <=> row.note = << "shipped in", "version" >>

\* When the gates are green, the committed documents are true of the code, though
\* each gate compares only two texts: the audit ties the allowlist to Lean, the
\* generators tie most documents to the allowlist, and one document to another.
GreenIsTrue == GreenGates => TheoremsTold /\ ClaimsTold /\ RfcsTold

\* Once edits stop, running the generators whose check fails, in whatever order,
\* ends with gate 7 green unless a source is one that a generator or the gate
\* refuses: no generator undoes what another one needs.
RegenerationConverges ==
  <>[](/\ Audited # {} /\ MetadataValid
       /\ LedgerValid /\ NoForbiddenClaim
       /\ Collectable
       => DocsGate)

\* Against public_theorem_index.py, which says that no public name can disappear
\* without an edit to the snapshot: between two green states with one snapshot,
\* no theorem with a public name is removed.
PublicNameNeverVanishes ==
  [][GreenGates /\ GreenGates' /\ UNCHANGED generated["public-theorems"] =>
       \A n \in PublicName : lean[n] # Absent => lean'[n] # Absent]_documentVars

\* A failing check names the generator to run, and a developer runs it.
GeneratorFairness ==
  /\ \A doc \in SurfaceDoc : WF_documentVars(Generate(doc) /\ UNCHANGED << claimVars, rfcVars, edits >>)
  /\ WF_documentVars(GenerateLedger /\ UNCHANGED << surfaceVars, rfcVars, edits >>)
  /\ WF_documentVars(GenerateIndexes /\ UNCHANGED << surfaceVars, claimVars, edits >>)

=============================================================================
