------------------------------- MODULE Surface -------------------------------
(***************************************************************************)
(* The theorems of Henret/, the axiom audit over them (axiom_audit.py, with *)
(* the list of names in check.sh), the checked metadata of the model       *)
(* (Henret/Meta/Docs.lean), and the documents generated from all of it     *)
(* into docs/src/generated. A document is what it says of each name.       *)
(***************************************************************************)
EXTENDS FiniteSets, Sequences, Naturals

CONSTANTS
  Name,         \* theorem names
  PublicName,   \* those that begin with a stable public prefix
  WeightOf,     \* the import weight of a name's namespace
  Ctor,         \* names of constructors of RuntimeOp
  Absent,       \* no file, no declaration, no entry
  Refused       \* a generator that exits without writing

\* A theorem depends on no axiom but the kernel's standard ones, or on these.
Axiom == {"Classical.choice", "NativeDeque"}
Tier == {"STD", "STD_C", "NATIVE"}
Declaration == [bare : BOOLEAN, axioms : SUBSET Axiom]

ASSUME SurfaceAssumption ==
  /\ PublicName \subseteq Name /\ IsFiniteSet(Name)
  /\ Absent \notin Declaration \cup Tier
  /\ Refused \notin {Absent, << >>}

VARIABLES
  lean,         \* the declaration of a theorem; bare: "theorem" begins its line
  allowlist,    \* the tier of an audited theorem
  printed,      \* the names check.sh prints the axioms of
  ctors,        \* the constructors RuntimeOp has
  metadata,     \* the descriptors of Henret/Meta/Docs.lean
  generated     \* the committed documents

sources == << lean, allowlist, printed, ctors, metadata >>
surfaceVars == << sources, generated >>

Audited == {n \in Name : allowlist[n] # Absent}

Required(tier) == IF tier = "NATIVE" THEN {"NativeDeque"} ELSE {}

Allowed(tier) ==
  CASE tier = "STD" -> {}
    [] tier = "STD_C" -> {"Classical.choice"}
    [] tier = "NATIVE" -> Axiom

-----------------------------------------------------------------------------
(* Gates 0 and 6 *)

\* A printed name without a declaration gives no output, and is then missed.
AxiomAudit ==
  /\ printed # {}
  /\ printed = Audited
  /\ \A n \in printed :
       /\ lean[n] # Absent
       /\ Required(allowlist[n]) \subseteq lean[n].axioms
       /\ lean[n].axioms \subseteq Allowed(allowlist[n])

\* Gate 0 compares the two lists before anything is built.
SelfTest == printed = Audited

-----------------------------------------------------------------------------
(* The generators: what each would write now, or Refused. *)

\* public_theorem_index.py finds a name where a line begins with "theorem".
Collected == {n \in PublicName : lean[n] # Absent /\ lean[n].bare}

PublicTheorems == {[name |-> n, audited |-> n \in Audited] : n \in Collected}

\* extract_theorem_docs.py: the index, ...
TheoremIndex == IF Audited = {} THEN Refused ELSE Audited

\* ... and how many theorems there are in each class.
AxiomBudget ==
  IF Audited = {} THEN Refused
  ELSE [t \in Tier |-> Cardinality({n \in Audited : allowlist[n] = t})]

\* The names read back from the committed snapshot of public theorems.
PublicStable(snapshot) ==
  IF snapshot = Absent THEN {} ELSE {row.name : row \in snapshot}

Constructiveness(tier) ==
  IF Required(tier) # {} THEN "trusted"
  ELSE IF "Classical.choice" \in Allowed(tier) THEN "classical"
  ELSE "constructive"

\* proof_dependency_budget.py.
DependencyBudget(snapshot) ==
  {[name |-> n, weight |-> WeightOf[n],
    constructiveness |-> Constructiveness(allowlist[n]),
    stable |-> n \in PublicStable(snapshot)] : n \in Audited}

\* extract_model_docs.py accepts metadata that names every constructor once, in
\* any order, and nothing else.
MetadataValid ==
  /\ \A i, j \in DOMAIN metadata : metadata[i] = metadata[j] => i = j
  /\ {metadata[i] : i \in DOMAIN metadata} = ctors

OperationTable == IF MetadataValid THEN metadata ELSE Refused

SurfaceDoc ==
  {"public-theorems", "public-theorem-index", "axiom-budget",
   "proof-dependency-budget", "runtime-op-table"}

Fresh(doc) ==
  CASE doc = "public-theorems" -> PublicTheorems
    [] doc = "public-theorem-index" -> TheoremIndex
    [] doc = "axiom-budget" -> AxiomBudget
    [] doc = "proof-dependency-budget" -> DependencyBudget(generated["public-theorems"])
    [] doc = "runtime-op-table" -> OperationTable

\* Fault: a document that is there already is left as it is.
GenerateMissing(doc) ==
  /\ generated[doc] = Absent
  /\ Fresh(doc) # Refused
  /\ generated' = [generated EXCEPT ![doc] = Fresh(doc)]
  /\ UNCHANGED sources

\* A generator is run when its check fails. extract_theorem_docs.py writes two
\* files and may stop between them.
Generate(doc) ==
  /\ Fresh(doc) \notin {Refused, generated[doc]}
  /\ generated' = [generated EXCEPT ![doc] = Fresh(doc)]
  /\ UNCHANGED sources

\* The part of gate 7 that compares the documents with what would be generated.
SurfaceCurrent == \A doc \in SurfaceDoc : generated[doc] = Fresh(doc)

-----------------------------------------------------------------------------
(* What a developer edits: one declaration, one entry, one line, one file. *)

EditTheorem(n, declaration) ==
  /\ lean' = [lean EXCEPT ![n] = declaration]
  /\ UNCHANGED << allowlist, printed, ctors, metadata, generated >>

EditAllowlist(n, tier) ==
  /\ allowlist' = [allowlist EXCEPT ![n] = tier]
  /\ UNCHANGED << lean, printed, ctors, metadata, generated >>

EditPrinted(n) ==
  /\ printed' = IF n \in printed THEN printed \ {n} ELSE printed \cup {n}
  /\ UNCHANGED << lean, allowlist, ctors, metadata, generated >>

EditConstructors(c) ==
  /\ ctors' = IF c \in ctors THEN ctors \ {c} ELSE ctors \cup {c}
  /\ UNCHANGED << lean, allowlist, printed, metadata, generated >>

EditMetadata(descriptors) ==
  /\ metadata' = descriptors
  /\ UNCHANGED << lean, allowlist, printed, ctors, generated >>

\* A merge or a hand edit loses a document.
LoseDocument(doc) ==
  /\ generated' = [generated EXCEPT ![doc] = Absent]
  /\ UNCHANGED sources

\* A repository in which everything is in order.
SurfaceInit ==
  /\ lean \in [Name -> [bare : BOOLEAN, axioms : {{}}]]
  /\ printed \in SUBSET Name \ {{}}
  /\ allowlist = [n \in Name |-> IF n \in printed THEN "STD" ELSE Absent]
  /\ ctors = {}
  /\ metadata = << >>
  /\ generated = [doc \in SurfaceDoc |->
       IF doc = "proof-dependency-budget" THEN DependencyBudget(PublicTheorems) ELSE Fresh(doc)]

=============================================================================
