------------------------------- MODULE Claims -------------------------------
(***************************************************************************)
(* The evidence ledger (docs/evidence-ledger.yaml), which binds what the   *)
(* documentation claims to the gates that verify it, the gate registry     *)
(* (gate_registry.py), and the checks of both: check_selftest.py and       *)
(* forbidden_claim_check.py.                                               *)
(***************************************************************************)
CONSTANTS
  Claim,        \* claim ids
  Gate,         \* semantic gate ids
  Profile,      \* versions of the release profile
  Bindable,     \* the version active_evidence_ids spells out
  Null          \* null in the ledger, an entry or a file that is not there

ClaimTier == {"PROVEN", "TRUSTED", "TESTED", "OUTSCOPE", "PLANNED"}
InTree == {"in_tree_model_proof", "in_tree_model_test"}
OutOfTree == {"sibling_runtime_package", "external_artifact"}
Location == InTree \cup OutOfTree \cup {"planned"}
Capability == {"kernel-build", "axiom-audit", "executable-test", "documentation-check"}

\* One field of an entry, and what can be written there.
Values ==
  [tier |-> ClaimTier, location |-> Location, here |-> BOOLEAN, ci |-> BOOLEAN,
   profile |-> Profile \cup {Null}, gate |-> Gate \cup {Null},
   coordinates |-> BOOLEAN, notes |-> BOOLEAN]

ASSUME ClaimsAssumption == Bindable \in Profile /\ Null \notin Profile \cup Gate

VARIABLES
  ledger,       \* the entry of a claim
  declared,     \* the gates check.sh runs
  registered,   \* the gates of each profile in gate_registry.py
  capability,   \* what a gate can show, in gate_registry.py
  active,       \* ACTIVE_PROFILE
  overclaims,   \* a live page says that the runtime tests are verified here
  ledgerPage    \* docs/src/evidence-ledger.md

claimSources == << ledger, declared, registered, capability, active, overclaims >>
claimVars == << claimSources, ledgerPage >>

Claimed == {c \in Claim : ledger[c] # Null}

\* check_selftest.py: what runs is what is registered, and each gate has a capability.
RegistryExact ==
  /\ declared = registered[active]
  /\ registered[active] = {g \in Gate : capability[g] # Null}

\* What a gate must be able to show for evidence of this kind; Null: no such kind.
NeededFor(entry) ==
  CASE entry.location = "in_tree_model_proof" /\ entry.tier = "PROVEN"  -> "kernel-build"
    [] entry.location = "in_tree_model_proof" /\ entry.tier = "TRUSTED" -> "axiom-audit"
    [] entry.location = "in_tree_model_test" /\ entry.tier = "TESTED"   -> "executable-test"
    [] OTHER -> Null

BoundToActive(entry) == entry.profile = active /\ entry.gate \in registered[Bindable]

\* Fault: any gate will do.
BoundToAnyGate(entry) ==
  IF entry.ci THEN BoundToActive(entry) ELSE entry.profile = Null /\ entry.gate = Null

\* The CI binding of an entry resolves, to a gate that can show what it is cited for.
Bound(entry) ==
  IF entry.ci
  THEN /\ BoundToActive(entry)
       /\ entry.location \in InTree => capability[entry.gate] = NeededFor(entry)
                                       /\ NeededFor(entry) # Null
  ELSE entry.profile = Null /\ entry.gate = Null

EntryValid(entry) ==
  /\ Bound(entry)
  /\ entry.here <=> entry.location \in InTree
  /\ entry.location \in OutOfTree =>
       IF entry.coordinates THEN entry.ci ELSE ~ entry.ci /\ entry.notes

LedgerValid == \A c \in Claimed : EntryValid(ledger[c])

\* An overclaim is let through when some out-of-tree claim is backed by CI.
NoForbiddenClaim ==
  overclaims => \E c \in Claimed : ledger[c].location \in OutOfTree /\ ledger[c].ci

Row(c) ==
  [claim |-> c, tier |-> ledger[c].tier, location |-> ledger[c].location,
   here |-> ledger[c].here,
   binding |-> IF ledger[c].ci THEN << ledger[c].profile, ledger[c].gate >> ELSE Null]

Rendered == {Row(c) : c \in Claimed}

\* forbidden_claim_check.py, within gate 7.
ClaimsCurrent == LedgerValid /\ NoForbiddenClaim /\ ledgerPage = Rendered

\* --generate writes nothing while there is an error.
GenerateLedger ==
  /\ LedgerValid /\ NoForbiddenClaim
  /\ ledgerPage # Rendered
  /\ ledgerPage' = Rendered
  /\ UNCHANGED claimSources

\* A new entry is a planned one; afterwards one field changes at a time.
Planned ==
  [tier |-> "PLANNED", location |-> "planned", here |-> FALSE, ci |-> FALSE,
   profile |-> Null, gate |-> Null, coordinates |-> FALSE, notes |-> FALSE]

EditEntry(c) ==
  /\ \/ ledger[c] = Null /\ ledger' = [ledger EXCEPT ![c] = Planned]
     \/ ledger[c] # Null /\ ledger' = [ledger EXCEPT ![c] = Null]
     \/ /\ ledger[c] # Null
        /\ \E field \in DOMAIN Values : \E value \in Values[field] :
             ledger' = [ledger EXCEPT ![c][field] = value]
  /\ UNCHANGED << declared, registered, capability, active, overclaims, ledgerPage >>

\* A gate is added to check.sh or removed from it, or to or from the registry.
EditGates(g) ==
  /\ \/ /\ declared' = (declared \ {g}) \cup ({g} \ declared)
        /\ UNCHANGED << registered, capability >>
     \/ /\ \E p \in Profile :
             registered' = [registered EXCEPT ![p] = (@ \ {g}) \cup ({g} \ @)]
        /\ UNCHANGED << declared, capability >>
     \/ /\ \E k \in Capability \cup {Null} : capability' = [capability EXCEPT ![g] = k]
        /\ UNCHANGED << declared, registered >>
  /\ UNCHANGED << ledger, active, overclaims, ledgerPage >>

\* A new version of the profile; the entries still name the old one.
EditProfile(p) ==
  /\ active' = p
  /\ UNCHANGED << ledger, declared, registered, capability, overclaims, ledgerPage >>

EditPages ==
  /\ overclaims' = ~ overclaims
  /\ UNCHANGED << ledger, declared, registered, capability, active, ledgerPage >>

\* A green repository with one gate per claim.
ClaimsInit ==
  /\ declared = Gate /\ registered = [p \in Profile |-> Gate]
  /\ capability = [g \in Gate |-> "kernel-build"]
  /\ active = Bindable
  /\ ledger = [c \in Claim |->
       [tier |-> "PROVEN", location |-> "in_tree_model_proof", here |-> TRUE, ci |-> TRUE,
        profile |-> active, gate |-> CHOOSE g \in Gate : TRUE,
        coordinates |-> FALSE, notes |-> TRUE]]
  /\ overclaims = FALSE
  /\ ledgerPage = Rendered

=============================================================================
