---------------------------- MODULE MCDocuments ----------------------------
(***************************************************************************)
(* Small instances of Documents. The documents of theorems, claims and RFCs *)
(* share no state, so a behaviour edits one kind, its focus, or migrates    *)
(* files as they were before the migration.                                *)
(***************************************************************************)
EXTENDS Documents

CONSTANTS
  Focuses,      \* the focuses of this run
  n1, n2, k1, c1, g1, g2, p1, p2

VARIABLE focus

WeightTable == [n \in Name |-> IF n = n1 THEN "core" ELSE "native"]

\* RFC 84 waits for RFC 85.
SmallWave ==
  [n \in {84, 85} |->
    [supersedes |-> {}, superseded_by |-> {},
     depends_on |-> IF n = 84 THEN {85} ELSE {}, blocks |-> IF n = 85 THEN {84} ELSE {}]]

ProposedFiles ==
  {[front |-> [status |-> Clean("Proposed"), title |-> TRUE, implemented_in |-> Missing,
               relations |-> NoRelations],
    status |-> Missing, h1 |-> TRUE]}

\* Bounds on the edits of a behaviour.
EditLimit == [theorems |-> 2, claims |-> 3, rfcs |-> 2, migration |-> 0]

MCInit ==
  /\ focus \in Focuses
  /\ edits = 0
  /\ SurfaceInit
  /\ focus # "theorems" =>
       lean = [n \in Name |-> [bare |-> TRUE, axioms |-> {}]] /\ printed = Name
  /\ ClaimsInit
  /\ IF focus = "migration" THEN RfcInit(Legacy)
     ELSE RfcInit(ProposedFiles) /\ \A s \in Slots : s[1] = "proposed"

Within == edits < EditLimit[focus]

MCNext ==
  /\ \/ Generators
     \/ Migration /\ focus \in {"rfcs", "migration"}
     \/ EditSurface /\ focus = "theorems" /\ Within
     \/ EditClaims /\ focus = "claims" /\ Within
     \/ EditRfcs /\ focus = "rfcs" /\ Within
  /\ UNCHANGED focus

MCSpec == MCInit /\ [][MCNext]_<< documentVars, focus >> /\ GeneratorFairness

=============================================================================
