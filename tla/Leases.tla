------------------------------- MODULE Leases -------------------------------
(***************************************************************************)
(* What the resource ledger promises: a lease is given to an owner that is *)
(* open, is handed back by that owner or, once the owner has gone, by the  *)
(* finalizer, and no owner goes without its leases becoming reclaimable in *)
(* the same step. Owners never come back and ids are never reused.         *)
(***************************************************************************)
EXTENDS Integers

CONSTANTS Resource, Owner, None

VARIABLES
  open,    \* the owners that can use what they hold
  gone,    \* the owners that were open once
  lease    \* per resource: None, or [owner, state]

leaseVars == << open, gone, lease >>

Init == open = {} /\ gone = {} /\ lease = [r \in Resource |-> None]

Arrive(S) ==
  /\ S \cap (open \cup gone) = {}
  /\ open' = open \cup S
  /\ UNCHANGED << gone, lease >>

Grant(r, o) ==
  /\ o \in open
  /\ lease[r] = None
  /\ \A s \in Resource : s < r => lease[s] # None
  /\ lease' = [lease EXCEPT ![r] = [owner |-> o, state |-> "allocated"]]
  /\ UNCHANGED << open, gone >>

HandBack(r, o) ==
  /\ o \in open
  /\ lease[r] = [owner |-> o, state |-> "allocated"]
  /\ lease' = [lease EXCEPT ![r] = [owner |-> o, state |-> "released"]]
  /\ UNCHANGED << open, gone >>

Leave(S) ==
  /\ S \subseteq open
  /\ open' = open \ S
  /\ gone' = gone \cup S
  /\ lease' = [r \in Resource |->
       IF \E o \in S : lease[r] = [owner |-> o, state |-> "allocated"]
       THEN [owner |-> lease[r].owner, state |-> "closing"]
       ELSE lease[r]]

Reclaim(r, o) ==
  /\ o \in gone
  /\ lease[r] = [owner |-> o, state |-> "closing"]
  /\ lease' = [lease EXCEPT ![r] = [owner |-> o, state |-> "released"]]
  /\ UNCHANGED << open, gone >>

Next ==
  \/ \E S \in SUBSET Owner : Arrive(S) \/ Leave(S)
  \/ \E r \in Resource, o \in Owner : Grant(r, o) \/ HandBack(r, o) \/ Reclaim(r, o)

Spec == Init /\ [][Next]_leaseVars

=============================================================================
