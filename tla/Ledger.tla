------------------------------- MODULE Ledger -------------------------------
(***************************************************************************)
(* The resource-lifetime ledger (Henret/Resource/Ledger.lean): a resource  *)
(* is owned by a task or by an actor and goes                              *)
(*     allocated -> released               (released by its owner)         *)
(*     allocated -> closing -> released    (owner gone, then finalized)    *)
(* This module has the ledger's state and its updates; the operations that *)
(* use them, with their guards, are in Lifecycle and Admission.            *)
(***************************************************************************)
EXTENDS Integers

CONSTANTS
  MaxTask,      \* bound: task ids are 0 .. MaxTask - 1
  MaxResource,  \* bound: resource ids are 0 .. MaxResource - 1
  Actor,        \* the actor ids
  None          \* the absent value of every Option

ASSUME BoundsAssumption == MaxTask \in Nat /\ MaxResource \in Nat
ASSUME NoneAssumption == None \notin Nat /\ None \notin Actor

VARIABLES
  resources,       \* ResourceId -> Option [owner, state]
  nextResourceId   \* fresh resource id, never reused

ledgerVars == << resources, nextResourceId >>

Task     == 0 .. MaxTask - 1
Resource == 0 .. MaxResource - 1

TaskOwner(t)  == [kind |-> "task", id |-> t]
ActorOwner(a) == [kind |-> "actor", id |-> a]
Owner         == {TaskOwner(t) : t \in Task} \cup {ActorOwner(a) : a \in Actor}
Record        == [owner : Owner, state : {"allocated", "closing", "released"}]

\* What is absent is no record either.
ASSUME NoRecordAssumption == None \notin Record

\* Resource r is in the ledger, in state st.
InState(r, st) == resources[r] # None /\ resources[r].state = st

LedgerInit ==
  /\ resources = [r \in Resource |-> None]
  /\ nextResourceId = 0

\* Fault: a resource is marked whatever its state.
MarkClosingAll(owners) ==
  resources' = [r \in Resource |->
                  IF resources[r] # None /\ resources[r].owner \in owners
                  THEN [resources[r] EXCEPT !.state = "closing"]
                  ELSE resources[r]]

\* markClosingIfOwner: the allocated resources of these owners become closing.
MarkClosing(owners) ==
  resources' = [r \in Resource |->
                  IF InState(r, "allocated") /\ resources[r].owner \in owners
                  THEN [resources[r] EXCEPT !.state = "closing"]
                  ELSE resources[r]]

\* The state update of acquire and acquireActor.
Allocate(owner) ==
  /\ nextResourceId < MaxResource
  /\ resources' = [resources EXCEPT
                     ![nextResourceId] = [owner |-> owner, state |-> "allocated"]]
  /\ nextResourceId' = nextResourceId + 1

\* The state update of release, releaseActor and finalize: owner and ledger
\* state must be the ones the operation expects.
Reclaim(r, owner, from) ==
  /\ InState(r, from)
  /\ resources[r].owner = owner
  /\ resources' = [resources EXCEPT ![r].state = "released"]
  /\ UNCHANGED nextResourceId

\* resourceDrained: every id handed out so far has been released.
ResourceDrained ==
  \A r \in 0 .. nextResourceId - 1 : resources[r] # None => InState(r, "released")

LedgerTypeOK ==
  /\ resources \in [Resource -> Record \cup {None}]
  /\ nextResourceId \in 0 .. MaxResource

=============================================================================
