----------------------------- MODULE Refinements -----------------------------
(***************************************************************************)
(* The runtime implements the abstract specifications TaskLife and Leases. *)
(***************************************************************************)
EXTENDS Runtime

PhaseOf(t) ==
  CASE taskState[t] = None       -> "unborn"
    [] taskState[t] \in Runnable -> "ready"
    [] taskState[t] \in Parked   -> "parked"
    [] OTHER                     -> taskState[t]

Life == INSTANCE TaskLife WITH phase <- [t \in Task |-> PhaseOf(t)]

\* Every operation of the runtime, whole, is one step of the life of one task
\* or of a set of tasks that move together, or leaves all of them alone.
TaskLifecycle == Life!Spec

GoneOwners ==
  {TaskOwner(t) : t \in {u \in Task : taskState[u] \in Terminal}}
    \cup {ActorOwner(a) : a \in {b \in Actor : mailboxes[b] # None
                                               /\ actorStatus[b] = "closed"}}

Lease == INSTANCE Leases WITH
  open  <- {o \in Owner : OwnerOpen(o)},
  gone  <- GoneOwners,
  lease <- resources

\* Whichever way a task or an actor ends, its leases become reclaimable in
\* the same step, and nothing it held is granted or handed back afterwards.
LeaseDiscipline == Lease!Spec

=============================================================================
