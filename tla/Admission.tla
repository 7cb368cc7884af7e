------------------------------ MODULE Admission ------------------------------
(***************************************************************************)
(* Admission control, resources and scheduling metadata: closeActor,       *)
(* shutdown, the two stop operations, acquire ... finalize, setPriority    *)
(* and setDeadline (Henret/Scheduler/Model.lean, `step`).                  *)
(***************************************************************************)
EXTENDS RuntimeState

taskVars == << taskState, identityVars, scheduleVars, timeVars, waiterVars, mailVars >>

\* Fault: the actor's resources are left allocated.
CloseActorKeepsResources(a) ==
  /\ mailboxes[a] # None
  /\ actorStatus' = [actorStatus EXCEPT ![a] = "closed"]
  /\ UNCHANGED << taskVars, taskMeta, runtimeStatus, ledgerVars >>

\* Closing an actor keeps its mailbox and its parked tasks.
CloseActor(a) ==
  /\ mailboxes[a] # None
  /\ actorStatus' = [actorStatus EXCEPT ![a] = "closed"]
  /\ MarkClosing({ActorOwner(a)})
  /\ UNCHANGED << taskVars, taskMeta, runtimeStatus, nextResourceId >>

\* Unconditional: it also relabels a stopped runtime.
Shutdown ==
  /\ runtimeStatus' = "shuttingDown"
  /\ UNCHANGED << taskVars, taskMeta, actorStatus, ledgerVars >>

Stop ==
  /\ RuntimeQuiescent
  /\ runtimeStatus' = "stopped"
  /\ UNCHANGED << taskVars, taskMeta, actorStatus, ledgerVars >>

\* Fault: pending timers do not hold up the stop.
StopDespiteTimers ==
  /\ running = None /\ readyQ = << >>
  /\ runtimeStatus' = "stopped"
  /\ UNCHANGED << taskVars, taskMeta, actorStatus, ledgerVars >>

\* Blind to the ledger: may stop with live resources.
StopWhenIdle == Stop

StopWhenDrained == ResourceDrained /\ Stop

-----------------------------------------------------------------------------
(* Resources. *)

ledgerOnly == << taskVars, taskMeta, statusVars >>

Acquire(t) ==
  /\ IsRunning(t)
  /\ Allocate(TaskOwner(t))
  /\ UNCHANGED ledgerOnly

\* Fault: actors keep acquiring after shutdown.
AcquireActorAlways(a) ==
  /\ actorStatus[a] = "active"
  /\ mailboxes[a] # None
  /\ Allocate(ActorOwner(a))
  /\ UNCHANGED ledgerOnly

AcquireActor(a) ==
  /\ runtimeStatus = "running"
  /\ actorStatus[a] = "active"
  /\ mailboxes[a] # None
  /\ Allocate(ActorOwner(a))
  /\ UNCHANGED ledgerOnly

ReleaseActor(a, r) ==
  /\ runtimeStatus = "running"
  /\ Reclaim(r, ActorOwner(a), "allocated")
  /\ UNCHANGED ledgerOnly

Release(t, r) ==
  /\ IsRunning(t)
  /\ Reclaim(r, TaskOwner(t), "allocated")
  /\ UNCHANGED ledgerOnly

Finalize(r) ==
  /\ InState(r, "closing")
  /\ Reclaim(r, resources[r].owner, "closing")
  /\ UNCHANGED ledgerOnly

-----------------------------------------------------------------------------
(* Scheduling metadata; any spawned task, a terminated one too. *)

MetaOf(t) == IF taskMeta[t] = None THEN DefaultMeta ELSE taskMeta[t]

SetPriority(t, p) ==
  /\ taskState[t] # None
  /\ taskMeta' = [taskMeta EXCEPT ![t] = [MetaOf(t) EXCEPT !.priority = p]]
  /\ UNCHANGED << taskVars, statusVars, ledgerVars >>

SetDeadline(t, d) ==
  /\ taskState[t] # None
  /\ taskMeta' = [taskMeta EXCEPT ![t] = [MetaOf(t) EXCEPT !.deadline = d]]
  /\ UNCHANGED << taskVars, statusVars, ledgerVars >>

=============================================================================
