----------------------------- MODULE Operations -----------------------------
(***************************************************************************)
(* The operations as values (RuntimeOp, Henret/Scheduler/Op.lean), for the *)
(* layers that compute something from an operation before it is applied:   *)
(* the bridge and the trace ledger. Setting metadata, which neither layer  *)
(* sees, is left out.                                                      *)
(***************************************************************************)
EXTENDS Runtime

Operation ==
  [kind : {"schedule", "shutdown", "stopWhenIdle", "stopWhenDrained"}]
  \cup [kind : {"spawn", "inject", "closeActor", "acquireActor"}, actor : Actor]
  \cup [kind : {"yield", "complete", "cancel", "cancelTree", "fail", "wake",
                "receive", "acquire"}, task : Task]
  \cup [kind : {"spawnChild", "send", "receiveFrom"}, task : Task, actor : Actor]
  \cup [kind : {"receiveByOccurrence"}, task : Task, occurrence : Message]
  \cup [kind : {"sleep", "receiveUntil"}, task : Task, deadline : Deadline]
  \cup [kind : {"tick"}, time : Deadline]
  \cup [kind : {"restartOne"}, task : Task, failed : Task, actor : Actor]
  \cup [kind : {"release"}, task : Task, resource : Resource]
  \cup [kind : {"releaseActor"}, actor : Actor, resource : Resource]
  \cup [kind : {"finalize"}, resource : Resource]

\* Bound: no operation is offered that would use up another id than there is.
WithinBounds(op) ==
  /\ op.kind \in {"spawn", "spawnChild", "restartOne"} => nextId < MaxTask
  /\ op.kind \in {"send", "inject"} => nextMsgId < MaxMsg
  /\ op.kind \in {"acquire", "acquireActor"} => nextResourceId < MaxResource

\* The operations that have an effect in the current state, and the effect.
Step(op) ==
  CASE op.kind = "schedule"        -> Schedule
    [] op.kind = "shutdown"        -> Shutdown
    [] op.kind = "stopWhenIdle"    -> StopWhenIdle
    [] op.kind = "stopWhenDrained" -> StopWhenDrained
    [] op.kind = "spawn"           -> Spawn(op.actor)
    [] op.kind = "inject"          -> Inject(op.actor)
    [] op.kind = "closeActor"      -> CloseActor(op.actor)
    [] op.kind = "acquireActor"    -> AcquireActor(op.actor)
    [] op.kind = "yield"           -> Yield(op.task)
    [] op.kind = "complete"        -> Complete(op.task)
    [] op.kind = "cancel"          -> Cancel(op.task)
    [] op.kind = "cancelTree"      -> CancelTree(op.task)
    [] op.kind = "fail"            -> Fail(op.task)
    [] op.kind = "wake"            -> Wake(op.task)
    [] op.kind = "receive"         -> Receive(op.task)
    [] op.kind = "acquire"         -> Acquire(op.task)
    [] op.kind = "spawnChild"      -> SpawnChild(op.task, op.actor)
    [] op.kind = "send"            -> Send(op.task, op.actor)
    [] op.kind = "receiveFrom"     -> ReceiveFrom(op.task, op.actor)
    [] op.kind = "receiveByOccurrence" -> ReceiveByOccurrence(op.task, op.occurrence)
    [] op.kind = "sleep"           -> Sleep(op.task, op.deadline)
    [] op.kind = "receiveUntil"    -> ReceiveUntil(op.task, op.deadline)
    [] op.kind = "tick"            -> Tick(op.time)
    [] op.kind = "restartOne"      -> RestartOne(op.task, op.failed, op.actor)
    [] op.kind = "release"         -> Release(op.task, op.resource)
    [] op.kind = "releaseActor"    -> ReleaseActor(op.actor, op.resource)
    [] op.kind = "finalize"        -> Finalize(op.resource)

\* Can a message be delivered to b?
Deliverable(b) == actorStatus[b] = "active" /\ mailboxes[b] # None /\ ~ MailboxFull(b)

\* What step looks at before it does anything; it refuses the rest.
Accepted(op) ==
  CASE op.kind = "schedule" -> CanDispatch(readyQ)
    [] op.kind = "spawn" -> runtimeStatus = "running" /\ taskState[nextId] = None
    [] op.kind = "spawnChild" -> /\ IsRunning(op.task) /\ taskOwner[op.task] # None
                                 /\ taskState[nextId] = None
    [] op.kind = "restartOne" -> /\ IsRunning(op.task)
                                 /\ taskParent[op.failed] = op.task
                                 /\ taskState[op.failed] = "failed"
                                 /\ taskState[nextId] = None
    [] op.kind \in {"yield", "complete", "sleep", "acquire"} -> IsRunning(op.task)
    [] op.kind \in {"cancel", "fail"} -> Live(op.task)
    [] op.kind = "wake" -> taskState[op.task] = "sleeping"
    [] op.kind = "tick" -> now <= op.time
    [] op.kind = "send" -> /\ IsRunning(op.task) /\ taskOwner[op.task] # None
                           /\ Deliverable(op.actor)
    [] op.kind = "inject" -> runtimeStatus = "running" /\ Deliverable(op.actor)
    [] op.kind \in {"receive", "receiveFrom", "receiveByOccurrence"} -> CanReceive(op.task)
    [] op.kind = "receiveUntil" -> /\ CanReceive(op.task)
                                   /\ \/ mailboxes[taskOwner[op.task]] # << >>
                                      \/ now < op.deadline
    [] op.kind = "stopWhenIdle" -> RuntimeQuiescent
    [] op.kind = "stopWhenDrained" -> ResourceDrained /\ RuntimeQuiescent
    [] op.kind = "closeActor" -> mailboxes[op.actor] # None
    [] op.kind = "acquireActor" -> /\ runtimeStatus = "running"
                                   /\ actorStatus[op.actor] = "active"
                                   /\ mailboxes[op.actor] # None
    [] op.kind = "release" -> /\ IsRunning(op.task)
                              /\ InState(op.resource, "allocated")
                              /\ resources[op.resource].owner = TaskOwner(op.task)
    [] op.kind = "releaseActor" -> /\ runtimeStatus = "running"
                                   /\ InState(op.resource, "allocated")
                                   /\ resources[op.resource].owner = ActorOwner(op.actor)
    [] op.kind = "finalize" -> InState(op.resource, "closing")
    [] op.kind \in {"cancelTree", "shutdown"} -> TRUE

Refused(op) == ~ Accepted(op)

-----------------------------------------------------------------------------
(* What both layers compute from the state an operation finds.              *)

\* The waiter a delivery to b would wake, as a list of at most one task.
WaiterToWake(b) == SubSeq(mailboxWaiters[b] \o timedMailboxWaiters[b], 1,
                          IF mailboxWaiters[b] \o timedMailboxWaiters[b] = << >>
                          THEN 0 ELSE 1)

\* The tasks tick would wake, sleepers first.
TasksToWake(t) ==
  LET expired == TasksOf(Expired(timers, t))
  IN  Only(expired, {u \in Task : taskState[u] = "sleeping"})
        \o Only(expired, {u \in Task : taskState[u] = "waitingTimed"})

\* Fault: only the root of a cancelled tree counts.
TasksToEndRoot(op) == << op.task >>

\* The tasks that cancel, fail or cancelTree takes out of the ready queue, by
\* increasing id.
TasksToEnd(op) ==
  IF op.kind = "cancelTree"
  THEN Only([i \in 1 .. nextId |-> i - 1], DescendantsOf(op.task))
  ELSE << op.task >>

\* A restart of op.failed by op.task is in order.
RestartGuard(op) ==
  /\ IsRunning(op.task)
  /\ taskParent[op.failed] = op.task
  /\ taskState[op.failed] = "failed"

=============================================================================
