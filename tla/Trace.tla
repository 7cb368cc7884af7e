------------------------------- MODULE Trace -------------------------------
(***************************************************************************)
(* The trace ledger (Henret/Trace/Event.lean, Run.lean): traceEvents       *)
(* computes, from the state an operation finds and a copy of step's        *)
(* guards, the events the operation is reported with. The variable replay  *)
(* is what a reader of the ledger knows of the runtime from the events of  *)
(* the operations that were carried out.                                   *)
(***************************************************************************)
EXTENDS Operations

VARIABLE replay   \* [phase : of each task, queue : ready tasks, mail : ids]

Invalid  == [kind |-> "invalid"]
NoEffect == [kind |-> "noEffect"]

\* An event about the task t; parked and slept tell the phase it enters.
About(kind, t) == [kind |-> kind, task |-> t]

\* The guards of traceEvents. They leave out runtimeStatus for spawn and
\* inject, the actor's status and its capacity for send and inject, and the
\* ledger for stopWhenDrained, all of which step looks at.
TraceGuard(op) ==
  CASE op.kind = "spawn" -> taskState[nextId] = None
    [] op.kind = "spawnChild" -> /\ IsRunning(op.task) /\ taskOwner[op.task] # None
                                 /\ taskState[nextId] = None
    [] op.kind = "restartOne" -> RestartGuard(op) /\ taskState[nextId] = None
    [] op.kind = "schedule" -> CanDispatch(readyQ)
    [] op.kind \in {"yield", "complete", "sleep", "acquire"} -> IsRunning(op.task)
    [] op.kind \in {"cancel", "fail"} -> Live(op.task)
    [] op.kind = "wake" -> taskState[op.task] = "sleeping"
    [] op.kind = "tick" -> now <= op.time
    [] op.kind = "send" -> /\ IsRunning(op.task) /\ taskOwner[op.task] # None
                           /\ mailboxes[op.actor] # None
    [] op.kind \in {"inject", "closeActor"} -> mailboxes[op.actor] # None
    [] op.kind \in {"receive", "receiveFrom", "receiveByOccurrence", "receiveUntil"} ->
         /\ IsRunning(op.task) /\ taskOwner[op.task] # None
         /\ mailboxes[taskOwner[op.task]] # None
    [] op.kind \in {"stopWhenIdle", "stopWhenDrained"} -> RuntimeQuiescent
    [] op.kind = "acquireActor" -> /\ runtimeStatus = "running"
                                   /\ actorStatus[op.actor] = "active"
                                   /\ mailboxes[op.actor] # None
    [] op.kind = "releaseActor" -> /\ runtimeStatus = "running"
                                   /\ InState(op.resource, "allocated")
                                   /\ resources[op.resource].owner = ActorOwner(op.actor)
    [] op.kind = "release" -> /\ IsRunning(op.task)
                              /\ InState(op.resource, "allocated")
                              /\ resources[op.resource].owner = TaskOwner(op.task)
    [] op.kind = "finalize" -> InState(op.resource, "closing")
    [] op.kind \in {"cancelTree", "shutdown"} -> TRUE

\* The envelopes a receive is after.
Wanted(op) ==
  CASE op.kind = "receiveFrom"         -> {e \in Envelope : e.source = op.actor}
    [] op.kind = "receiveByOccurrence" -> {e \in Envelope : e.occurrence = op.occurrence}
    [] OTHER                           -> Envelope

\* The event of a receive: a message, a deadline that has passed, or parking.
ReceiveEvent(op) ==
  LET a  == taskOwner[op.task]
      mb == mailboxes[a]
  IN  IF Elems(mb) \cap Wanted(op) # {}
      THEN [kind |-> "received", actor |-> a,
            occurrence |-> mb[FirstIn(mb, Wanted(op))].occurrence]
      ELSE IF op.kind = "receiveUntil" /\ op.deadline <= now THEN NoEffect
      ELSE About("parked", op.task)

\* Fault: a delivery is not reported to have woken anybody.
DeliveryEventsSilent(b) ==
  << [kind |-> "delivered", actor |-> b, occurrence |-> nextMsgId] >>

\* sent or injected, and waiterWoke if there is a waiter.
DeliveryEvents(b) ==
  << [kind |-> "delivered", actor |-> b, occurrence |-> nextMsgId] >>
    \o [i \in DOMAIN WaiterToWake(b) |-> About("woken", WaiterToWake(b)[i])]

\* traceEvents. Events that tell a reader of the ledger the same are given one
\* name: spawned, spawnChild and restarted; the three kinds of waking.
TraceEvents(op) ==
  IF ~ TraceGuard(op) THEN << Invalid >>
  ELSE CASE op.kind \in {"spawn", "spawnChild", "restartOne"} -> << About("spawned", nextId) >>
         [] op.kind = "schedule" -> << About("scheduled", Head(readyQ)) >>
         [] op.kind = "yield"    -> << About("yielded", op.task) >>
         [] op.kind = "complete" -> << About("completed", op.task) >>
         [] op.kind = "fail"     -> << About("failed", op.task) >>
         [] op.kind = "sleep"    -> << About("sleeping", op.task) >>
         [] op.kind = "wake"     -> << About("woken", op.task) >>
         [] op.kind \in {"cancel", "cancelTree"} ->
              [i \in DOMAIN TasksToEnd(op) |-> About("cancelled", TasksToEnd(op)[i])]
         [] op.kind = "tick" ->
              [i \in DOMAIN TasksToWake(op.time) |-> About("woken", TasksToWake(op.time)[i])]
         [] op.kind \in {"send", "inject"} -> DeliveryEvents(op.actor)
         [] op.kind \in {"receive", "receiveFrom", "receiveByOccurrence", "receiveUntil"} ->
              << ReceiveEvent(op) >>
         [] op.kind \in {"shutdown", "stopWhenIdle", "stopWhenDrained"} -> << [kind |-> "status"] >>
         [] op.kind = "closeActor" -> << [kind |-> "actorClosed"] >>
         [] OTHER -> << NoEffect >>

-----------------------------------------------------------------------------
(* Reading the ledger. *)

TraceInit ==
  replay = [phase |-> [t \in Task |-> None], queue |-> << >>,
            mail |-> [a \in Actor |-> << >>]]

\* A task is in another phase and the queue may be another; a mailbox is.
Entered(r, t, phase, queue) ==
  [phase |-> [r.phase EXCEPT ![t] = phase], queue |-> queue, mail |-> r.mail]
Holding(r, a, ids) ==
  [phase |-> r.phase, queue |-> r.queue, mail |-> [r.mail EXCEPT ![a] = ids]]

\* What one more event tells. A task that has ended is not cancelled again:
\* cancelTree reports every task of the subtree.
Learn(r, e) ==
  CASE e.kind \in {"spawned", "yielded", "woken"} ->
         Entered(r, e.task, "queued", Append(r.queue, e.task))
    [] e.kind = "scheduled" ->
         Entered(r, e.task, "running", Without(r.queue, {e.task}))
    [] e.kind \in Terminal ->
         IF r.phase[e.task] \in Terminal THEN r
         ELSE Entered(r, e.task, e.kind, Without(r.queue, {e.task}))
    [] e.kind \in {"sleeping", "parked"} -> Entered(r, e.task, e.kind, r.queue)
    [] e.kind = "delivered" ->
         Holding(r, e.actor, Append(r.mail[e.actor], e.occurrence))
    [] e.kind = "received" ->
         Holding(r, e.actor, Without(r.mail[e.actor], {e.occurrence}))
    [] OTHER -> r

\* What a list of events tells somebody who knows r.
LearnAll(r, events) ==
  LET after[i \in 0 .. Len(events)] ==
        IF i = 0 THEN r ELSE Learn(after[i - 1], events[i])
  IN  after[Len(events)]

\* runTraceLedger, one operation further.
Report(op) == replay' = LearnAll(replay, TraceEvents(op))

\* The phase a task is in, as coarse as the events tell it.
Phase(t) ==
  CASE taskState[t] \in Runnable                    -> "queued"
    [] taskState[t] \in {"waiting", "waitingTimed"} -> "parked"
    [] OTHER                                        -> taskState[t]

-----------------------------------------------------------------------------

\* The events of the operations carried out tell the whole story: from them
\* alone a reader knows the phase of every task, the ready queue in its order
\* and the messages in every mailbox.
LedgerReplays ==
  /\ \A t \in Task : replay.phase[t] = Phase(t)
  /\ replay.queue = readyQ
  /\ \A a \in Actor : mailboxes[a] # None =>
       replay.mail[a] = [i \in DOMAIN mailboxes[a] |-> mailboxes[a][i].occurrence]

\* The comment on traceEvents: an invalid or noEffect event "is emitted
\* precisely when step would reject or no-op the operation".
RefusedIsReported ==
  \A op \in Operation : WithinBounds(op) /\ Refused(op) =>
    TraceEvents(op) \in {<< Invalid >>, << NoEffect >>}

=============================================================================
