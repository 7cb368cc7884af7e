------------------------------- MODULE Bridge -------------------------------
(***************************************************************************)
(* The bridge from the runtime's ready queue to the queues of native       *)
(* workers (Henret/Bridge/Grammar.lean, State.lean, MultiState.lean): each *)
(* operation is translated, in the state it finds, into queue operations.  *)
(*                                                                         *)
(* With one worker its queue has to be the ready queue. With several, a    *)
(* task is queued at any of them, may be stolen, and is dispatched from    *)
(* the head of the worker that has it, so only membership can agree.       *)
(***************************************************************************)
EXTENDS Operations, Policies

CONSTANT Worker   \* the worker indices

VARIABLES
  workers,   \* the workers that take part, fixed from the start
  workerQ    \* WorkerQueues: worker -> list of tasks

BridgeInit ==
  /\ workers \in SUBSET Worker \ {{}}
  /\ workerQ = [w \in Worker |-> << >>]

-----------------------------------------------------------------------------
(* The queue operations and what they do to one queue.                      *)

Push(t)     == [kind |-> "push", task |-> t]
Pop         == [kind |-> "pop"]
Discard(t)  == [kind |-> "filter", task |-> t]

\* applyQOp on the queue the operation is addressed to.
ApplyQOp(q, qop) ==
  CASE qop.kind = "push"   -> Append(q, qop.task)
    [] qop.kind = "pop"    -> IF q = << >> THEN q ELSE Tail(q)
    [] qop.kind = "filter" -> Without(q, {qop.task})

\* Fault: a full mailbox still wakes.
DeliveryOverfull(b) == actorStatus[b] = "active" /\ mailboxes[b] # None

DeliveryGuard(b) ==
  /\ actorStatus[b] = "active"
  /\ mailboxes[b] # None
  /\ ~ MailboxFull(b)

\* The guards of toQOps, which repeat those of step.
QGuard(op) ==
  CASE op.kind = "spawn" -> runtimeStatus = "running" /\ taskState[nextId] = None
    [] op.kind = "spawnChild" -> /\ IsRunning(op.task) /\ taskOwner[op.task] # None
                                 /\ taskState[nextId] = None
    [] op.kind = "restartOne" -> RestartGuard(op) /\ taskState[nextId] = None
    [] op.kind = "schedule"   -> CanDispatch(readyQ)
    [] op.kind = "yield"      -> IsRunning(op.task)
    [] op.kind = "wake"       -> taskState[op.task] = "sleeping"
    [] op.kind \in {"cancel", "fail"} -> Live(op.task)
    [] op.kind = "send"   -> /\ IsRunning(op.task) /\ taskOwner[op.task] # None
                             /\ DeliveryGuard(op.actor)
    [] op.kind = "inject" -> runtimeStatus = "running" /\ DeliveryGuard(op.actor)
    [] op.kind = "tick"   -> now <= op.time
    [] OTHER              -> TRUE

\* The tasks an operation puts at the tail of the ready queue, in order.
Pushed(op) ==
  CASE op.kind \in {"spawn", "spawnChild", "restartOne"} -> << nextId >>
    [] op.kind \in {"yield", "wake"}  -> << op.task >>
    [] op.kind \in {"send", "inject"} -> WaiterToWake(op.actor)
    [] op.kind = "tick"               -> TasksToWake(op.time)
    [] OTHER                          -> << >>

\* toQOps.
ToQOps(op) ==
  IF ~ QGuard(op) THEN << >>
  ELSE IF op.kind = "schedule" THEN << Pop >>
  ELSE IF op.kind \in {"cancel", "fail", "cancelTree"}
  THEN [i \in DOMAIN TasksToEnd(op) |-> Discard(TasksToEnd(op)[i])]
  ELSE [i \in DOMAIN Pushed(op) |-> Push(Pushed(op)[i])]

-----------------------------------------------------------------------------
(* The workers. toQOps addresses worker 0 throughout, which is enough for   *)
(* one. With several a filter has to go to the worker that holds the task,  *)
(* the hypothesis of multi_bridge_filter, and a push may go to any.         *)

\* applyMQOp: a push or a pop is addressed to w, a filter to the holder.
ApplyMQOp(queues, qop, w) ==
  LET Addressed(v) == IF qop.kind = "filter" THEN qop.task \in Elems(queues[v]) ELSE v = w
  IN  [v \in Worker |-> IF Addressed(v) THEN ApplyQOp(queues[v], qop) ELSE queues[v]]

\* applyMQOps.
Transfer(qops, w) ==
  LET after[i \in 0 .. Len(qops)] ==
        IF i = 0 THEN workerQ ELSE ApplyMQOp(after[i - 1], qops[i], w)
  IN  workerQ' = after[Len(qops)]

\* The queues follow an operation; w is one of the workers. Schedule is only for a worker on its own.
Follow(op, w) ==
  /\ op.kind = "schedule" => workers = {w}
  /\ Transfer(ToQOps(op), w)
  /\ UNCHANGED workers

\* Several workers: w takes the task at its head, whichever the runtime would
\* have scheduled next. For the runtime that is a policy step choosing it, and a
\* policy chooses ready tasks only (choose_sound).
PopAt(w) ==
  /\ w \in workers /\ workers # {w}
  /\ workerQ[w] # << >>
  /\ LET t == Head(workerQ[w])
     IN  /\ t \in Elems(readyQ)
         /\ Dispatch(<< t >> \o RemoveFirst(readyQ, {t}))
  /\ Transfer(<< Pop >>, w)
  /\ UNCHANGED workers

\* Fault: the task that is stolen stays with its first worker.
StealCopies(src, dst) ==
  /\ {src, dst} \subseteq workers /\ src # dst
  /\ workerQ[src] # << >>
  /\ workerQ' = [workerQ EXCEPT ![dst] = Append(@, Head(workerQ[src]))]
  /\ UNCHANGED workers

\* The thief puts the head of the victim's queue at its own tail. Stealing
\* from oneself, which would lose the task, is excluded as in the theorem
\* multi_bridge_steal.
Steal(src, dst) ==
  /\ {src, dst} \subseteq workers /\ src # dst
  /\ workerQ[src] # << >>
  /\ workerQ' = [workerQ EXCEPT ![src] = Tail(@),
                                ![dst] = Append(@, Head(workerQ[src]))]
  /\ UNCHANGED workers

-----------------------------------------------------------------------------

\* Whatever is stolen, the workers' queues hold the ready tasks and nothing else,
\* each of them once, and that of a lone worker in the order of the ready queue,
\* after any program. Every operation is translated from a copy of its guards, so
\* the two sides drift apart for good as soon as one copy is wrong.
BridgesExact ==
  /\ UNION {Elems(workerQ[w]) : w \in Worker} = Elems(readyQ)
  /\ \A w \in Worker : NoDup(workerQ[w])
  /\ \A v, w \in Worker : v # w => Elems(workerQ[v]) \cap Elems(workerQ[w]) = {}
  /\ \A w \in workers : workers = {w} => workerQ[w] = readyQ

=============================================================================
