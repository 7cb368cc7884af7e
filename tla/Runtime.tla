------------------------------- MODULE Runtime -------------------------------
(***************************************************************************)
(* The runtime as a state machine: `step` of Henret/Scheduler/Model.lean   *)
(* offered every operation of RuntimeOp (Henret/Scheduler/Op.lean) in      *)
(* every order, as `run` does for an arbitrary list of operations; and     *)
(* what the reachable states and the steps between them must satisfy.      *)
(***************************************************************************)
EXTENDS Lifecycle, Messaging, Admission

SchedulerNext ==
  \/ Schedule
  \/ \E t \in Task : Yield(t) \/ Complete(t) \/ Cancel(t) \/ Fail(t)
  \/ \E t \in Task : CancelTree(t)

CreationNext ==
  \/ \E a \in Actor : Spawn(a)
  \/ \E t \in Task, a \in Actor : SpawnChild(t, a)
  \/ \E p, c \in Task, a \in Actor : RestartOne(p, c, a)

TimeNext ==
  \/ \E t \in Task, d \in Deadline : Sleep(t, d)
  \/ \E d \in Deadline : Tick(d)
  \/ \E t \in Task : Wake(t)

MessageNext ==
  \/ \E b \in Actor : Inject(b)
  \/ \E t \in Task, b \in Actor : Send(t, b) \/ ReceiveFrom(t, b)
  \/ \E t \in Task : Receive(t)
  \/ \E t \in Task, d \in Deadline : ReceiveUntil(t, d)
  \/ \E t \in Task, m \in Message : ReceiveByOccurrence(t, m)

AdmissionNext ==
  \/ \E a \in Actor : CloseActor(a)
  \/ Shutdown
  \/ StopWhenIdle
  \/ StopWhenDrained

ResourceNext ==
  \/ \E t \in Task : Acquire(t)
  \/ \E a \in Actor : AcquireActor(a)
  \/ \E t \in Task, r \in Resource : Release(t, r)
  \/ \E a \in Actor, r \in Resource : ReleaseActor(a, r)
  \/ \E r \in Resource : Finalize(r)

MetaNext ==
  \/ \E t \in Task, p \in Priority : SetPriority(t, p)
  \/ \E t \in Task, d \in Urgency : SetDeadline(t, d)

Next ==
  \/ SchedulerNext
  \/ CreationNext
  \/ TimeNext
  \/ MessageNext
  \/ AdmissionNext
  \/ ResourceNext
  \/ MetaNext

Spec == Init /\ [][Next]_vars

-----------------------------------------------------------------------------
(* Invariants. *)

TypeOK ==
  /\ taskState  \in [Task -> TaskState \cup {None}]
  /\ taskOwner  \in [Task -> Actor \cup {None}]
  /\ taskParent \in [Task -> Task \cup {None}]
  /\ restartOf  \in [Task -> Task \cup {None}]
  /\ taskMeta   \in [Task -> Meta \cup {None}]
  /\ nextId \in 0 .. MaxTask
  /\ readyQ \in Seq(Task)
  /\ running \in Task \cup {None}
  /\ timers \in Seq(TimerEntry)
  /\ waitDeadline \in [Task -> Deadline \cup {None}]
  /\ now \in Deadline
  /\ mailboxes \in [Actor -> Seq(Envelope) \cup {None}]
  /\ mailboxWaiters \in [Actor -> Seq(Task)]
  /\ timedMailboxWaiters \in [Actor -> Seq(Task)]
  /\ nextMsgId \in 0 .. MaxMsg
  /\ actorStatus \in [Actor -> {"active", "closed"}]
  /\ runtimeStatus \in {"running", "shuttingDown", "stopped"}
  /\ LedgerTypeOK

\* A task is queued exactly when it is runnable, and once; it occupies the
\* running slot exactly when its state says so. The two are written apart by
\* every operation, so a forgotten update strands or duplicates a task.
QueueExact ==
  /\ NoDup(readyQ)
  /\ Elems(readyQ) = {t \in Task : taskState[t] \in Runnable}
  /\ \A t \in Task : taskState[t] = "running" <=> running = t

\* A task is in an actor's waiter queue exactly when it is parked in a receive
\* and owned by that actor: cancel filters its owner's plain queue only, which
\* is enough for this reason alone.
WaitersExact ==
  \A a \in Actor :
    /\ NoDup(mailboxWaiters[a])
    /\ NoDup(timedMailboxWaiters[a])
    /\ Elems(mailboxWaiters[a]) =
         {t \in Task : taskState[t] = "waiting" /\ taskOwner[t] = a}
    /\ Elems(timedMailboxWaiters[a]) =
         {t \in Task : taskState[t] = "waitingTimed" /\ taskOwner[t] = a}

\* The timer queue is sorted and holds one timer for each sleeping task and
\* each timed waiter, and nothing stale; a timed waiter's timer agrees with
\* its recorded deadline, which is still to come.
TimersExact ==
  /\ Sorted(timers)
  /\ NoDup(TasksOf(timers))
  /\ Elems(TasksOf(timers)) =
       {t \in Task : taskState[t] \in {"sleeping", "waitingTimed"}}
  /\ \A t \in Task : waitDeadline[t] # None <=> taskState[t] = "waitingTimed"
  /\ \A e \in Elems(timers) : taskState[e.task] = "waitingTimed" =>
       waitDeadline[e.task] = e.deadline /\ now < e.deadline

\* An occurrence id names one envelope in one mailbox; a mailbox holds its
\* envelopes in the order they were delivered, within its capacity.
MailboxesExact ==
  \A a \in Actor : mailboxes[a] # None =>
    LET mb == mailboxes[a]
    IN  /\ \A i, j \in 1 .. Len(mb) : i < j => mb[i].occurrence < mb[j].occurrence
        /\ \A e \in Elems(mb) : e.occurrence < nextMsgId
        /\ Capacity[a] # None => Len(mb) <= Capacity[a]
        /\ \A b \in Actor \ {a} : mailboxes[b] # None =>
             \A e \in Elems(mb), f \in Elems(mailboxes[b]) :
               e.occurrence # f.occurrence

\* The ids in use are those below nextId, each with an owner that has a
\* mailbox; a parent is older than its child; a replacement has the parent of
\* the task it replaces, which is older than it and stays failed.
FamilyExact ==
  \A t \in Task :
    /\ taskState[t] # None <=> t < nextId
    /\ taskOwner[t] # None <=> t < nextId
    /\ taskOwner[t] # None => mailboxes[taskOwner[t]] # None
    /\ taskParent[t] # None => taskParent[t] < t /\ t < nextId
    /\ restartOf[t] # None =>
         /\ restartOf[t] < t
         /\ taskState[restartOf[t]] = "failed"
         /\ taskParent[t] # None
         /\ taskParent[restartOf[t]] = taskParent[t]

\* Can the owner o still use what it holds?
OwnerOpen(o) ==
  \/ o.kind = "task" /\ Live(o.id)
  \/ o.kind = "actor" /\ mailboxes[o.id] # None /\ actorStatus[o.id] = "active"

\* A resource is allocated only while its owner can use it, and is awaiting
\* finalization only when its owner is gone: no operation that ends a task or
\* closes an actor may forget its resources, whichever way the task ends.
LedgerExact ==
  \A r \in Resource :
    /\ resources[r] # None <=> r < nextResourceId
    /\ InState(r, "allocated") => OwnerOpen(resources[r].owner)
    /\ InState(r, "closing") => ~ OwnerOpen(resources[r].owner)

\* The walk up the parent chain that cancelTree uses, which gives up when an
\* id does not decrease, finds the least set of tasks that holds the root and
\* the children of its members.
Spawned == {t \in Task : taskState[t] # None}
ClosedUnderChildren(S) ==
  \A t \in Spawned : taskParent[t] \in S => t \in S
SubtreeIsClosure ==
  \A root \in Spawned :
    /\ root \in DescendantsOf(root)
    /\ ClosedUnderChildren(DescendantsOf(root))
    /\ \A S \in SUBSET Spawned :
         root \in S /\ ClosedUnderChildren(S) => DescendantsOf(root) \subseteq S

-----------------------------------------------------------------------------
(* What a step may never do. *)

\* A terminated task stays as it ended, and the identity given to a task at
\* creation (owner, parent, what it replaces) is never rewritten.
TerminalForever ==
  [][\A t \in Task :
       /\ taskState[t] \in Terminal => taskState'[t] = taskState[t]
       /\ taskState[t] # None =>
            /\ taskState'[t] # None
            /\ taskOwner'[t] = taskOwner[t]
            /\ taskParent'[t] = taskParent[t]
            /\ restartOf'[t] = restartOf[t]]_vars

\* Is the message with occurrence id m waiting in the mailbox of a?
InMailbox(m, a) ==
  mailboxes[a] # None /\ \E e \in Elems(mailboxes[a]) : e.occurrence = m

\* A message is consumed at most once and never moves: an occurrence id that
\* has been handed out enters no mailbox again, and it leaves a mailbox only
\* when a task of that actor is running.
MessagesAtMostOnce ==
  [][\A m \in Message, a \in Actor :
       /\ m < nextMsgId /\ ~ InMailbox(m, a) => ~ InMailbox(m, a)'
       /\ InMailbox(m, a) /\ ~ InMailbox(m, a)' =>
            running # None /\ taskOwner[running] = a]_vars

\* This step puts a new message into the mailbox of a.
DeliveredTo(a) == \E m \in Message : m = nextMsgId /\ InMailbox(m, a)'

\* The tasks parked in a receive on the mailbox of a.
Receivers(a) ==
  {t \in Task : taskState[t] \in {"waiting", "waitingTimed"} /\ taskOwner[t] = a}

\* A delivery makes one task runnable, a receiver of that mailbox, if there is
\* any, and touches no other parked task.
DeliveryWakesOne ==
  [][\A a \in Actor : DeliveredTo(a) =>
       LET woken == {t \in Task : taskState[t] \in Parked /\ taskState'[t] # taskState[t]}
       IN  IF Receivers(a) = {} THEN woken = {}
           ELSE \E t \in Receivers(a) : woken = {t} /\ taskState'[t] = "ready"]_vars

\* A timed waiter becomes runnable only through a delivery to its actor or
\* once the clock has reached its deadline.
TimedWakeJustified ==
  [][\A t \in Task : taskState[t] = "waitingTimed" /\ taskState'[t] = "ready" =>
       \/ DeliveredTo(taskOwner[t])
       \/ waitDeadline[t] <= now']_vars

\* No task overtakes another in the list q.
KeepsOrder(q, r) ==
  \A i, j \in 1 .. Len(q), k, l \in 1 .. Len(r) :
    i < j /\ r[k] = q[i] /\ r[l] = q[j] => k < l
NewcomersLast(q, r) ==
  \A k, l \in 1 .. Len(r) : r[k] \notin Elems(q) /\ r[l] \in Elems(q) => l < k

\* The ready queue and both waiter queues are FIFO across every operation, and
\* a task is dispatched only when everything queued before it has gone.
FifoQueues ==
  [][/\ KeepsOrder(readyQ, readyQ') /\ NewcomersLast(readyQ, readyQ')
     /\ \A i, j \in 1 .. Len(readyQ) :
          i < j /\ running' = readyQ[j] => readyQ[i] \notin Elems(readyQ')
     /\ \A a \in Actor :
          /\ KeepsOrder(mailboxWaiters[a], mailboxWaiters[a]')
          /\ NewcomersLast(mailboxWaiters[a], mailboxWaiters[a]')
          /\ KeepsOrder(timedMailboxWaiters[a], timedMailboxWaiters[a]')
          /\ NewcomersLast(timedMailboxWaiters[a], timedMailboxWaiters[a]')]_vars

\* A released resource stays released, and a resource never changes owner.
ReleasedForever ==
  [][\A r \in Resource :
       /\ InState(r, "released") => InState(r, "released")'
       /\ InState(r, "closing") => ~ InState(r, "allocated")'
       /\ resources[r] # None =>
            resources'[r] # None /\ resources'[r].owner = resources[r].owner]_vars

\* Once admission is over and nothing is left to run, nothing runs again: no
\* parked task, late timer or delivery brings a task back, in particular not
\* after the runtime has stopped.
QuiescentForever ==
  [][runtimeStatus # "running" /\ RuntimeQuiescent
       => runtimeStatus' # "running" /\ RuntimeQuiescent']_vars

\* A clean stop is permanent: a drained ledger stays drained from then on.
DrainedForever ==
  [][runtimeStatus # "running" /\ RuntimeQuiescent /\ ResourceDrained
       => ResourceDrained']_vars

\* stopped is reached only when nothing is running, queued or timed.
StoppedIsQuiescent == runtimeStatus = "stopped" => RuntimeQuiescent

=============================================================================
