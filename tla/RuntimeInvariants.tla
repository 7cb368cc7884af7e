-------------------------- MODULE RuntimeInvariants --------------------------
(***************************************************************************)
(* Type correctness of Runtime and its three scheduling invariants,        *)
(* QueueExact, WaitersExact and TimersExact, for every value of the        *)
(* constants. TypeOK is inductive by itself. None of the others is: waking *)
(* a task is harmless to the ready queue only because the waiter and timer *)
(* queues hold parked tasks and nothing else, once each. Together with     *)
(* TypeOK they are.                                                        *)
(***************************************************************************)
EXTENDS Runtime, QueueTheorems

-----------------------------------------------------------------------------
(* The list operators keep the type of their list. *)

\* The operations on the ready queue and the waiter queues give lists of tasks.
LEMMA TaskListTypes ==
  ASSUME NEW q \in Seq(Task), NEW S
  PROVE  /\ Without(q, S) \in Seq(Task)
         /\ Only(q, S) \in Seq(Task)
         /\ \A t \in Task : Append(q, t) \in Seq(Task)
         /\ q # << >> => Head(q) \in Task /\ Tail(q) \in Seq(Task)
  BY WithoutProperties, OnlyProperties, AppendProperties, HeadTailProperties

\* The operations on the timer queue give lists of timers (Timer.lean).
LEMMA TimerListTypes ==
  ASSUME NEW q \in Seq(TimerEntry)
  PROVE  /\ \A S : WithoutTimersOf(q, S) \in Seq(TimerEntry)
         /\ \A t : Remaining(q, t) \in Seq(TimerEntry)
         /\ \A t : TasksOf(Expired(q, t)) \in Seq(Task)
         /\ \A e \in TimerEntry : InsertSorted(e, q) \in Seq(TimerEntry)
<1>1. \A S : WithoutTimersOf(q, S) \in Seq(TimerEntry)
  BY WithoutProperties DEF WithoutTimersOf
<1>2. \A t : Remaining(q, t) \in Seq(TimerEntry) /\ Expired(q, t) \in Seq(TimerEntry)
  BY OnlyProperties DEF Remaining, Expired
<1>3. ASSUME NEW w \in Seq(TimerEntry) PROVE TasksOf(w) \in Seq(Task)
  <2>1. Len(w) \in Nat /\ \A i \in 1 .. Len(w) : w[i] \in TimerEntry
    BY LenProperties, ElementOfSeq
  <2>2. \A i \in 1 .. Len(w) : w[i].task \in Task
    BY <2>1 DEF TimerEntry
  <2>3. QED BY <2>1, <2>2 DEF TasksOf
<1>4. \A x \in TimerEntry : x.deadline \in Int
  BY DEF TimerEntry, Deadline
<1>5. QED BY <1>1, <1>2, <1>3, <1>4, InsertSortedProperties

-----------------------------------------------------------------------------

\* The initial state is well typed (RuntimeState.init).
LEMMA InitTypes == Init => TypeOK
<1> SUFFICES ASSUME Init PROVE TypeOK
  OBVIOUS
<1> USE BoundsAssumption, StateAssumption DEF Init, LedgerInit
<1>1. LedgerTypeOK
  BY DEF LedgerTypeOK
<1>2. QED BY <1>1 DEF TypeOK, Deadline

\* spawn, spawnChild and restartOne share this update.
LEMMA NewTaskTypes ==
  ASSUME TypeOK, NEW a \in Actor, NEW p \in Task \cup {None}, NEW r \in Task \cup {None},
         NewTask(a, p, r)
  PROVE  TypeOK'
<1> USE BoundsAssumption
<1>1. nextId \in Task /\ nextId' \in 0 .. MaxTask
  BY DEF NewTask, TypeOK, Task
<1>2. readyQ' \in Seq(Task)
  BY <1>1, AppendProperties DEF NewTask, TypeOK
<1>3. mailboxes' \in [Actor -> Seq(Envelope) \cup {None}]
  BY EmptySeq DEF NewTask, TypeOK, WithMailbox
<1>4. /\ taskState' \in [Task -> TaskState \cup {None}]
      /\ taskOwner' \in [Task -> Actor \cup {None}]
      /\ taskParent' \in [Task -> Task \cup {None}]
      /\ restartOf' \in [Task -> Task \cup {None}]
  BY <1>1 DEF NewTask, TypeOK, TaskState, Runnable
<1>5. LedgerTypeOK'
  BY DEF NewTask, TypeOK, LedgerTypeOK, ledgerVars
<1>6. QED BY <1>1, <1>2, <1>3, <1>4, <1>5
      DEF NewTask, TypeOK, timeVars, waiterVars, statusVars

\* What leaves the ledger alone leaves it well typed.
LEMMA LedgerUnchanged ==
  ASSUME TypeOK, UNCHANGED ledgerVars
  PROVE  LedgerTypeOK'
  BY DEF TypeOK, LedgerTypeOK, ledgerVars

\* markClosingIfOwner changes the state of a record and no more.
LEMMA MarkClosingTypes ==
  ASSUME TypeOK, NEW owners, MarkClosing(owners), UNCHANGED nextResourceId
  PROVE  LedgerTypeOK'
<1>1. ASSUME NEW r \in Resource, InState(r, "allocated")
      PROVE  [resources[r] EXCEPT !.state = "closing"] \in Record
  BY <1>1 DEF TypeOK, LedgerTypeOK, InState, Record
<1>2. QED BY <1>1 DEF TypeOK, LedgerTypeOK, MarkClosing

\* acquire and acquireActor add a record of the right shape.
LEMMA AllocateTypes ==
  ASSUME TypeOK, NEW o \in Owner, Allocate(o)
  PROVE  LedgerTypeOK'
  BY BoundsAssumption DEF TypeOK, LedgerTypeOK, Allocate, Record, Resource

\* release, releaseActor and finalize change the state of a record.
LEMMA ReclaimTypes ==
  ASSUME TypeOK, NEW r \in Resource, NEW o, NEW from, Reclaim(r, o, from)
  PROVE  LedgerTypeOK'
<1>1. [resources[r] EXCEPT !.state = "released"] \in Record
  BY DEF TypeOK, LedgerTypeOK, InState, Record, Reclaim
<1>2. QED BY <1>1 DEF TypeOK, LedgerTypeOK, Reclaim

-----------------------------------------------------------------------------
(* Dispatch and termination. *)

\* schedule, on any arrangement of the queue: its head becomes the running task.
LEMMA DispatchTypes ==
  ASSUME TypeOK, NEW q \in Seq(Task), Dispatch(q)
  PROVE  TypeOK'
<1>1. Head(q) \in Task /\ Tail(q) \in Seq(Task)
  BY TaskListTypes DEF Dispatch, CanDispatch
<1>2. LedgerTypeOK'
  BY LedgerUnchanged DEF Dispatch
<1>3. QED BY <1>1, <1>2 DEF TypeOK, Dispatch, CanDispatch, TaskState,
                            identityVars, timeVars, waiterVars, mailVars, statusVars

\* yield: the running task goes back to the queue.
LEMMA YieldTypes ==
  ASSUME TypeOK, NEW t \in Task, Yield(t)
  PROVE  TypeOK'
<1>1. Append(readyQ, t) \in Seq(Task)
  BY TaskListTypes DEF TypeOK
<1>2. LedgerTypeOK'
  BY LedgerUnchanged DEF Yield
<1>3. QED BY <1>1, <1>2 DEF TypeOK, Yield, TaskState, Runnable, identityVars,
                            timeVars, waiterVars, mailVars, statusVars

\* complete: the running task ends.
LEMMA CompleteTypes ==
  ASSUME TypeOK, NEW t \in Task, Complete(t)
  PROVE  TypeOK'
<1>1. LedgerTypeOK'
  BY MarkClosingTypes DEF Complete
<1>2. QED BY <1>1 DEF TypeOK, Complete, TaskState, Terminal, identityVars,
                      timeVars, waiterVars, mailVars, statusVars

\* cancel and fail: a task is taken out of every list it may be in.
LEMMA TerminateTypes ==
  ASSUME TypeOK, NEW t \in Task, NEW outcome \in Terminal, Terminate(t, outcome)
  PROVE  TypeOK'
<1>1. LedgerTypeOK'
  BY MarkClosingTypes DEF Terminate
<1>2. readyQ' \in Seq(Task) /\ timers' \in Seq(TimerEntry)
  BY TaskListTypes, TimerListTypes DEF TypeOK, Terminate
<1>3. /\ mailboxWaiters' \in [Actor -> Seq(Task)]
      /\ timedMailboxWaiters' \in [Actor -> Seq(Task)]
  BY TaskListTypes DEF TypeOK, Terminate
<1>4. QED BY <1>1, <1>2, <1>3 DEF TypeOK, Terminate, TaskState, identityVars,
                                  mailVars, statusVars

\* cancelTree: so is a set of tasks.
LEMMA CancelTreeTypes ==
  ASSUME TypeOK, NEW root \in Task, CancelTree(root)
  PROVE  TypeOK'
<1> DEFINE D == DescendantsOf(root)
<1>1. LedgerTypeOK'
  BY MarkClosingTypes DEF CancelTree
<1>2. readyQ' \in Seq(Task) /\ timers' \in Seq(TimerEntry)
  BY TaskListTypes, TimerListTypes DEF TypeOK, CancelTree
<1>3. /\ mailboxWaiters' \in [Actor -> Seq(Task)]
      /\ timedMailboxWaiters' \in [Actor -> Seq(Task)]
  BY TaskListTypes DEF TypeOK, CancelTree
<1>4. /\ taskState' \in [Task -> TaskState \cup {None}]
      /\ waitDeadline' \in [Task -> Deadline \cup {None}]
  BY DEF TypeOK, CancelTree, TaskState, Terminal
<1>5. QED BY <1>1, <1>2, <1>3, <1>4 DEF TypeOK, CancelTree, identityVars,
                                  mailVars, statusVars

-----------------------------------------------------------------------------
(* Time. *)

\* sleep: a timer is inserted.
LEMMA SleepTypes ==
  ASSUME TypeOK, NEW t \in Task, NEW d \in Deadline, Sleep(t, d)
  PROVE  TypeOK'
<1>1. LedgerTypeOK'
  BY LedgerUnchanged DEF Sleep
<1>2. [deadline |-> d, task |-> t] \in TimerEntry
  BY DEF TimerEntry
<1>3. timers' \in Seq(TimerEntry)
  BY <1>2, TimerListTypes DEF TypeOK, Sleep
<1>4. QED BY <1>1, <1>3 DEF TypeOK, Sleep, TaskState, Parked, identityVars,
                            waiterVars, mailVars, statusVars

\* tick: the expired timers become entries of the ready queue.
LEMMA TickTypes ==
  ASSUME TypeOK, NEW d \in Deadline, Tick(d)
  PROVE  TypeOK'
<1> DEFINE expired       == TasksOf(Expired(timers, d))
           wokenSleeping == Only(expired, {u \in Task : taskState[u] = "sleeping"})
           wokenTimed    == Only(expired, {u \in Task : taskState[u] = "waitingTimed"})
<1>1. LedgerTypeOK'
  BY LedgerUnchanged DEF Tick
<1>2. expired \in Seq(Task) /\ timers' \in Seq(TimerEntry)
  BY TimerListTypes DEF TypeOK, Tick
<1>3. wokenSleeping \in Seq(Task) /\ wokenTimed \in Seq(Task)
  BY <1>2, TaskListTypes
<1>4. readyQ' \in Seq(Task)
  BY <1>3, ConcatProperties DEF TypeOK, Tick
<1>5. timedMailboxWaiters' \in [Actor -> Seq(Task)]
  BY TaskListTypes DEF TypeOK, Tick
<1>6. /\ taskState' \in [Task -> TaskState \cup {None}]
      /\ waitDeadline' \in [Task -> Deadline \cup {None}]
  BY DEF TypeOK, Tick, TaskState, Runnable
<1>7. QED BY <1>1, <1>2, <1>4, <1>5, <1>6 DEF TypeOK, Tick, identityVars,
                                  mailVars, statusVars

\* wake: a sleeper is queued before its time.
LEMMA WakeTypes ==
  ASSUME TypeOK, NEW t \in Task, Wake(t)
  PROVE  TypeOK'
<1>1. LedgerTypeOK'
  BY LedgerUnchanged DEF Wake
<1>2. readyQ' \in Seq(Task) /\ timers' \in Seq(TimerEntry)
  BY TaskListTypes, TimerListTypes DEF TypeOK, Wake
<1>3. QED BY <1>1, <1>2 DEF TypeOK, Wake, TaskState, Runnable, identityVars,
                            waiterVars, mailVars, statusVars

-----------------------------------------------------------------------------
(* Messages. *)

\* The update of a delivery for the waiter it wakes.
LEMMA WakeWaiterTypes ==
  ASSUME TypeOK, NEW w \in Task, WakeWaiter(w)
  PROVE  /\ taskState' \in [Task -> TaskState \cup {None}]
         /\ readyQ' \in Seq(Task)
         /\ timers' \in Seq(TimerEntry)
         /\ waitDeadline' \in [Task -> Deadline \cup {None}]
<1>1. readyQ' \in Seq(Task) /\ timers' \in Seq(TimerEntry)
  BY TaskListTypes, TimerListTypes DEF TypeOK, WakeWaiter
<1>2. QED BY <1>1 DEF TypeOK, WakeWaiter, TaskState, Runnable

\* The choice of that waiter, plain before timed.
LEMMA WakeOneOfTypes ==
  ASSUME TypeOK, NEW b \in Actor, WakeOneOf(b)
  PROVE  /\ taskState' \in [Task -> TaskState \cup {None}]
         /\ readyQ' \in Seq(Task)
         /\ timers' \in Seq(TimerEntry)
         /\ waitDeadline' \in [Task -> Deadline \cup {None}]
         /\ mailboxWaiters' \in [Actor -> Seq(Task)]
         /\ timedMailboxWaiters' \in [Actor -> Seq(Task)]
<1>1. CASE /\ mailboxWaiters[b] # << >>
           /\ WakeWaiter(Head(mailboxWaiters[b]))
           /\ mailboxWaiters' = [mailboxWaiters EXCEPT ![b] = Tail(@)]
           /\ UNCHANGED timedMailboxWaiters
  <2>1. Head(mailboxWaiters[b]) \in Task /\ Tail(mailboxWaiters[b]) \in Seq(Task)
    BY <1>1, TaskListTypes DEF TypeOK
  <2>2. QED BY <1>1, <2>1, WakeWaiterTypes DEF TypeOK
<1>2. CASE /\ timedMailboxWaiters[b] # << >>
           /\ WakeWaiter(Head(timedMailboxWaiters[b]))
           /\ timedMailboxWaiters' = [timedMailboxWaiters EXCEPT ![b] = Tail(@)]
           /\ UNCHANGED mailboxWaiters
  <2>1. /\ Head(timedMailboxWaiters[b]) \in Task
        /\ Tail(timedMailboxWaiters[b]) \in Seq(Task)
    BY <1>2, TaskListTypes DEF TypeOK
  <2>2. QED BY <1>2, <2>1, WakeWaiterTypes DEF TypeOK
<1>3. CASE UNCHANGED << taskState, readyQ, timers, waitDeadline, waiterVars >>
  BY <1>3 DEF TypeOK, waiterVars
<1>4. QED BY <1>1, <1>2, <1>3 DEF WakeOneOf

\* send and inject: an envelope is stored and one waiter woken.
LEMMA DeliverTypes ==
  ASSUME TypeOK, NEW b \in Actor, NEW src \in Actor \cup {None}, Deliver(b, src)
  PROVE  TypeOK'
<1>1. LedgerTypeOK'
  BY LedgerUnchanged DEF Deliver
<1>2. [occurrence |-> nextMsgId, source |-> src] \in Envelope
  BY StateAssumption DEF TypeOK, Deliver, Envelope, Message
<1>3. mailboxes' \in [Actor -> Seq(Envelope) \cup {None}] /\ nextMsgId' \in 0 .. MaxMsg
  BY <1>2, AppendProperties, StateAssumption DEF TypeOK, Deliver
<1>4. QED BY <1>1, <1>3, WakeOneOfTypes
      DEF TypeOK, Deliver, identityVars, statusVars

\* The three untimed receives: an envelope is taken out, or the task parks.
LEMMA ReceiveTypes ==
  ASSUME TypeOK, NEW t \in Task, NEW wanted, ReceiveWanted(t, wanted)
  PROVE  TypeOK'
<1> DEFINE a == taskOwner[t]
<1>1. a \in Actor /\ mailboxes[a] \in Seq(Envelope)
  BY DEF TypeOK, ReceiveWanted, CanReceive
<1>2. CASE TakeFirst(t, wanted)
  <2>1. RemoveFirst(mailboxes[a], wanted) \in Seq(Envelope)
    BY <1>1, <1>2, RemoveFirstProperties DEF TakeFirst
  <2>2. LedgerTypeOK'
    BY <1>2, LedgerUnchanged DEF TakeFirst
  <2>3. QED BY <1>1, <1>2, <2>1, <2>2 DEF TypeOK, TakeFirst, identityVars,
                  scheduleVars, timeVars, waiterVars, statusVars
<1>3. CASE Park(t)
  <2>1. Append(mailboxWaiters[a], t) \in Seq(Task)
    BY <1>1, TaskListTypes DEF TypeOK
  <2>2. LedgerTypeOK'
    BY <1>3, LedgerUnchanged DEF Park
  <2>3. QED BY <1>1, <1>3, <2>1, <2>2 DEF TypeOK, Park, TaskState, Parked,
                  identityVars, timeVars, mailVars, statusVars
<1>4. QED BY <1>2, <1>3 DEF ReceiveWanted

\* receiveUntil: the same with a timer.
LEMMA ReceiveUntilTypes ==
  ASSUME TypeOK, NEW t \in Task, NEW d \in Deadline, ReceiveUntil(t, d)
  PROVE  TypeOK'
<1> DEFINE a == taskOwner[t]
<1>1. a \in Actor /\ mailboxes[a] \in Seq(Envelope)
  BY DEF TypeOK, ReceiveUntil, CanReceive
<1>2. CASE TakeFirst(t, Envelope)
  BY <1>2, ReceiveTypes DEF ReceiveUntil, ReceiveWanted
<1>3. CASE ~ TakeFirst(t, Envelope)
  <2>1. Append(timedMailboxWaiters[a], t) \in Seq(Task)
    BY <1>1, TaskListTypes DEF TypeOK
  <2>2. [deadline |-> d, task |-> t] \in TimerEntry
    BY DEF TimerEntry
  <2>3. InsertSorted([deadline |-> d, task |-> t], timers) \in Seq(TimerEntry)
    BY <2>2, TimerListTypes DEF TypeOK
  <2>4. LedgerTypeOK'
    BY <1>3, LedgerUnchanged DEF ReceiveUntil
  <2>5. /\ taskState' = [taskState EXCEPT ![t] = "waitingTimed"]
        /\ running' = None
        /\ timedMailboxWaiters' =
             [timedMailboxWaiters EXCEPT ![a] = Append(@, t)]
        /\ timers' = InsertSorted([deadline |-> d, task |-> t], timers)
        /\ waitDeadline' = [waitDeadline EXCEPT ![t] = d]
        /\ UNCHANGED << readyQ, now, mailboxWaiters, taskMeta, identityVars,
                        mailVars, statusVars >>
    BY <1>3 DEF ReceiveUntil
  <2>6. /\ taskState' \in [Task -> TaskState \cup {None}]
        /\ waitDeadline' \in [Task -> Deadline \cup {None}]
        /\ timers' \in Seq(TimerEntry)
        /\ timedMailboxWaiters' \in [Actor -> Seq(Task)]
    BY <2>1, <2>3, <2>5 DEF TypeOK, TaskState, Parked
  <2>7. QED BY <2>4, <2>5, <2>6 DEF TypeOK, identityVars, mailVars, statusVars
<1>4. QED BY <1>2, <1>3

-----------------------------------------------------------------------------
(* Admission, resources and metadata. *)

\* closeActor, shutdown and the two stop operations.
LEMMA AdmissionTypes ==
  ASSUME TypeOK, AdmissionNext
  PROVE  TypeOK'
<1> USE DEF taskVars, identityVars, scheduleVars, timeVars, waiterVars, mailVars
<1>1. CASE \E a \in Actor : CloseActor(a)
  <2>1. PICK a \in Actor : CloseActor(a)
    BY <1>1
  <2>2. LedgerTypeOK'
    BY <2>1, MarkClosingTypes DEF CloseActor
  <2>3. QED BY <2>1, <2>2 DEF TypeOK, CloseActor
<1>2. CASE Shutdown \/ Stop
  <2>1. LedgerTypeOK'
    BY <1>2, LedgerUnchanged DEF Shutdown, Stop
  <2>2. QED BY <1>2, <2>1 DEF TypeOK, Shutdown, Stop
<1>3. QED BY <1>1, <1>2 DEF AdmissionNext, StopWhenIdle, StopWhenDrained

\* The operations on the ledger.
LEMMA ResourceTypes ==
  ASSUME TypeOK, ResourceNext
  PROVE  TypeOK'
<1>1. /\ LedgerTypeOK'
      /\ UNCHANGED ledgerOnly
  <2>1. ASSUME NEW t \in Task, Acquire(t)
        PROVE  LedgerTypeOK' /\ UNCHANGED ledgerOnly
    BY <2>1, AllocateTypes DEF Acquire, Owner
  <2>2. ASSUME NEW a \in Actor, AcquireActor(a)
        PROVE  LedgerTypeOK' /\ UNCHANGED ledgerOnly
    BY <2>2, AllocateTypes DEF AcquireActor, Owner
  <2>3. ASSUME NEW t \in Task, NEW r \in Resource, Release(t, r)
        PROVE  LedgerTypeOK' /\ UNCHANGED ledgerOnly
    BY <2>3, ReclaimTypes DEF Release
  <2>4. ASSUME NEW a \in Actor, NEW r \in Resource, ReleaseActor(a, r)
        PROVE  LedgerTypeOK' /\ UNCHANGED ledgerOnly
    BY <2>4, ReclaimTypes DEF ReleaseActor
  <2>5. ASSUME NEW r \in Resource, Finalize(r)
        PROVE  LedgerTypeOK' /\ UNCHANGED ledgerOnly
    BY <2>5, ReclaimTypes DEF Finalize
  <2>6. QED BY <2>1, <2>2, <2>3, <2>4, <2>5 DEF ResourceNext
<1>2. QED BY <1>1 DEF TypeOK, ledgerOnly, taskVars, identityVars, scheduleVars,
                      timeVars, waiterVars, mailVars, statusVars

\* setPriority and setDeadline.
LEMMA MetaTypes ==
  ASSUME TypeOK, MetaNext
  PROVE  TypeOK'
<1>1. \A t \in Task : MetaOf(t) \in Meta
  BY DEF TypeOK, MetaOf, DefaultMeta, Meta
<1>2. ASSUME NEW t \in Task, NEW p \in Priority, SetPriority(t, p)
      PROVE  TypeOK'
  <2>1. [MetaOf(t) EXCEPT !.priority = p] \in Meta
    BY <1>1 DEF Meta
  <2>2. LedgerTypeOK'
    BY <1>2, LedgerUnchanged DEF SetPriority
  <2>3. QED BY <1>2, <2>1, <2>2 DEF TypeOK, SetPriority, taskVars, identityVars,
                  scheduleVars, timeVars, waiterVars, mailVars, statusVars
<1>3. ASSUME NEW t \in Task, NEW d \in Urgency, SetDeadline(t, d)
      PROVE  TypeOK'
  <2>1. [MetaOf(t) EXCEPT !.deadline = d] \in Meta
    BY <1>1 DEF Meta
  <2>2. LedgerTypeOK'
    BY <1>3, LedgerUnchanged DEF SetDeadline
  <2>3. QED BY <1>3, <2>1, <2>2 DEF TypeOK, SetDeadline, taskVars, identityVars,
                  scheduleVars, timeVars, waiterVars, mailVars, statusVars
<1>4. QED BY <1>2, <1>3 DEF MetaNext

-----------------------------------------------------------------------------

\* Every operation keeps the types.
LEMMA NextTypes ==
  ASSUME TypeOK, [Next]_vars
  PROVE  TypeOK'
<1>1. CASE SchedulerNext
  <2>1. CASE Schedule
    BY <2>1, DispatchTypes DEF Schedule, TypeOK
  <2>2. QED BY <1>1, <2>1, YieldTypes, CompleteTypes, TerminateTypes, CancelTreeTypes
            DEF SchedulerNext, Cancel, Fail, Terminal
<1>2. CASE CreationNext
  BY <1>2, NewTaskTypes DEF CreationNext, Spawn, SpawnChild, RestartOne
<1>3. CASE TimeNext
  BY <1>3, SleepTypes, TickTypes, WakeTypes DEF TimeNext
<1>4. CASE MessageNext
  <2>1. ASSUME NEW b \in Actor, Inject(b) PROVE TypeOK'
    BY <2>1, DeliverTypes DEF Inject
  <2>2. ASSUME NEW t \in Task, NEW b \in Actor, Send(t, b) PROVE TypeOK'
    <3>1. taskOwner[t] \in Actor
      BY <2>2 DEF Send, TypeOK
    <3>2. QED BY <2>2, <3>1, DeliverTypes DEF Send
  <2>3. QED BY <1>4, <2>1, <2>2, ReceiveTypes, ReceiveUntilTypes
            DEF MessageNext, Receive, ReceiveFrom, ReceiveByOccurrence
<1>5. CASE AdmissionNext
  BY <1>5, AdmissionTypes
<1>6. CASE ResourceNext
  BY <1>6, ResourceTypes
<1>7. CASE MetaNext
  BY <1>7, MetaTypes
<1>8. CASE UNCHANGED vars
  BY <1>8 DEF TypeOK, LedgerTypeOK, vars, identityVars, scheduleVars, timeVars,
              waiterVars, mailVars, statusVars, ledgerVars
<1>9. QED BY <1>1, <1>2, <1>3, <1>4, <1>5, <1>6, <1>7, <1>8 DEF Next

\* Every variable keeps its type in every behaviour of the runtime, whatever
\* the bounds and the mailbox capacities.
THEOREM TypeCorrect == Spec => []TypeOK
<1>1. Init => TypeOK
  BY InitTypes
<1>2. TypeOK /\ [Next]_vars => TypeOK'
  BY NextTypes
<1>3. QED BY <1>1, <1>2, PTL DEF Spec

-----------------------------------------------------------------------------
(* The scheduling invariants, together with the types. *)

IInv == TypeOK /\ QueueExact /\ WaitersExact /\ TimersExact

-----------------------------------------------------------------------------
(* Lists without duplicates as sets. *)

\* Adding a member that is not there (List.append on the queues).
LEMMA AppendList ==
  ASSUME NEW T, NEW q \in Seq(T), NEW x \in T
  PROVE  /\ Elems(Append(q, x)) = Elems(q) \cup {x}
         /\ NoDup(q) /\ x \notin Elems(q) => NoDup(Append(q, x))
<1>1. /\ Len(q) \in Nat /\ Len(Append(q, x)) = Len(q) + 1
      /\ \A i \in 1 .. Len(q) : Append(q, x)[i] = q[i]
      /\ Append(q, x)[Len(q) + 1] = x
  BY AppendProperties, LenProperties
<1>2. 1 .. Len(q) + 1 = 1 .. Len(q) \cup {Len(q) + 1}
  BY <1>1
<1>3. QED BY <1>1, <1>2 DEF Elems, NoDup

\* Taking the first member out removes it altogether.
LEMMA TailList ==
  ASSUME NEW T, NEW q \in Seq(T), q # << >>
  PROVE  /\ Head(q) \in Elems(q)
         /\ NoDup(q) => NoDup(Tail(q)) /\ Elems(Tail(q)) = Elems(q) \ {Head(q)}
<1>1. /\ Len(q) \in Nat /\ Len(q) >= 1
      /\ Len(Tail(q)) = Len(q) - 1
      /\ \A i \in 1 .. Len(q) - 1 : Tail(q)[i] = q[i + 1]
      /\ Head(q) = q[1]
  BY HeadTailProperties, LenProperties, EmptySeq
<1>2. Head(q) \in Elems(q)
  BY <1>1 DEF Elems
<1>3. ASSUME NoDup(q) PROVE NoDup(Tail(q)) /\ Elems(Tail(q)) = Elems(q) \ {Head(q)}
  <2>1. NoDup(Tail(q))
    BY <1>1, <1>3 DEF NoDup
  <2>2. Elems(Tail(q)) \subseteq Elems(q) \ {Head(q)}
    BY <1>1, <1>3 DEF NoDup, Elems
  <2>3. ASSUME NEW y \in Elems(q) \ {Head(q)} PROVE y \in Elems(Tail(q))
    <3>1. PICK i \in 1 .. Len(q) : y = q[i]
      BY DEF Elems
    <3>2. i - 1 \in 1 .. Len(q) - 1 /\ Tail(q)[i - 1] = y
      BY <1>1, <2>3, <3>1
    <3>3. QED BY <1>1, <3>2 DEF Elems
  <2>4. QED BY <2>1, <2>2, <2>3
<1>4. QED BY <1>2, <1>3

\* Joining two lists that share no member.
LEMMA ConcatList ==
  ASSUME NEW T, NEW q \in Seq(T), NEW r \in Seq(T)
  PROVE  /\ Elems(q \o r) = Elems(q) \cup Elems(r)
         /\ NoDup(q) /\ NoDup(r) /\ Elems(q) \cap Elems(r) = {} => NoDup(q \o r)
<1>1. /\ Len(q) \in Nat /\ Len(r) \in Nat /\ Len(q \o r) = Len(q) + Len(r)
      /\ \A i \in 1 .. Len(q) + Len(r) :
           (q \o r)[i] = IF i <= Len(q) THEN q[i] ELSE r[i - Len(q)]
  BY ConcatProperties, LenProperties
<1>2. Elems(q \o r) \subseteq Elems(q) \cup Elems(r)
  BY <1>1 DEF Elems
<1>3. Elems(q) \subseteq Elems(q \o r)
  BY <1>1 DEF Elems
<1>4. ASSUME NEW y \in Elems(r) PROVE y \in Elems(q \o r)
  <2>1. PICK i \in 1 .. Len(r) : y = r[i]
    BY DEF Elems
  <2>2. Len(q) + i \in 1 .. Len(q) + Len(r) /\ (q \o r)[Len(q) + i] = y
    BY <1>1, <2>1
  <2>3. QED BY <1>1, <2>2 DEF Elems
<1>5. ASSUME NoDup(q), NoDup(r), Elems(q) \cap Elems(r) = {}
      PROVE  NoDup(q \o r)
  <2>1. SUFFICES ASSUME NEW i \in 1 .. Len(q) + Len(r), NEW j \in 1 .. Len(q) + Len(r),
                        (q \o r)[i] = (q \o r)[j]
                 PROVE  i = j
    BY <1>1 DEF NoDup
  <2>2. CASE i <= Len(q) /\ j <= Len(q)
    BY <1>1, <1>5, <2>1, <2>2 DEF NoDup
  <2>3. CASE i > Len(q) /\ j > Len(q)
    <3>1. i - Len(q) \in 1 .. Len(r) /\ j - Len(q) \in 1 .. Len(r)
      BY <1>1, <2>3
    <3>2. r[i - Len(q)] = r[j - Len(q)]
      BY <1>1, <2>1, <2>3
    <3>3. i - Len(q) = j - Len(q)
      BY <1>5, <3>1, <3>2 DEF NoDup
    <3>4. QED BY <1>1, <3>3
  <2>4. CASE i <= Len(q) /\ j > Len(q)
    <3>1. i \in 1 .. Len(q) /\ j - Len(q) \in 1 .. Len(r) /\ q[i] = r[j - Len(q)]
      BY <1>1, <2>1, <2>4
    <3>2. QED BY <1>5, <3>1 DEF Elems
  <2>5. CASE i > Len(q) /\ j <= Len(q)
    <3>1. j \in 1 .. Len(q) /\ i - Len(q) \in 1 .. Len(r) /\ q[j] = r[i - Len(q)]
      BY <1>1, <2>1, <2>5
    <3>2. QED BY <1>5, <3>1 DEF Elems
  <2>6. QED BY <1>1, <2>2, <2>3, <2>4, <2>5
<1>6. QED BY <1>2, <1>3, <1>4, <1>5

\* Moving a member to the head of a list without duplicates arranges the list
\* anew, and the rest is what filtering that member leaves (reorder).
LEMMA PutFirst ==
  ASSUME NEW T, NEW q \in Seq(T), NoDup(q), NEW c \in Elems(q)
  PROVE  LET w == << c >> \o RemoveFirst(q, {c}) IN
         /\ w \in Seq(T) /\ NoDup(w) /\ Elems(w) = Elems(q) /\ w # << >>
         /\ Head(w) = c /\ Tail(w) = Without(q, {c})
<1> DEFINE r == RemoveFirst(q, {c})
           w == << c >> \o r
<1>1. c \in T
  BY ElementOfSeq DEF Elems
<1>2. r = Without(q, {c})
  BY WithoutOne
<1> HIDE DEF r
<1>3. r \in Seq(T) /\ NoDup(r) /\ Elems(r) = Elems(q) \ {c}
  BY <1>2, WithoutProperties
<1>4. << c >> \in Seq(T) /\ NoDup(<< c >>) /\ Elems(<< c >>) = {c}
  BY <1>1 DEF NoDup, Elems
<1>5. w \in Seq(T)
  BY <1>3, <1>4, ConcatProperties
<1>6. /\ Elems(w) = {c} \cup (Elems(q) \ {c})
      /\ NoDup(w)
  <2>1. Elems(<< c >>) \cap Elems(r) = {}
    BY <1>3, <1>4
  <2>2. \A u, v \in Seq(T) :
          /\ Elems(u \o v) = Elems(u) \cup Elems(v)
          /\ NoDup(u) /\ NoDup(v) /\ Elems(u) \cap Elems(v) = {} => NoDup(u \o v)
    BY ConcatList
  <2>3. QED BY <1>3, <1>4, <2>1, <2>2
<1>7. Len(r) \in Nat /\ Len(w) = Len(r) + 1
  BY <1>3, <1>4, ConcatProperties, LenProperties
<1>8. w # << >> /\ w[1] = c /\ \A i \in 1 .. Len(r) : w[i + 1] = r[i]
  BY <1>3, <1>4, <1>7, ConcatProperties
<1> HIDE DEF w
<1>9. /\ Tail(w) \in Seq(T) /\ Len(Tail(w)) = Len(r)
      /\ \A i \in 1 .. Len(r) : Tail(w)[i] = w[i + 1]
  BY <1>5, <1>7, <1>8, HeadTailProperties
<1>10. Tail(w) = r
  BY <1>3, <1>8, <1>9, SeqEqual
<1>11. Head(w) = c
  BY <1>8
<1>12. QED BY <1>2, <1>5, <1>6, <1>8, <1>10, <1>11 DEF w, r

\* The tasks of a list of timers, and what the timer operations do to them.
LEMMA TasksOfElems ==
  ASSUME NEW q \in Seq(TimerEntry)
  PROVE  /\ Elems(TasksOf(q)) = {e.task : e \in Elems(q)}
         /\ Elems(q) \subseteq TimerEntry
         /\ TasksOf(q) \in Seq(Task)
<1>1. Len(q) \in Nat /\ \A i \in 1 .. Len(q) : q[i] \in TimerEntry
  BY LenProperties, ElementOfSeq
<1>2. \A i \in 1 .. Len(q) : q[i].task \in Task
  BY <1>1 DEF TimerEntry
<1>3. QED BY <1>1, <1>2, LenOfTasks DEF Elems, TasksOf

\* Filtering and splitting the timer queue, by task and by deadline.
LEMMA TimerList ==
  ASSUME NEW q \in Seq(TimerEntry), NEW S, NEW t
  PROVE  /\ Elems(WithoutTimersOf(q, S)) = {e \in Elems(q) : e.task \notin S}
         /\ Elems(TasksOf(WithoutTimersOf(q, S))) = Elems(TasksOf(q)) \ S
         /\ Elems(Remaining(q, t)) = {e \in Elems(q) : t < e.deadline}
         /\ Elems(Expired(q, t)) = {e \in Elems(q) : e.deadline <= t}
         /\ Sorted(q) => Sorted(WithoutTimersOf(q, S)) /\ Sorted(Remaining(q, t))
         /\ NoDup(TasksOf(q)) =>
              /\ NoDup(TasksOf(WithoutTimersOf(q, S)))
              /\ NoDup(TasksOf(Remaining(q, t)))
              /\ NoDup(TasksOf(Expired(q, t)))
<1> DEFINE of    == {e \in Elems(q) : e.task \in S}
           due   == {e \in Elems(q) : e.deadline <= t}
           later == {e \in Elems(q) : t < e.deadline}
<1>1. /\ Elems(WithoutTimersOf(q, S)) = {e \in Elems(q) : e.task \notin S}
      /\ WithoutTimersOf(q, S) \in Seq(TimerEntry)
      /\ Sorted(q) => Sorted(WithoutTimersOf(q, S))
      /\ NoDup(TasksOf(q)) => NoDup(TasksOf(WithoutTimersOf(q, S)))
  <2>1. WithoutTimersOf(q, S) = Without(q, of)
    BY DEF WithoutTimersOf
  <2>2. Elems(q) \ of = {e \in Elems(q) : e.task \notin S}
    OBVIOUS
  <2>3. /\ Without(q, of) \in Seq(TimerEntry)
        /\ Elems(Without(q, of)) = Elems(q) \ of
        /\ Sorted(q) => Sorted(Without(q, of))
        /\ NoDup(TasksOf(q)) => NoDup(TasksOf(Without(q, of)))
    <3> HIDE DEF of
    <3>1. QED BY WithoutProperties
  <2>4. QED BY <2>1, <2>2, <2>3, Zenon
<1>2. /\ Elems(Remaining(q, t)) = {e \in Elems(q) : t < e.deadline}
      /\ Elems(Expired(q, t)) = {e \in Elems(q) : e.deadline <= t}
      /\ Sorted(q) => Sorted(Remaining(q, t))
      /\ NoDup(TasksOf(q)) => NoDup(TasksOf(Remaining(q, t)))
                              /\ NoDup(TasksOf(Expired(q, t)))
  <2>1. Remaining(q, t) = Only(q, later) /\ Expired(q, t) = Only(q, due)
    BY DEF Remaining, Expired
  <2>2. Elems(q) \cap later = later /\ Elems(q) \cap due = due
    OBVIOUS
  <2>3. /\ Elems(Only(q, later)) = Elems(q) \cap later
        /\ Elems(Only(q, due)) = Elems(q) \cap due
        /\ Sorted(q) => Sorted(Only(q, later))
        /\ NoDup(TasksOf(q)) => NoDup(TasksOf(Only(q, later)))
                                /\ NoDup(TasksOf(Only(q, due)))
    <3> HIDE DEF later, due
    <3>1. QED BY OnlyProperties
  <2>4. QED BY <2>1, <2>2, <2>3, Zenon
<1>3. Elems(TasksOf(WithoutTimersOf(q, S))) = Elems(TasksOf(q)) \ S
  BY <1>1, TasksOfElems
<1>4. QED BY <1>1, <1>2, <1>3

\* A timer belongs to one entry only.
LEMMA OneTimer ==
  ASSUME NEW q \in Seq(TimerEntry), NoDup(TasksOf(q)),
         NEW e \in Elems(q), NEW f \in Elems(q), e.task = f.task
  PROVE  e = f
<1>1. PICK i, j \in 1 .. Len(q) : e = q[i] /\ f = q[j]
  BY DEF Elems
<1>2. Len(q) \in Nat
  BY LenProperties
<1>3. i = j
  BY <1>1, <1>2, LenOfTasks DEF NoDup
<1>4. QED BY <1>1, <1>3

-----------------------------------------------------------------------------
(* How much of the state an invariant depends on. *)

Receiving == {"waiting", "waitingTimed"}
Timed     == {"sleeping", "waitingTimed"}

\* Taking S out of the waiter queues keeps them exact if S no longer waits and
\* nobody else starts or stops waiting.
LEMMA WaitersRemoved ==
  ASSUME IInv, NEW S,
         \A a \in Actor :
           /\ NoDup(mailboxWaiters'[a]) /\ NoDup(timedMailboxWaiters'[a])
           /\ Elems(mailboxWaiters'[a]) = Elems(mailboxWaiters[a]) \ S
           /\ Elems(timedMailboxWaiters'[a]) = Elems(timedMailboxWaiters[a]) \ S,
         \A t \in Task : t \in S => taskState'[t] \notin Receiving,
         \A t \in Task : t \notin S /\ {taskState[t], taskState'[t]} \cap Receiving # {} =>
            taskState'[t] = taskState[t] /\ taskOwner'[t] = taskOwner[t]
  PROVE  WaitersExact'
<1>1. WaitersExact
  BY DEF IInv
<1>2. QED BY <1>1 DEF WaitersExact, Receiving

\* Leaving the waiter queues alone does so if nobody starts or stops waiting.
LEMMA WaitersKept ==
  ASSUME IInv, UNCHANGED << mailboxWaiters, timedMailboxWaiters >>,
         \A t \in Task : {taskState[t], taskState'[t]} \cap Receiving # {} =>
            taskState'[t] = taskState[t] /\ taskOwner'[t] = taskOwner[t]
  PROVE  WaitersExact'
<1>1. WaitersExact
  BY DEF IInv
<1>2. QED BY <1>1 DEF WaitersExact, Receiving

\* The same for the timers of S.
LEMMA TimersRemoved ==
  ASSUME IInv, NEW S, timers' = WithoutTimersOf(timers, S), now' = now,
         \A t \in Task : waitDeadline'[t] = IF t \in S THEN None ELSE waitDeadline[t],
         \A t \in Task : t \in S => taskState'[t] \notin Timed,
         \A t \in Task : t \notin S /\ {taskState[t], taskState'[t]} \cap Timed # {} =>
            taskState'[t] = taskState[t]
  PROVE  TimersExact'
<1>1. TimersExact /\ timers \in Seq(TimerEntry)
  BY DEF IInv, TypeOK
<1>2. /\ Elems(timers') = {e \in Elems(timers) : e.task \notin S}
      /\ Elems(TasksOf(timers')) = Elems(TasksOf(timers)) \ S
      /\ Sorted(timers') /\ NoDup(TasksOf(timers'))
  BY <1>1, TimerList, Zenon DEF TimersExact
<1>3. \A e \in Elems(timers) : e.task \in Task
  BY <1>1, TasksOfElems DEF TimerEntry
<1>4. Elems(TasksOf(timers')) = {t \in Task : taskState'[t] \in Timed}
  BY <1>1, <1>2 DEF TimersExact, Timed
<1>5. \A t \in Task : waitDeadline'[t] # None <=> taskState'[t] = "waitingTimed"
  BY <1>1 DEF TimersExact, Timed
<1>6. \A e \in Elems(timers') : taskState'[e.task] = "waitingTimed" =>
        waitDeadline'[e.task] = e.deadline /\ now' < e.deadline
  BY <1>1, <1>2, <1>3 DEF TimersExact, Timed
<1>7. QED BY <1>2, <1>4, <1>5, <1>6 DEF TimersExact, Timed

\* The same for a timer queue that is left alone.
LEMMA TimersKept ==
  ASSUME IInv, UNCHANGED << timers, waitDeadline, now >>,
         \A t \in Task : {taskState[t], taskState'[t]} \cap Timed # {} =>
            taskState'[t] = taskState[t]
  PROVE  TimersExact'
<1>1. TimersExact /\ timers \in Seq(TimerEntry)
  BY DEF IInv, TypeOK
<1>2. \A e \in Elems(timers) : e.task \in Task
  BY <1>1, TasksOfElems DEF TimerEntry
<1>3. QED BY <1>1, <1>2 DEF TimersExact, Timed

-----------------------------------------------------------------------------
(* Dispatch and termination. *)

\* What changes neither task states nor queues disturbs none of the three.
LEMMA FrameExact ==
  ASSUME IInv, UNCHANGED << taskState, readyQ, running, timers, waitDeadline, now,
                            mailboxWaiters, timedMailboxWaiters >>,
         \A t \in Task : taskState[t] # None => taskOwner'[t] = taskOwner[t]
  PROVE  QueueExact' /\ WaitersExact' /\ TimersExact'
<1>1. QueueExact' /\ TimersExact'
  BY DEF IInv, QueueExact, TimersExact
<1>2. \A t \in Task : taskState[t] \in {"waiting", "waitingTimed"} => taskState[t] # None
  BY AbsentAssumption DEF TaskState, Parked
<1>3. WaitersExact'
  BY <1>2 DEF IInv, WaitersExact
<1>4. QED BY <1>1, <1>3

\* schedule, on any arrangement of the queue: the head leaves it and runs.
LEMMA DispatchExact ==
  ASSUME IInv, NEW q \in Seq(Task), NoDup(q), Elems(q) = Elems(readyQ), Dispatch(q)
  PROVE  QueueExact' /\ WaitersExact' /\ TimersExact'
<1> DEFINE t == Head(q)
<1>1. /\ q # << >> /\ readyQ' = Tail(q)
      /\ running = None /\ running' = t
      /\ taskState[t] \in Runnable /\ taskState' = [taskState EXCEPT ![t] = "running"]
      /\ UNCHANGED << taskOwner, timers, waitDeadline, now, mailboxWaiters,
                      timedMailboxWaiters >>
  BY DEF Dispatch, CanDispatch, identityVars, timeVars, waiterVars
<1>2. t \in Task
  BY <1>1, TaskListTypes
<1>3. QueueExact'
  BY <1>1, <1>2, TailList, NoneAssumption, AbsentAssumption DEF IInv, TypeOK, QueueExact, Runnable, Task
<1>4. WaitersExact'
  BY <1>1, <1>2 DEF IInv, TypeOK, WaitersExact, Runnable
<1>5. TimersExact'
  BY <1>1, <1>2 DEF IInv, TypeOK, TimersExact, Runnable
<1>6. QED BY <1>3, <1>4, <1>5

\* yield: the running task was not queued, so it is queued once.
LEMMA YieldExact ==
  ASSUME IInv, NEW t \in Task, Yield(t)
  PROVE  QueueExact' /\ WaitersExact' /\ TimersExact'
<1>1. /\ running = t /\ running' = None /\ taskState[t] = "running"
      /\ taskState' = [taskState EXCEPT ![t] = "yielded"]
      /\ readyQ' = Append(readyQ, t)
      /\ UNCHANGED << taskOwner, timers, waitDeadline, now, mailboxWaiters,
                      timedMailboxWaiters >>
  BY DEF Yield, IsRunning, identityVars, timeVars, waiterVars
<1>2. NoDup(readyQ') /\ Elems(readyQ') = Elems(readyQ) \cup {t}
  <2>1. readyQ \in Seq(Task) /\ NoDup(readyQ) /\ t \notin Elems(readyQ)
    BY <1>1 DEF IInv, TypeOK, QueueExact, Runnable
  <2>2. QED BY <1>1, <2>1, AppendList
<1>3. QueueExact'
  BY <1>1, <1>2, NoneAssumption DEF IInv, TypeOK, QueueExact, Runnable, Task
<1>4. WaitersExact'
  BY <1>1, WaitersKept DEF IInv, TypeOK, Receiving
<1>5. TimersExact'
  BY <1>1, TimersKept DEF IInv, TypeOK, Timed
<1>6. QED BY <1>3, <1>4, <1>5

\* complete: the running task was in no queue and holds no timer.
LEMMA CompleteExact ==
  ASSUME IInv, NEW t \in Task, Complete(t)
  PROVE  QueueExact' /\ WaitersExact' /\ TimersExact'
<1>1. /\ running = t /\ running' = None /\ taskState[t] = "running"
      /\ taskState' = [taskState EXCEPT ![t] = "completed"]
      /\ UNCHANGED << readyQ, taskOwner, timers, waitDeadline, now, mailboxWaiters,
                      timedMailboxWaiters >>
  BY DEF Complete, IsRunning, identityVars, timeVars, waiterVars
<1>2. QueueExact'
  BY <1>1, NoneAssumption DEF IInv, TypeOK, QueueExact, Runnable, Task
<1>3. WaitersExact'
  BY <1>1, WaitersKept DEF IInv, TypeOK, Receiving
<1>4. TimersExact'
  BY <1>1, TimersKept DEF IInv, TypeOK, Timed
<1>5. QED BY <1>2, <1>3, <1>4

\* The tasks of S end together: cancel and fail with one task, cancelTree with
\* a subtree of which some tasks may have ended before.
LEMMA EndExact ==
  ASSUME IInv, NEW S \in SUBSET Task,
         readyQ' = Without(readyQ, S),
         running' = IF running \in S THEN None ELSE running,
         timers' = WithoutTimersOf(timers, S),
         UNCHANGED << taskOwner, now >>,
         \A t \in Task : /\ t \in S => taskState'[t] \in Terminal
                         /\ t \notin S => taskState'[t] = taskState[t],
         \A t \in Task : waitDeadline'[t] = IF t \in S THEN None ELSE waitDeadline[t],
         \A a \in Actor :
           /\ \/ mailboxWaiters'[a] = Without(mailboxWaiters[a], S)
              \/ /\ mailboxWaiters'[a] = mailboxWaiters[a]
                 /\ \A t \in S : taskOwner[t] # a
           /\ timedMailboxWaiters'[a] = Without(timedMailboxWaiters[a], S)
  PROVE  QueueExact' /\ WaitersExact' /\ TimersExact'
<1>1. NoDup(readyQ') /\ Elems(readyQ') = Elems(readyQ) \ S
  BY WithoutProperties DEF IInv, TypeOK, QueueExact
<1>2. QueueExact'
  <2>1. QueueExact /\ None \notin Task
    BY NoneAssumption DEF IInv, Task
  <2>2. Elems(readyQ') = {t \in Task : taskState'[t] \in Runnable}
    BY <1>1, <2>1 DEF QueueExact, Runnable, Terminal
  <2>3. \A t \in Task : taskState'[t] = "running" <=> running' = t
    BY <2>1 DEF QueueExact, Terminal
  <2>4. QED BY <1>1, <2>2, <2>3 DEF QueueExact
<1>3. ASSUME NEW a \in Actor
      PROVE  /\ NoDup(mailboxWaiters'[a]) /\ NoDup(timedMailboxWaiters'[a])
             /\ Elems(mailboxWaiters'[a]) = Elems(mailboxWaiters[a]) \ S
             /\ Elems(timedMailboxWaiters'[a]) = Elems(timedMailboxWaiters[a]) \ S
  <2>1. /\ mailboxWaiters[a] \in Seq(Task) /\ timedMailboxWaiters[a] \in Seq(Task)
        /\ NoDup(mailboxWaiters[a]) /\ NoDup(timedMailboxWaiters[a])
        /\ \A t \in Elems(mailboxWaiters[a]) : taskOwner[t] = a
    BY DEF IInv, TypeOK, WaitersExact
  <2>2. /\ NoDup(timedMailboxWaiters'[a])
        /\ Elems(timedMailboxWaiters'[a]) = Elems(timedMailboxWaiters[a]) \ S
    BY <2>1, WithoutProperties
  <2>3. /\ NoDup(mailboxWaiters'[a])
        /\ Elems(mailboxWaiters'[a]) = Elems(mailboxWaiters[a]) \ S
    <3>1. CASE mailboxWaiters'[a] = Without(mailboxWaiters[a], S)
      BY <2>1, <3>1, WithoutProperties
    <3>2. CASE mailboxWaiters'[a] = mailboxWaiters[a] /\ \A t \in S : taskOwner[t] # a
      BY <2>1, <3>2
    <3>3. QED BY <3>1, <3>2
  <2>4. QED BY <2>2, <2>3
<1>4. WaitersExact'
  BY <1>3, WaitersRemoved DEF Receiving, Terminal
<1>5. TimersExact'
  BY TimersRemoved DEF Timed, Terminal
<1>6. QED BY <1>2, <1>4, <1>5

\* cancel and fail filter the owner's plain waiter queue only; it is the only
\* one the task can be in.
LEMMA TerminateExact ==
  ASSUME IInv, NEW t \in Task, NEW outcome \in Terminal, Terminate(t, outcome)
  PROVE  QueueExact' /\ WaitersExact' /\ TimersExact'
<1>1. /\ taskState' = [taskState EXCEPT ![t] = outcome]
      /\ readyQ' = Without(readyQ, {t})
      /\ running' = IF running \in {t} THEN None ELSE running
      /\ timers' = WithoutTimersOf(timers, {t})
      /\ waitDeadline' = [waitDeadline EXCEPT ![t] = None]
      /\ mailboxWaiters' = [a \in Actor |->
           IF a = taskOwner[t] THEN Without(mailboxWaiters[a], {t}) ELSE mailboxWaiters[a]]
      /\ timedMailboxWaiters' =
           [a \in Actor |-> Without(timedMailboxWaiters[a], {t})]
      /\ UNCHANGED << taskOwner, now >>
  BY DEF Terminate, identityVars
<1>2. /\ \A u \in Task : /\ u \in {t} => taskState'[u] \in Terminal
                         /\ u \notin {t} => taskState'[u] = taskState[u]
      /\ \A u \in Task : waitDeadline'[u] = IF u \in {t} THEN None ELSE waitDeadline[u]
  BY <1>1 DEF IInv, TypeOK
<1>3. \A a \in Actor :
        /\ \/ mailboxWaiters'[a] = Without(mailboxWaiters[a], {t})
           \/ mailboxWaiters'[a] = mailboxWaiters[a] /\ \A u \in {t} : taskOwner[u] # a
        /\ timedMailboxWaiters'[a] = Without(timedMailboxWaiters[a], {t})
  BY <1>1
<1>4. QED BY <1>1, <1>2, <1>3, EndExact

\* cancelTree filters every queue of every actor.
LEMMA CancelTreeExact ==
  ASSUME IInv, NEW root \in Task, CancelTree(root)
  PROVE  QueueExact' /\ WaitersExact' /\ TimersExact'
<1> DEFINE S == DescendantsOf(root)
<1>1. S \in SUBSET Task /\ \A t \in S : taskState[t] # None
  BY DEF DescendantsOf
<1>2. /\ taskState' = [t \in Task |->
           IF t \in S /\ Live(t) THEN "cancelled" ELSE taskState[t]]
      /\ readyQ' = Without(readyQ, S)
      /\ running' = IF running \in S THEN None ELSE running
      /\ timers' = WithoutTimersOf(timers, S)
      /\ waitDeadline' = [t \in Task |-> IF t \in S THEN None ELSE waitDeadline[t]]
      /\ mailboxWaiters' = [a \in Actor |-> Without(mailboxWaiters[a], S)]
      /\ timedMailboxWaiters' =
           [a \in Actor |-> Without(timedMailboxWaiters[a], S)]
      /\ UNCHANGED << taskOwner, now >>
  BY DEF CancelTree, identityVars
<1> HIDE DEF S
<1>3. \A t \in Task : /\ t \in S => taskState'[t] \in Terminal
                      /\ t \notin S => taskState'[t] = taskState[t]
  BY <1>1, <1>2 DEF Live, Terminal
<1>4. \A t \in Task : waitDeadline'[t] = IF t \in S THEN None ELSE waitDeadline[t]
  BY <1>2
<1>5. \A a \in Actor :
        /\ \/ mailboxWaiters'[a] = Without(mailboxWaiters[a], S)
           \/ mailboxWaiters'[a] = mailboxWaiters[a] /\ \A t \in S : taskOwner[t] # a
        /\ timedMailboxWaiters'[a] = Without(timedMailboxWaiters[a], S)
  BY <1>2
<1>6. QED BY <1>1, <1>2, <1>3, <1>4, <1>5, EndExact

-----------------------------------------------------------------------------
(* A task that becomes runnable, and a task that parks. *)

\* A task that was neither runnable nor running is not queued yet.
LEMMA ReadiedQueue ==
  ASSUME IInv, NEW t \in Task, NEW st \in Runnable,
         taskState[t] \notin Runnable \cup {"running"},
         taskState' = [taskState EXCEPT ![t] = st],
         readyQ' = Append(readyQ, t), running' = running
  PROVE  QueueExact'
<1>1. /\ readyQ \in Seq(Task) /\ NoDup(readyQ) /\ t \notin Elems(readyQ)
      /\ QueueExact /\ taskState \in [Task -> TaskState \cup {None}]
  BY DEF IInv, TypeOK, QueueExact
<1>2. NoDup(readyQ') /\ Elems(readyQ') = Elems(readyQ) \cup {t}
  BY <1>1, AppendList
<1>3. Elems(readyQ') = {u \in Task : taskState'[u] \in Runnable}
  BY <1>1, <1>2 DEF QueueExact
<1>4. \A u \in Task : taskState'[u] = "running" <=> running' = u
  BY <1>1 DEF QueueExact, Runnable
<1>5. QED BY <1>2, <1>3, <1>4 DEF QueueExact

\* The running task parks, and is in the ready queue neither before nor after.
LEMMA ParkedQueue ==
  ASSUME IInv, NEW t \in Task, NEW st \in Parked, IsRunning(t),
         taskState' = [taskState EXCEPT ![t] = st],
         readyQ' = readyQ, running' = None
  PROVE  QueueExact'
<1>1. QueueExact /\ taskState \in [Task -> TaskState \cup {None}] /\ None \notin Task
  BY NoneAssumption DEF IInv, TypeOK, Task
<1>2. QED BY <1>1 DEF QueueExact, IsRunning, Runnable, Parked

\* A sleeper's deadline may have passed, a timed receiver's lies ahead.
LEMMA TimerInserted ==
  ASSUME IInv, NEW t \in Task, NEW d \in Deadline, NEW st \in Timed,
         taskState[t] = "running",
         taskState' = [taskState EXCEPT ![t] = st],
         timers' = InsertSorted([deadline |-> d, task |-> t], timers),
         now' = now,
         waitDeadline' = IF st = "sleeping" THEN waitDeadline
                         ELSE [waitDeadline EXCEPT ![t] = d],
         st = "waitingTimed" => now < d
  PROVE  TimersExact'
<1> DEFINE e == [deadline |-> d, task |-> t]
<1>1. /\ TimersExact /\ timers \in Seq(TimerEntry) /\ e \in TimerEntry
      /\ taskState \in [Task -> TaskState \cup {None}]
      /\ waitDeadline \in [Task -> Deadline \cup {None}]
      /\ d # None /\ e.task = t /\ e.deadline = d
  BY NoneAssumption DEF IInv, TypeOK, TimerEntry, Deadline
<1>2. \A x \in TimerEntry : x.deadline \in Int
  BY StateAssumption DEF TimerEntry, Deadline
<1>3. t \notin Elems(TasksOf(timers))
  BY <1>1 DEF TimersExact
<1> HIDE DEF e
<1>4. /\ timers' \in Seq(TimerEntry) /\ Elems(timers') = Elems(timers) \cup {e}
      /\ Sorted(timers') /\ NoDup(TasksOf(timers'))
  <2>1. timers' = InsertSorted(e, timers)
    BY DEF e
  <2>2. Sorted(timers) /\ NoDup(TasksOf(timers)) /\ e.task \notin Elems(TasksOf(timers))
    BY <1>1, <1>3 DEF TimersExact
  <2>3. /\ InsertSorted(e, timers) \in Seq(TimerEntry)
        /\ Elems(InsertSorted(e, timers)) = Elems(timers) \cup {e}
        /\ Sorted(InsertSorted(e, timers))
        /\ NoDup(TasksOf(InsertSorted(e, timers)))
    BY <1>1, <1>2, <2>2, InsertSortedProperties
  <2>4. QED BY <2>1, <2>3, Zenon
<1>5. Elems(TasksOf(timers')) = Elems(TasksOf(timers)) \cup {t}
  BY <1>1, <1>4, TasksOfElems
<1>6. Elems(TasksOf(timers')) = {u \in Task : taskState'[u] \in Timed}
  BY <1>1, <1>5 DEF TimersExact, Timed
<1>7. /\ taskState'[t] = st
      /\ \A u \in Task : u # t => /\ taskState'[u] = taskState[u]
                                 /\ waitDeadline'[u] = waitDeadline[u]
      /\ st = "sleeping" => waitDeadline'[t] = None
      /\ st = "waitingTimed" => waitDeadline'[t] = d
  <2>1. waitDeadline[t] = None
    BY <1>1 DEF TimersExact
  <2>2. CASE st = "sleeping"
    BY <1>1, <2>1, <2>2
  <2>3. CASE st = "waitingTimed"
    BY <1>1, <2>3
  <2>4. QED BY <2>2, <2>3 DEF Timed
<1>8. \A u \in Task : waitDeadline'[u] # None <=> taskState'[u] = "waitingTimed"
  BY <1>1, <1>7 DEF TimersExact, Timed
<1>9. ASSUME NEW f \in Elems(timers'), taskState'[f.task] = "waitingTimed"
      PROVE  waitDeadline'[f.task] = f.deadline /\ now' < f.deadline
  <2>1. CASE f = e
    BY <1>1, <1>7, <1>9, <2>1
  <2>2. CASE f \in Elems(timers)
    <3>1. f.task \in Elems(TasksOf(timers))
      BY <1>1, <2>2, TasksOfElems
    <3>2. f.task # t /\ f.task \in Task
      BY <1>1, <1>3, <3>1 DEF TimersExact
    <3>3. QED BY <1>1, <1>7, <1>9, <2>2, <3>2 DEF TimersExact
  <2>3. QED BY <1>4, <2>1, <2>2
<1>10. QED BY <1>4, <1>6, <1>8, <1>9 DEF TimersExact, Timed

-----------------------------------------------------------------------------
(* Creation and time. *)

\* A fresh id is in no queue: it has had no state so far.
LEMMA NewTaskExact ==
  ASSUME IInv, NEW a \in Actor, NEW p, NEW r, NewTask(a, p, r)
  PROVE  QueueExact' /\ WaitersExact' /\ TimersExact'
<1>1. /\ nextId \in Task /\ taskState[nextId] = None
      /\ taskState' = [taskState EXCEPT ![nextId] = "new"]
      /\ taskOwner' = [taskOwner EXCEPT ![nextId] = a]
      /\ readyQ' = Append(readyQ, nextId)
      /\ UNCHANGED << running, timers, waitDeadline, now, mailboxWaiters,
                      timedMailboxWaiters >>
  BY BoundsAssumption DEF NewTask, IInv, TypeOK, Task, timeVars, waiterVars
<1>2. None \notin TaskState
  BY AbsentAssumption
<1>3. QueueExact'
  BY <1>1, <1>2, ReadiedQueue DEF TaskState, Runnable
<1>4. \A t \in Task : t # nextId => taskState'[t] = taskState[t] /\ taskOwner'[t] = taskOwner[t]
  BY <1>1 DEF IInv, TypeOK
<1>5. taskState'[nextId] = "new" /\ taskState[nextId] \notin Parked
  BY <1>1, <1>2 DEF IInv, TypeOK, TaskState, Parked
<1>6. WaitersExact'
  BY <1>1, <1>4, <1>5, WaitersKept DEF Receiving, Parked
<1>7. TimersExact'
  BY <1>1, <1>4, <1>5, TimersKept DEF Timed, Parked
<1>8. QED BY <1>3, <1>6, <1>7

\* sleep: the running task has no timer yet.
LEMMA SleepExact ==
  ASSUME IInv, NEW t \in Task, NEW d \in Deadline, Sleep(t, d)
  PROVE  QueueExact' /\ WaitersExact' /\ TimersExact'
<1>1. /\ IsRunning(t) /\ taskState[t] = "running"
      /\ taskState' = [taskState EXCEPT ![t] = "sleeping"]
      /\ running' = None
      /\ timers' = InsertSorted([deadline |-> d, task |-> t], timers)
      /\ UNCHANGED << readyQ, waitDeadline, now, taskOwner, mailboxWaiters,
                      timedMailboxWaiters >>
  BY DEF Sleep, IsRunning, identityVars, waiterVars
<1>2. QueueExact'
  BY <1>1, ParkedQueue DEF Parked
<1>3. WaitersExact'
  BY <1>1, WaitersKept DEF IInv, TypeOK, Receiving
<1>4. TimersExact'
  BY <1>1, TimerInserted DEF Timed
<1>5. QED BY <1>2, <1>3, <1>4

\* wake: a sleeper has exactly the timer that is removed.
LEMMA WakeExact ==
  ASSUME IInv, NEW t \in Task, Wake(t)
  PROVE  QueueExact' /\ WaitersExact' /\ TimersExact'
<1>1. /\ taskState[t] = "sleeping"
      /\ taskState' = [taskState EXCEPT ![t] = "ready"]
      /\ readyQ' = Append(readyQ, t)
      /\ timers' = WithoutTimersOf(timers, {t})
      /\ UNCHANGED << running, waitDeadline, now, taskOwner, mailboxWaiters,
                      timedMailboxWaiters >>
  BY DEF Wake, identityVars, waiterVars
<1>2. QueueExact'
  BY <1>1, ReadiedQueue DEF Runnable
<1>3. WaitersExact'
  BY <1>1, WaitersKept DEF IInv, TypeOK, Receiving
<1>4. /\ taskState'[t] = "ready" /\ waitDeadline[t] = None
      /\ \A u \in Task : u # t => taskState'[u] = taskState[u]
  BY <1>1 DEF IInv, TypeOK, TimersExact
<1>5. TimersExact'
  BY <1>1, <1>4, TimersRemoved DEF Timed
<1>6. QED BY <1>2, <1>3, <1>5

\* tick: the expired timers are those of sleepers and timed receivers, each once,
\* so the two lists that are queued share no task and no timer is lost.
LEMMA TickExact ==
  ASSUME IInv, NEW d \in Deadline, Tick(d)
  PROVE  QueueExact' /\ WaitersExact' /\ TimersExact'
<1> DEFINE Being(st) == {u \in Task : taskState[u] = st}
           due       == TasksOf(Expired(timers, d))
           sleepers  == Only(due, Being("sleeping"))
           receivers == Only(due, Being("waitingTimed"))
           woken     == sleepers \o receivers
<1>1. /\ taskState' = [u \in Task |->
           IF u \in Elems(woken) THEN "ready" ELSE taskState[u]]
      /\ readyQ' = readyQ \o woken
      /\ timers' = Remaining(timers, d)
      /\ timedMailboxWaiters' = [a \in Actor |->
           Without(timedMailboxWaiters[a], Elems(receivers))]
      /\ waitDeadline' = [u \in Task |->
           IF u \in Elems(receivers) THEN None ELSE waitDeadline[u]]
      /\ now' = d
      /\ UNCHANGED << taskOwner, running, mailboxWaiters >>
  BY DEF Tick, identityVars
<1>2. /\ QueueExact /\ WaitersExact /\ TimersExact
      /\ readyQ \in Seq(Task) /\ timers \in Seq(TimerEntry)
      /\ timedMailboxWaiters \in [Actor -> Seq(Task)]
  BY DEF IInv, TypeOK
<1>3. /\ due \in Seq(Task) /\ NoDup(due)
      /\ Elems(due) = {e.task : e \in Elems(Expired(timers, d))}
      /\ Elems(Expired(timers, d)) = {e \in Elems(timers) : e.deadline <= d}
  <2>1. Expired(timers, d) \in Seq(TimerEntry)
    BY <1>2, OnlyProperties DEF Expired
  <2>2. QED BY <1>2, <2>1, TasksOfElems, TimerList DEF TimersExact
<1>4. /\ \A u \in Elems(due) : u \in Task /\ taskState[u] \in Timed
      /\ \A e \in Elems(timers) : e.task \in Task
      /\ \A e \in Elems(timers) : e.task \in Elems(due) <=> e.deadline <= d
  <2>1. Elems(TasksOf(timers)) = {e.task : e \in Elems(timers)}
    BY <1>2, TasksOfElems
  <2>2. \A e \in Elems(timers) : e.task \in Task /\ taskState[e.task] \in Timed
    BY <1>2, <2>1 DEF TimersExact, Timed
  <2>3. ASSUME NEW e \in Elems(timers), e.task \in Elems(due)
        PROVE  e.deadline <= d
    <3>1. PICK f \in Elems(timers) : f.deadline <= d /\ f.task = e.task
      BY <1>3, <2>3
    <3>2. e = f
      BY <1>2, <3>1, OneTimer DEF TimersExact
    <3>3. QED BY <3>1, <3>2
  <2>4. QED BY <1>3, <2>2, <2>3
<1>5. /\ sleepers \in Seq(Task) /\ receivers \in Seq(Task)
      /\ NoDup(sleepers) /\ NoDup(receivers)
      /\ Elems(sleepers) = Elems(due) \cap Being("sleeping")
      /\ Elems(receivers) = Elems(due) \cap Being("waitingTimed")
  <2> HIDE DEF due, Being
  <2>1. QED BY <1>3, OnlyProperties
<1>6. /\ woken \in Seq(Task) /\ NoDup(woken) /\ Elems(woken) = Elems(due)
  <2>1. Elems(sleepers) \cap Elems(receivers) = {}
    BY <1>5
  <2>2. Elems(sleepers) \cup Elems(receivers) = Elems(due)
    BY <1>4, <1>5 DEF Timed
  <2> HIDE DEF sleepers, receivers
  <2>3. /\ NoDup(sleepers \o receivers)
        /\ Elems(sleepers \o receivers) = Elems(sleepers) \cup Elems(receivers)
    BY <1>5, <2>1, ConcatList
  <2>4. sleepers \o receivers \in Seq(Task)
    BY <1>5, ConcatProperties
  <2>5. QED BY <2>2, <2>3, <2>4
<1>7. Elems(receivers) = {u \in Elems(due) : taskState[u] = "waitingTimed"}
  BY <1>4, <1>5
<1> HIDE DEF due, sleepers, receivers, woken
<1>8. QueueExact'
  <2>1. Elems(readyQ) \cap Elems(woken) = {}
    BY <1>2, <1>4, <1>6 DEF QueueExact, Runnable, Timed
  <2>2. NoDup(readyQ') /\ Elems(readyQ') = Elems(readyQ) \cup Elems(due)
    BY <1>1, <1>2, <1>6, <2>1, ConcatList DEF QueueExact
  <2>3. Elems(readyQ') = {u \in Task : taskState'[u] \in Runnable}
    BY <1>1, <1>2, <1>4, <1>6, <2>2 DEF QueueExact, Runnable
  <2>4. \A u \in Task : taskState'[u] = "running" <=> running' = u
    BY <1>1, <1>2, <1>4, <1>6 DEF QueueExact, Timed
  <2>5. QED BY <2>2, <2>3, <2>4 DEF QueueExact
<1>9. WaitersExact'
  <2>1. ASSUME NEW a \in Actor
        PROVE  /\ NoDup(mailboxWaiters'[a]) /\ NoDup(timedMailboxWaiters'[a])
               /\ Elems(mailboxWaiters'[a]) = Elems(mailboxWaiters[a]) \ Elems(due)
               /\ Elems(timedMailboxWaiters'[a]) = Elems(timedMailboxWaiters[a]) \ Elems(due)
    <3>1. /\ NoDup(mailboxWaiters[a]) /\ NoDup(timedMailboxWaiters[a])
          /\ timedMailboxWaiters[a] \in Seq(Task)
          /\ \A u \in Elems(mailboxWaiters[a]) : taskState[u] = "waiting"
          /\ \A u \in Elems(timedMailboxWaiters[a]) : taskState[u] = "waitingTimed"
      BY <1>2 DEF WaitersExact
    <3>2. /\ NoDup(timedMailboxWaiters'[a])
          /\ Elems(timedMailboxWaiters'[a]) = Elems(timedMailboxWaiters[a]) \ Elems(receivers)
      BY <1>1, <3>1, WithoutProperties
    <3>3. QED BY <1>1, <1>4, <1>7, <3>1, <3>2 DEF Timed
  <2>2. \A u \in Task : /\ u \in Elems(due) => taskState'[u] = "ready"
                        /\ u \notin Elems(due) => taskState'[u] = taskState[u]
    BY <1>1, <1>6
  <2>3. QED BY <1>1, <2>1, <2>2, WaitersRemoved DEF Receiving
<1>10. TimersExact'
  <2>1. /\ Elems(timers') = {e \in Elems(timers) : d < e.deadline}
        /\ Sorted(timers') /\ NoDup(TasksOf(timers')) /\ timers' \in Seq(TimerEntry)
    BY <1>1, <1>2, TimerList, TimerListTypes DEF TimersExact
  <2>2. \A e \in Elems(timers) : d < e.deadline <=> e.task \notin Elems(due)
    <3>1. Elems(timers) \subseteq TimerEntry
      BY <1>2, TasksOfElems
    <3>2. ASSUME NEW e \in Elems(timers)
          PROVE  d < e.deadline <=> ~ e.deadline <= d
      <4>1. e.deadline \in Int /\ d \in Int
        BY <3>1, StateAssumption DEF TimerEntry, Deadline
      <4> DEFINE n == e.deadline
      <4> HIDE DEF n
      <4>2. n \in Int => (d < n <=> ~ n <= d)
        BY <4>1
      <4>3. QED BY <4>1, <4>2 DEF n
    <3>3. QED BY <1>4, <3>2
  <2>3. Elems(TasksOf(timers')) = Elems(TasksOf(timers)) \ Elems(due)
    <3>1. /\ Elems(TasksOf(timers)) = {e.task : e \in Elems(timers)}
          /\ Elems(TasksOf(timers')) = {e.task : e \in Elems(timers')}
      BY <1>2, <2>1, TasksOfElems
    <3>2. QED BY <2>1, <2>2, <3>1
  <2>4. Elems(TasksOf(timers')) = {u \in Task : taskState'[u] \in Timed}
    BY <1>1, <1>2, <1>6, <2>3 DEF TimersExact, Timed
  <2>5. \A u \in Task : waitDeadline'[u] # None <=> taskState'[u] = "waitingTimed"
    BY <1>1, <1>2, <1>4, <1>6, <1>7 DEF TimersExact, Timed
  <2>6. \A e \in Elems(timers') : taskState'[e.task] = "waitingTimed" =>
          waitDeadline'[e.task] = e.deadline /\ now' < e.deadline
    <3>1. ASSUME NEW e \in Elems(timers'), taskState'[e.task] = "waitingTimed"
          PROVE  waitDeadline'[e.task] = e.deadline /\ now' < e.deadline
      <4>1. /\ e \in Elems(timers) /\ d < e.deadline
            /\ e.task \in Task /\ e.task \notin Elems(due)
        BY <1>4, <2>1, <2>2
      <4>2. /\ taskState[e.task] = "waitingTimed"
            /\ waitDeadline'[e.task] = waitDeadline[e.task]
        BY <1>1, <1>6, <1>7, <3>1, <4>1
      <4>3. QED BY <1>1, <1>2, <4>1, <4>2 DEF TimersExact
    <3>2. QED BY <3>1
  <2>7. QED BY <2>1, <2>4, <2>5, <2>6 DEF TimersExact, Timed
<1>11. QED BY <1>8, <1>9, <1>10

-----------------------------------------------------------------------------
(* Messages. *)

\* A delivery wakes a task at the head of a waiter queue.
LEMMA WakeOneOfExact ==
  ASSUME IInv, NEW b \in Actor, WakeOneOf(b), UNCHANGED << taskOwner, running, now >>
  PROVE  QueueExact' /\ WaitersExact' /\ TimersExact'
<1>1. /\ WaitersExact /\ taskState \in [Task -> TaskState \cup {None}]
      /\ waitDeadline \in [Task -> Deadline \cup {None}]
      /\ mailboxWaiters \in [Actor -> Seq(Task)]
      /\ timedMailboxWaiters \in [Actor -> Seq(Task)]
  BY DEF IInv, TypeOK
<1>2. ASSUME NEW w \in Task, WakeWaiter(w), taskState[w] \in Receiving
      PROVE  /\ QueueExact' /\ TimersExact'
             /\ \A t \in Task : /\ t \in {w} => taskState'[t] = "ready"
                                /\ t \notin {w} => taskState'[t] = taskState[t]
  <2>1. /\ taskState' = [taskState EXCEPT ![w] = "ready"]
        /\ readyQ' = Append(readyQ, w)
        /\ timers' = WithoutTimersOf(timers, {w})
        /\ waitDeadline' = [waitDeadline EXCEPT ![w] = None]
    BY <1>2 DEF WakeWaiter
  <2>2. QueueExact'
    BY <1>2, <2>1, ReadiedQueue DEF Runnable, Receiving
  <2>3. \A t \in Task : /\ t \in {w} => taskState'[t] = "ready"
                        /\ t \notin {w} => taskState'[t] = taskState[t]
    BY <1>1, <2>1
  <2>4. \A t \in Task : waitDeadline'[t] = IF t \in {w} THEN None ELSE waitDeadline[t]
    BY <1>1, <2>1
  <2>5. TimersExact'
    BY <2>1, <2>3, <2>4, TimersRemoved DEF Timed
  <2>6. QED BY <2>2, <2>3, <2>5
<1>3. ASSUME NEW w \in Task, WakeWaiter(w), taskState[w] \in Receiving,
             \A a \in Actor :
               /\ NoDup(mailboxWaiters'[a]) /\ NoDup(timedMailboxWaiters'[a])
               /\ Elems(mailboxWaiters'[a]) = Elems(mailboxWaiters[a]) \ {w}
               /\ Elems(timedMailboxWaiters'[a]) = Elems(timedMailboxWaiters[a]) \ {w}
      PROVE  QueueExact' /\ WaitersExact' /\ TimersExact'
  BY <1>2, <1>3, WaitersRemoved DEF Receiving
<1>4. CASE mailboxWaiters[b] # << >>
  <2> DEFINE w == Head(mailboxWaiters[b])
  <2>1. /\ WakeWaiter(w)
        /\ mailboxWaiters' = [mailboxWaiters EXCEPT ![b] = Tail(@)]
        /\ timedMailboxWaiters' = timedMailboxWaiters
    BY <1>4 DEF WakeOneOf
  <2>2. /\ w \in Task /\ taskState[w] = "waiting" /\ taskOwner[w] = b
        /\ NoDup(mailboxWaiters'[b])
        /\ Elems(mailboxWaiters'[b]) = Elems(mailboxWaiters[b]) \ {w}
    <3>1. w \in Elems(mailboxWaiters[b])
      BY <1>1, <1>4, TailList
    <3>2. NoDup(Tail(mailboxWaiters[b])) /\
          Elems(Tail(mailboxWaiters[b])) = Elems(mailboxWaiters[b]) \ {w}
      BY <1>1, <1>4, TailList DEF WaitersExact
    <3>3. mailboxWaiters'[b] = Tail(mailboxWaiters[b])
      BY <1>1, <2>1
    <3>4. QED BY <1>1, <3>1, <3>2, <3>3 DEF WaitersExact
  <2> HIDE DEF w
  <2>3. \A a \in Actor :
          /\ NoDup(mailboxWaiters'[a]) /\ NoDup(timedMailboxWaiters'[a])
          /\ Elems(mailboxWaiters'[a]) = Elems(mailboxWaiters[a]) \ {w}
          /\ Elems(timedMailboxWaiters'[a]) = Elems(timedMailboxWaiters[a]) \ {w}
    BY <1>1, <2>1, <2>2 DEF WaitersExact
  <2>4. QED BY <1>3, <2>1, <2>2, <2>3 DEF Receiving
<1>5. CASE mailboxWaiters[b] = << >> /\ timedMailboxWaiters[b] # << >>
  <2> DEFINE w == Head(timedMailboxWaiters[b])
  <2>1. /\ WakeWaiter(w)
        /\ timedMailboxWaiters' = [timedMailboxWaiters EXCEPT ![b] = Tail(@)]
        /\ mailboxWaiters' = mailboxWaiters
    BY <1>5 DEF WakeOneOf
  <2>2. /\ w \in Task /\ taskState[w] = "waitingTimed" /\ taskOwner[w] = b
        /\ NoDup(timedMailboxWaiters'[b])
        /\ Elems(timedMailboxWaiters'[b]) = Elems(timedMailboxWaiters[b]) \ {w}
    <3>1. w \in Elems(timedMailboxWaiters[b])
      BY <1>1, <1>5, TailList
    <3>2. NoDup(Tail(timedMailboxWaiters[b])) /\
          Elems(Tail(timedMailboxWaiters[b])) = Elems(timedMailboxWaiters[b]) \ {w}
      BY <1>1, <1>5, TailList DEF WaitersExact
    <3>3. timedMailboxWaiters'[b] = Tail(timedMailboxWaiters[b])
      BY <1>1, <2>1
    <3>4. QED BY <1>1, <3>1, <3>2, <3>3 DEF WaitersExact
  <2> HIDE DEF w
  <2>3. \A a \in Actor :
          /\ NoDup(mailboxWaiters'[a]) /\ NoDup(timedMailboxWaiters'[a])
          /\ Elems(mailboxWaiters'[a]) = Elems(mailboxWaiters[a]) \ {w}
          /\ Elems(timedMailboxWaiters'[a]) = Elems(timedMailboxWaiters[a]) \ {w}
    BY <1>1, <2>1, <2>2 DEF WaitersExact
  <2>4. QED BY <1>3, <2>1, <2>2, <2>3 DEF Receiving
<1>6. CASE mailboxWaiters[b] = << >> /\ timedMailboxWaiters[b] = << >>
  <2>1. UNCHANGED << taskState, readyQ, timers, waitDeadline, mailboxWaiters,
                     timedMailboxWaiters >>
    BY <1>6 DEF WakeOneOf, waiterVars
  <2>2. QED BY <2>1, FrameExact
<1>7. QED BY <1>4, <1>5, <1>6

\* send and inject change the queues through the wakeup only.
LEMMA DeliverExact ==
  ASSUME IInv, NEW b \in Actor, NEW src, Deliver(b, src)
  PROVE  QueueExact' /\ WaitersExact' /\ TimersExact'
BY WakeOneOfExact DEF Deliver, identityVars

\* A receive that finds its message changes a mailbox only.
LEMMA TakeFirstExact ==
  ASSUME IInv, NEW t \in Task, NEW wanted, TakeFirst(t, wanted)
  PROVE  QueueExact' /\ WaitersExact' /\ TimersExact'
BY FrameExact DEF TakeFirst, identityVars, scheduleVars, timeVars, waiterVars

\* The three untimed receives: the running task was in no waiter queue.
LEMMA ReceiveExact ==
  ASSUME IInv, NEW t \in Task, NEW wanted, ReceiveWanted(t, wanted)
  PROVE  QueueExact' /\ WaitersExact' /\ TimersExact'
<1>1. CASE TakeFirst(t, wanted)
  BY <1>1, TakeFirstExact
<1>2. CASE Park(t)
  <2> DEFINE a == taskOwner[t]
  <2>1. /\ IsRunning(t) /\ taskState[t] = "running" /\ a \in Actor
        /\ taskState' = [taskState EXCEPT ![t] = "waiting"]
        /\ running' = None
        /\ mailboxWaiters' = [mailboxWaiters EXCEPT ![a] = Append(@, t)]
        /\ UNCHANGED << taskOwner, readyQ, timers, waitDeadline, now,
                        timedMailboxWaiters >>
    BY <1>2 DEF ReceiveWanted, CanReceive, IsRunning, Park, IInv, TypeOK,
                identityVars, timeVars
  <2>2. QueueExact'
    BY <2>1, ParkedQueue DEF Parked
  <2>3. TimersExact'
    BY <2>1, TimersKept DEF IInv, TypeOK, Timed
  <2>4. /\ NoDup(mailboxWaiters'[a])
        /\ Elems(mailboxWaiters'[a]) = Elems(mailboxWaiters[a]) \cup {t}
    <3>1. /\ mailboxWaiters[a] \in Seq(Task) /\ NoDup(mailboxWaiters[a])
          /\ t \notin Elems(mailboxWaiters[a])
          /\ mailboxWaiters'[a] = Append(mailboxWaiters[a], t)
      BY <2>1 DEF IInv, TypeOK, WaitersExact
    <3>2. QED BY <3>1, AppendList
  <2>5. WaitersExact'
    BY <2>1, <2>4 DEF IInv, TypeOK, WaitersExact
  <2>6. QED BY <2>2, <2>3, <2>5
<1>3. QED BY <1>1, <1>2 DEF ReceiveWanted

\* receiveUntil: nor had it a timer, and the deadline lies ahead.
LEMMA ReceiveUntilExact ==
  ASSUME IInv, NEW t \in Task, NEW d \in Deadline, ReceiveUntil(t, d)
  PROVE  QueueExact' /\ WaitersExact' /\ TimersExact'
<1>1. CASE TakeFirst(t, Envelope)
  BY <1>1, TakeFirstExact
<1>2. CASE ~ TakeFirst(t, Envelope)
  <2> DEFINE a == taskOwner[t]
  <2>1. /\ IsRunning(t) /\ taskState[t] = "running" /\ a \in Actor
        /\ now < d
        /\ taskState' = [taskState EXCEPT ![t] = "waitingTimed"]
        /\ running' = None
        /\ timedMailboxWaiters' = [timedMailboxWaiters EXCEPT ![a] = Append(@, t)]
        /\ timers' = InsertSorted([deadline |-> d, task |-> t], timers)
        /\ waitDeadline' = [waitDeadline EXCEPT ![t] = d]
        /\ UNCHANGED << taskOwner, readyQ, now, mailboxWaiters >>
    BY <1>2 DEF ReceiveUntil, CanReceive, IsRunning, IInv, TypeOK, identityVars
  <2>2. QueueExact'
    BY <2>1, ParkedQueue DEF Parked
  <2>3. TimersExact'
    BY <2>1, TimerInserted DEF Timed
  <2>4. /\ NoDup(timedMailboxWaiters'[a])
        /\ Elems(timedMailboxWaiters'[a]) = Elems(timedMailboxWaiters[a]) \cup {t}
    <3>1. /\ timedMailboxWaiters[a] \in Seq(Task) /\ NoDup(timedMailboxWaiters[a])
          /\ t \notin Elems(timedMailboxWaiters[a])
          /\ timedMailboxWaiters'[a] = Append(timedMailboxWaiters[a], t)
      BY <2>1 DEF IInv, TypeOK, WaitersExact
    <3>2. QED BY <3>1, AppendList
  <2>5. WaitersExact'
    BY <2>1, <2>4 DEF IInv, TypeOK, WaitersExact
  <2>6. QED BY <2>2, <2>3, <2>5
<1>3. QED BY <1>1, <1>2

-----------------------------------------------------------------------------
(* The inductive invariant. *)

\* In the initial state every list is empty.
LEMMA InitExact == Init => QueueExact /\ WaitersExact /\ TimersExact
<1> SUFFICES ASSUME Init PROVE QueueExact /\ WaitersExact /\ TimersExact
  OBVIOUS
<1>1. Elems(<< >>) = {} /\ NoDup(<< >>) /\ Sorted(<< >>)
  BY DEF Elems, NoDup, Sorted
<1>2. Elems(TasksOf(<< >>)) = {} /\ NoDup(TasksOf(<< >>))
  BY DEF Elems, NoDup, TasksOf
<1>3. None \notin TaskState /\ None \notin Task
  BY NoneAssumption, AbsentAssumption DEF Task
<1>4. QueueExact
  BY <1>1, <1>3 DEF Init, QueueExact, TaskState, Runnable
<1>5. WaitersExact
  BY <1>1, <1>3 DEF Init, WaitersExact, TaskState, Parked
<1>6. TimersExact
  BY <1>1, <1>2, <1>3 DEF Init, TimersExact, TaskState, Parked
<1>7. QED BY <1>4, <1>5, <1>6

\* The operations on admission, resources and metadata touch no queue.
LEMMA FrameNextExact ==
  ASSUME IInv, AdmissionNext \/ ResourceNext \/ MetaNext \/ UNCHANGED vars
  PROVE  QueueExact' /\ WaitersExact' /\ TimersExact'
<1>1. UNCHANGED taskVars
  <2>1. CASE AdmissionNext
    BY <2>1 DEF AdmissionNext, CloseActor, Shutdown, StopWhenIdle, StopWhenDrained, Stop
  <2>2. CASE ResourceNext
    BY <2>2 DEF ResourceNext, Acquire, AcquireActor, Release, ReleaseActor, Finalize,
                ledgerOnly
  <2>3. CASE MetaNext
    BY <2>3 DEF MetaNext, SetPriority, SetDeadline
  <2>4. CASE UNCHANGED vars
    BY <2>4 DEF vars, taskVars
  <2>5. QED BY <2>1, <2>2, <2>3, <2>4
<1>2. UNCHANGED << taskState, taskOwner, readyQ, running, timers, waitDeadline, now,
                   mailboxWaiters, timedMailboxWaiters >>
  BY <1>1 DEF taskVars, identityVars, scheduleVars, timeVars, waiterVars
<1>3. QED BY <1>2, FrameExact

\* Every operation keeps the three invariants.
LEMMA NextExact ==
  ASSUME IInv, [Next]_vars
  PROVE  QueueExact' /\ WaitersExact' /\ TimersExact'
<1>1. CASE SchedulerNext
  <2>1. CASE Schedule
    BY <2>1, DispatchExact DEF Schedule, IInv, TypeOK, QueueExact
  <2>2. QED BY <1>1, <2>1, YieldExact, CompleteExact, TerminateExact, CancelTreeExact
            DEF SchedulerNext, Cancel, Fail, Terminal
<1>2. CASE CreationNext
  BY <1>2, NewTaskExact DEF CreationNext, Spawn, SpawnChild, RestartOne
<1>3. CASE TimeNext
  BY <1>3, SleepExact, TickExact, WakeExact DEF TimeNext
<1>4. CASE MessageNext
  BY <1>4, DeliverExact, ReceiveExact, ReceiveUntilExact
     DEF MessageNext, Inject, Send, Receive, ReceiveByOccurrence, ReceiveFrom
<1>5. CASE AdmissionNext \/ ResourceNext \/ MetaNext \/ UNCHANGED vars
  BY <1>5, FrameNextExact
<1>6. QED BY <1>1, <1>2, <1>3, <1>4, <1>5 DEF Next

\* Where a list continues another, nobody overtakes and newcomers are last.
LEMMA ContinuesKeepsOrder ==
  ASSUME NEW T, NEW q \in Seq(T), NEW r \in Seq(T), NoDup(q), Continues(q, r)
  PROVE  KeepsOrder(q, r) /\ NewcomersLast(q, r)
<1>0. Len(q) \in Nat /\ Len(r) \in Nat
  BY LenProperties
<1>1. PICK n \in 0 .. Len(r), h \in [1 .. Len(r) -> Nat] :
        /\ \A k \in 1 .. n : h[k] \in 1 .. Len(q) /\ r[k] = q[h[k]]
        /\ \A k, l \in 1 .. n : k < l => h[k] < h[l]
        /\ \A k \in n + 1 .. Len(r) : r[k] \notin Elems(q)
  BY DEF Continues
<1>2. ASSUME NEW k \in 1 .. Len(r), NEW i \in 1 .. Len(q), r[k] = q[i]
      PROVE  k \in 1 .. n /\ h[k] = i
  <2>1. r[k] \in Elems(q)
    BY <1>2 DEF Elems
  <2>2. k \in 1 .. n
    BY <1>0, <1>1, <2>1
  <2>3. h[k] \in 1 .. Len(q) /\ q[h[k]] = q[i]
    BY <1>1, <1>2, <2>2
  <2>4. h[k] = i
    BY <2>3 DEF NoDup
  <2>5. QED BY <2>2, <2>4
<1>3. ASSUME NEW i \in 1 .. Len(q), NEW j \in 1 .. Len(q),
             NEW k \in 1 .. Len(r), NEW l \in 1 .. Len(r),
             i < j, r[k] = q[i], r[l] = q[j]
      PROVE  k < l
  <2>1. k \in 1 .. n /\ l \in 1 .. n /\ h[k] = i /\ h[l] = j
    BY <1>2, <1>3
  <2>2. l < k => h[l] < h[k]
    BY <1>1, <2>1
  <2>3. l # k
    BY <1>3, <2>1
  <2>4. QED BY <1>0, <1>3, <2>1, <2>2, <2>3
<1>4. ASSUME NEW k \in 1 .. Len(r), NEW l \in 1 .. Len(r),
             r[k] \notin Elems(q), r[l] \in Elems(q)
      PROVE  l < k
  <2>1. k \notin 1 .. n
    BY <1>1, <1>4 DEF Elems
  <2>2. l \in 1 .. n
    BY <1>0, <1>1, <1>4
  <2>3. QED BY <1>0, <2>1, <2>2
<1>5. QED BY <1>3, <1>4 DEF KeepsOrder, NewcomersLast

\* IInv is inductive, whatever the constants.
THEOREM Inductive == Spec => []IInv
<1>1. Init => IInv
  BY InitTypes, InitExact DEF IInv
<1>2. IInv /\ [Next]_vars => IInv'
  BY NextTypes, NextExact DEF IInv
<1>3. QED BY <1>1, <1>2, PTL DEF Spec

\* The ready queue holds each runnable task once and nothing else, and the
\* processor holds the task that is running (Model.lean, every operation).
THEOREM QueueIsExact == Spec => []QueueExact
<1>1. IInv => QueueExact
  BY DEF IInv
<1>2. QED BY <1>1, Inductive, PTL

\* The waiter queues of an actor hold its parked receivers, once each: a
\* cancelled, failed or resumed task is in none (Model.lean, cancel and send).
THEOREM WaitersAreExact == Spec => []WaitersExact
<1>1. IInv => WaitersExact
  BY DEF IInv
<1>2. QED BY <1>1, Inductive, PTL

\* The timer queue is sorted and holds one timer for each timed task, that of
\* a timed receiver lying in the future (Model.lean, sleep, tick, send).
THEOREM TimersAreExact == Spec => []TimersExact
<1>1. IInv => TimersExact
  BY DEF IInv
<1>2. QED BY <1>1, Inductive, PTL

=============================================================================
