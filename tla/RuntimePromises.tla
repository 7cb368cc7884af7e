---------------------------- MODULE RuntimePromises -------------------------
(***************************************************************************)
(* What a runtime promises to the programs that run on it, for every value *)
(* of the constants: its queues are FIFO across every operation, it ends   *)
(* for good, it implements the abstract specifications TaskLife and        *)
(* Leases, and it keeps the Mesa contract with any number of workers (no   *)
(* wakeup is lost). The invariants it rests on are those of                *)
(* RuntimeInvariants and RuntimeHistory.                                   *)
(***************************************************************************)
EXTENDS Refinements, WorkerPool, RuntimeHistory, FiniteSetTheorems

-----------------------------------------------------------------------------
(* The queues are FIFO. *)

\* Every operation continues the three kinds of queue of tasks, and only the
\* head of the ready queue can get the processor (Model.lean, step).
QueuesContinue ==
  /\ Continues(readyQ, readyQ')
  /\ \A a \in Actor : /\ Continues(mailboxWaiters[a], mailboxWaiters'[a])
                      /\ Continues(timedMailboxWaiters[a], timedMailboxWaiters'[a])
  /\ running' \in {running, None} \/ (readyQ # << >> /\ running' = Head(readyQ))

\* What the invariant says of the three lists.
LEMMA QueueLists ==
  ASSUME IInv
  PROVE  /\ readyQ \in Seq(Task) /\ Continues(readyQ, readyQ)
         /\ \A t \in Task : t \in Elems(readyQ) <=> taskState[t] \in Runnable
         /\ \A a \in Actor :
              /\ mailboxWaiters[a] \in Seq(Task)
              /\ timedMailboxWaiters[a] \in Seq(Task)
              /\ Continues(mailboxWaiters[a], mailboxWaiters[a])
              /\ Continues(timedMailboxWaiters[a], timedMailboxWaiters[a])
              /\ \A t \in Elems(mailboxWaiters[a]) : taskState[t] = "waiting"
              /\ \A t \in Elems(timedMailboxWaiters[a]) : taskState[t] = "waitingTimed"
<1>1. /\ readyQ \in Seq(Task)
      /\ \A a \in Actor : /\ mailboxWaiters[a] \in Seq(Task)
                          /\ timedMailboxWaiters[a] \in Seq(Task)
  BY DEF IInv, TypeOK
<1>2. QED BY <1>1, SameContinues DEF IInv, QueueExact, WaitersExact

\* A task that is not runnable joins the ready queue at its end.
LEMMA ReadyAppended ==
  ASSUME IInv, NEW t \in Task, taskState[t] \notin Runnable, readyQ' = Append(readyQ, t)
  PROVE  Continues(readyQ, readyQ')
  BY QueueLists, AppendContinues

\* The tasks a tick wakes are newcomers to the ready queue.
LEMMA TickContinues ==
  ASSUME IInv, NEW d \in Deadline, Tick(d)
  PROVE  QueuesContinue
<1> DEFINE expired       == TasksOf(Expired(timers, d))
           wokenSleeping == Only(expired, {u \in Task : taskState[u] = "sleeping"})
           wokenTimed    == Only(expired, {u \in Task : taskState[u] = "waitingTimed"})
<1>1. Expired(timers, d) \in Seq(TimerEntry)
  BY OnlyProperties DEF IInv, TypeOK, Expired
<1>2. expired \in Seq(Task)
  BY <1>1, TasksOfElems
<1> HIDE DEF expired
<1>3. /\ wokenSleeping \in Seq(Task) /\ wokenTimed \in Seq(Task)
      /\ Elems(wokenSleeping) = Elems(expired) \cap {u \in Task : taskState[u] = "sleeping"}
      /\ Elems(wokenTimed) = Elems(expired) \cap {u \in Task : taskState[u] = "waitingTimed"}
  BY <1>2, OnlyProperties
<1>4. /\ readyQ' = readyQ \o (wokenSleeping \o wokenTimed)
      /\ timedMailboxWaiters' =
           [a \in Actor |-> Without(timedMailboxWaiters[a], Elems(wokenTimed))]
      /\ UNCHANGED << running, mailboxWaiters >>
  BY DEF Tick, expired
<1> HIDE DEF wokenSleeping, wokenTimed
<1>5. /\ wokenSleeping \o wokenTimed \in Seq(Task)
      /\ Elems(wokenSleeping \o wokenTimed) = Elems(wokenSleeping) \cup Elems(wokenTimed)
  BY <1>3, ConcatList, ConcatProperties
<1>6. Elems(readyQ) \cap Elems(wokenSleeping \o wokenTimed) = {}
  BY <1>3, <1>5, QueueLists DEF Runnable
<1>7. Continues(readyQ, readyQ')
  BY <1>4, <1>5, <1>6, QueueLists, ConcatContinues
<1>8. QED BY <1>4, <1>7, QueueLists, WithoutContinues DEF QueuesContinue

\* A delivery moves the head of one waiter queue to the end of the ready queue.
LEMMA WakeContinues ==
  ASSUME IInv, NEW b \in Actor, WakeOneOf(b), UNCHANGED running
  PROVE  QueuesContinue
<1>1. ASSUME NEW w \in Task, WakeWaiter(w), taskState[w] \in Parked
      PROVE  Continues(readyQ, readyQ')
  BY <1>1, ReadyAppended DEF WakeWaiter, Parked, Runnable
<1>2. CASE mailboxWaiters[b] # << >>
  <2>1. /\ Head(mailboxWaiters[b]) \in Task
        /\ taskState[Head(mailboxWaiters[b])] \in Parked
        /\ WakeWaiter(Head(mailboxWaiters[b]))
    BY <1>2, HeadIsReceiver DEF WakeOneOf, Parked
  <2>2. /\ mailboxWaiters' = [mailboxWaiters EXCEPT ![b] = Tail(@)]
        /\ UNCHANGED timedMailboxWaiters
    BY <1>2 DEF WakeOneOf
  <2>3. Continues(mailboxWaiters[b], Tail(mailboxWaiters[b]))
    BY <1>2, QueueLists, TailContinues
  <2>4. \A a \in Actor : Continues(mailboxWaiters[a], mailboxWaiters'[a])
    BY <2>2, <2>3, QueueLists DEF IInv, TypeOK
  <2>5. QED BY <1>1, <2>1, <2>2, <2>4, QueueLists DEF QueuesContinue
<1>3. CASE mailboxWaiters[b] = << >> /\ timedMailboxWaiters[b] # << >>
  <2>1. /\ Head(timedMailboxWaiters[b]) \in Task
        /\ taskState[Head(timedMailboxWaiters[b])] \in Parked
        /\ WakeWaiter(Head(timedMailboxWaiters[b]))
    BY <1>3, HeadIsReceiver DEF WakeOneOf, Parked
  <2>2. /\ timedMailboxWaiters' = [timedMailboxWaiters EXCEPT ![b] = Tail(@)]
        /\ UNCHANGED mailboxWaiters
    BY <1>3 DEF WakeOneOf
  <2>3. Continues(timedMailboxWaiters[b], Tail(timedMailboxWaiters[b]))
    BY <1>3, QueueLists, TailContinues
  <2>4. \A a \in Actor : Continues(timedMailboxWaiters[a], timedMailboxWaiters'[a])
    BY <2>2, <2>3, QueueLists DEF IInv, TypeOK
  <2>5. QED BY <1>1, <2>1, <2>2, <2>4, QueueLists DEF QueuesContinue
<1>4. CASE mailboxWaiters[b] = << >> /\ timedMailboxWaiters[b] = << >>
  BY <1>4, QueueLists DEF WakeOneOf, waiterVars, QueuesContinue
<1>5. QED BY <1>2, <1>3, <1>4

\* Every step continues every queue.
LEMMA QueueSteps ==
  ASSUME IInv, [Next]_vars
  PROVE  QueuesContinue
<1>0. TypeOK
  BY DEF IInv
<1>a. CASE UNCHANGED << readyQ, running, waiterVars >>
  BY <1>a, QueueLists DEF waiterVars, QueuesContinue
<1>1. CASE SchedulerNext
  <2>1. CASE Schedule
    <3>1. /\ readyQ # << >> /\ readyQ' = Tail(readyQ) /\ running' = Head(readyQ)
          /\ UNCHANGED waiterVars
      BY <2>1 DEF Schedule, Dispatch, CanDispatch
    <3>2. QED BY <3>1, QueueLists, TailContinues DEF QueuesContinue, waiterVars
  <2>2. ASSUME NEW t \in Task, Yield(t) PROVE QueuesContinue
    <3>1. taskState[t] \notin Runnable /\ readyQ' = Append(readyQ, t)
      BY <2>2 DEF Yield, IsRunning, Runnable
    <3>2. running' = None /\ UNCHANGED waiterVars
      BY <2>2 DEF Yield
    <3>3. QED BY <3>1, <3>2, ReadyAppended, QueueLists DEF QueuesContinue, waiterVars
  <2>3. ASSUME NEW t \in Task, Complete(t) PROVE QueuesContinue
    BY <2>3, QueueLists DEF Complete, QueuesContinue, waiterVars
  <2>4. ASSUME NEW t \in Task, NEW st, Terminate(t, st) PROVE QueuesContinue
    <3>1. /\ readyQ' = Without(readyQ, {t})
          /\ running' \in {running, None}
          /\ mailboxWaiters' = [a \in Actor |->
               IF a = taskOwner[t] THEN Without(mailboxWaiters[a], {t})
               ELSE mailboxWaiters[a]]
          /\ timedMailboxWaiters' =
               [a \in Actor |-> Without(timedMailboxWaiters[a], {t})]
      BY <2>4 DEF Terminate
    <3>2. QED BY <3>1, QueueLists, WithoutContinues DEF QueuesContinue
  <2>5. ASSUME NEW root \in Task, CancelTree(root) PROVE QueuesContinue
    <3>1. PICK D : /\ readyQ' = Without(readyQ, D)
                   /\ running' \in {running, None}
                   /\ mailboxWaiters' = [a \in Actor |-> Without(mailboxWaiters[a], D)]
                   /\ timedMailboxWaiters' =
                        [a \in Actor |-> Without(timedMailboxWaiters[a], D)]
      BY <2>5 DEF CancelTree
    <3>2. QED BY <3>1, QueueLists, WithoutContinues DEF QueuesContinue
  <2>6. QED BY <1>1, <2>1, <2>2, <2>3, <2>4, <2>5 DEF SchedulerNext, Cancel, Fail
<1>2. ASSUME NEW a \in Actor, NEW p \in Task \cup {None}, NEW r \in Task \cup {None},
             Created(a, p, r)
      PROVE  QueuesContinue
  <2>1. PICK n \in Task : n = nextId
    BY <1>0, <1>2, BoundsAssumption DEF Created, NewTask, TypeOK, Task
  <2>2. taskState[n] \notin Runnable /\ readyQ' = Append(readyQ, n)
    BY <1>2, <2>1, AbsentAssumption DEF Created, NewTask, TaskState
  <2>3. UNCHANGED << running, waiterVars >>
    BY <1>2 DEF Created, NewTask
  <2>4. QED BY <2>2, <2>3, ReadyAppended, QueueLists DEF QueuesContinue, waiterVars
<1>3. CASE TimeNext
  <2>1. ASSUME NEW t \in Task, NEW d \in Deadline, Sleep(t, d) PROVE QueuesContinue
    BY <2>1, QueueLists DEF Sleep, QueuesContinue, waiterVars
  <2>2. ASSUME NEW t \in Task, Wake(t) PROVE QueuesContinue
    <3>1. taskState[t] \notin Runnable /\ readyQ' = Append(readyQ, t)
      BY <2>2 DEF Wake, Runnable
    <3>2. UNCHANGED << running, waiterVars >>
      BY <2>2 DEF Wake
    <3>3. QED BY <3>1, <3>2, ReadyAppended, QueueLists DEF QueuesContinue, waiterVars
  <2>3. QED BY <1>3, <2>1, <2>2, TickContinues DEF TimeNext
<1>4. CASE MessageNext
  <2>1. ASSUME NEW b \in Actor, NEW src, Deliver(b, src) PROVE QueuesContinue
    BY <2>1, WakeContinues DEF Deliver
  <2>2. ASSUME NEW t \in Task, NEW wanted, TakeFirst(t, wanted) PROVE QueuesContinue
    BY <1>a, <2>2 DEF TakeFirst, scheduleVars
  <2>3. ASSUME NEW t \in Task, CanReceive(t)
        PROVE  /\ taskOwner[t] \in Actor
               /\ Continues(mailboxWaiters[taskOwner[t]],
                            Append(mailboxWaiters[taskOwner[t]], t))
               /\ Continues(timedMailboxWaiters[taskOwner[t]],
                            Append(timedMailboxWaiters[taskOwner[t]], t))
    <3>1. taskOwner[t] \in Actor /\ taskState[t] = "running"
      BY <1>0, <2>3 DEF CanReceive, IsRunning, TypeOK
    <3>2. /\ t \notin Elems(mailboxWaiters[taskOwner[t]])
          /\ t \notin Elems(timedMailboxWaiters[taskOwner[t]])
      BY <3>1, QueueLists
    <3>3. QED BY <3>1, <3>2, QueueLists, AppendContinues
  <2>4. ASSUME NEW t \in Task, NEW wanted, ReceiveWanted(t, wanted) PROVE QueuesContinue
    <3>1. CASE Park(t)
      <4>1. /\ mailboxWaiters' = [mailboxWaiters EXCEPT ![taskOwner[t]] = Append(@, t)]
            /\ UNCHANGED << readyQ, timedMailboxWaiters >> /\ running' = None
        BY <3>1 DEF Park
      <4>2. CanReceive(t)
        BY <2>4 DEF ReceiveWanted
      <4>3. \A a \in Actor : Continues(mailboxWaiters[a], mailboxWaiters'[a])
        BY <1>0, <2>3, <4>1, <4>2, QueueLists DEF TypeOK
      <4>4. QED BY <4>1, <4>3, QueueLists DEF QueuesContinue
    <3>2. QED BY <2>2, <2>4, <3>1, Zenon DEF ReceiveWanted
  <2>5. ASSUME NEW t \in Task, NEW d \in Deadline, ReceiveUntil(t, d) PROVE QueuesContinue
    <3>1. CASE ~ TakeFirst(t, Envelope)
      <4>1. /\ timedMailboxWaiters' =
                 [timedMailboxWaiters EXCEPT ![taskOwner[t]] = Append(@, t)]
            /\ UNCHANGED << readyQ, mailboxWaiters >> /\ running' = None
        BY <2>5, <3>1 DEF ReceiveUntil
      <4>2. CanReceive(t)
        BY <2>5 DEF ReceiveUntil
      <4>3. \A a \in Actor : Continues(timedMailboxWaiters[a], timedMailboxWaiters'[a])
        BY <1>0, <2>3, <4>1, <4>2, QueueLists DEF TypeOK
      <4>4. QED BY <4>1, <4>3, QueueLists DEF QueuesContinue
    <3>2. QED BY <2>2, <3>1
  <2>6. QED BY <1>4, <2>1, <2>4, <2>5
            DEF MessageNext, Inject, Send, Receive, ReceiveByOccurrence, ReceiveFrom
<1>5. CASE AdmissionNext \/ MetaNext
  BY <1>5, <1>a DEF AdmissionNext, CloseActor, Shutdown, StopWhenIdle, StopWhenDrained,
                    Stop, MetaNext, SetPriority, SetDeadline, taskVars, scheduleVars
<1>6. CASE ResourceNext \/ UNCHANGED vars
  BY <1>6, <1>a DEF ResourceNext, Acquire, AcquireActor, Release, ReleaseActor, Finalize,
                    ledgerOnly, taskVars, scheduleVars, vars
<1>7. CASE CreationNext
  BY <1>2, <1>7, CreationSteps
<1>8. QED BY <1>1, <1>3, <1>4, <1>5, <1>6, <1>7 DEF Next

\* The ready queue and both waiter queues are FIFO across every operation, and
\* a task is dispatched only when everything queued before it has gone
\* (Model.lean, step).
THEOREM QueuesAreFifo == Spec => FifoQueues
<1> DEFINE A == /\ KeepsOrder(readyQ, readyQ') /\ NewcomersLast(readyQ, readyQ')
                /\ \A i, j \in 1 .. Len(readyQ) :
                     i < j /\ running' = readyQ[j] => readyQ[i] \notin Elems(readyQ')
                /\ \A a \in Actor :
                     /\ KeepsOrder(mailboxWaiters[a], mailboxWaiters[a]')
                     /\ NewcomersLast(mailboxWaiters[a], mailboxWaiters[a]')
                     /\ KeepsOrder(timedMailboxWaiters[a], timedMailboxWaiters[a]')
                     /\ NewcomersLast(timedMailboxWaiters[a], timedMailboxWaiters[a]')
<1>1. ASSUME IInv, TypeOK', [Next]_vars PROVE A
  <2>0. QueuesContinue
    BY <1>1, QueueSteps
  <2>1. /\ readyQ \in Seq(Task) /\ NoDup(readyQ)
        /\ Elems(readyQ) = {t \in Task : taskState[t] \in Runnable}
        /\ readyQ' \in Seq(Task)
        /\ \A a \in Actor :
             /\ mailboxWaiters[a] \in Seq(Task) /\ NoDup(mailboxWaiters[a])
             /\ mailboxWaiters[a]' \in Seq(Task)
             /\ timedMailboxWaiters[a] \in Seq(Task) /\ NoDup(timedMailboxWaiters[a])
             /\ timedMailboxWaiters[a]' \in Seq(Task)
    BY <1>1 DEF IInv, TypeOK, QueueExact, WaitersExact
  <2>2. KeepsOrder(readyQ, readyQ') /\ NewcomersLast(readyQ, readyQ')
    BY <2>0, <2>1, ContinuesKeepsOrder DEF QueuesContinue
  <2>3. ASSUME NEW a \in Actor
        PROVE  /\ KeepsOrder(mailboxWaiters[a], mailboxWaiters[a]')
               /\ NewcomersLast(mailboxWaiters[a], mailboxWaiters[a]')
               /\ KeepsOrder(timedMailboxWaiters[a], timedMailboxWaiters[a]')
               /\ NewcomersLast(timedMailboxWaiters[a], timedMailboxWaiters[a]')
    BY <2>0, <2>1, ContinuesKeepsOrder DEF QueuesContinue
  <2>4. ASSUME NEW i \in 1 .. Len(readyQ), NEW j \in 1 .. Len(readyQ),
               i < j, running' = readyQ[j]
        PROVE  FALSE
    <3>1. /\ readyQ[j] \in Task /\ taskState[readyQ[j]] \in Runnable
          /\ readyQ # << >> /\ Len(readyQ) \in Nat /\ Head(readyQ) = readyQ[1]
      BY <2>1, <2>4, LenProperties, EmptySeq, HeadTailProperties DEF Elems
    <3>2. running' # running
      BY <1>1, <2>4, <3>1 DEF IInv, QueueExact, Runnable
    <3>3. running' # None
      BY <2>4, <3>1, NoneAssumption DEF Task
    <3>4. readyQ[j] = readyQ[1]
      BY <2>0, <2>4, <3>1, <3>2, <3>3 DEF QueuesContinue
    <3>5. QED BY <2>1, <2>4, <3>1, <3>4 DEF NoDup
  <2>5. QED BY <2>2, <2>3, <2>4
<1>2. IInv /\ TypeOK' /\ [Next]_vars => [A]_vars
  BY <1>1
<1>3. IInv => TypeOK
  BY DEF IInv
<1>4. QED BY <1>2, <1>3, Inductive, PTL DEF Spec, FifoQueues

-----------------------------------------------------------------------------
(* The end of a runtime: once admission is over and nothing is left to     *)
(* run, no operation brings work back, and a ledger that is drained by     *)
(* then stays drained. Wake is harmless because a sleeping task would have *)
(* a timer.                                                                *)

\* Filtering or concatenating empty lists yields the empty list.
LEMMA EmptyList ==
  ASSUME NEW S
  PROVE  /\ Without(<< >>, S) = << >>
         /\ WithoutTimersOf(<< >>, S) = << >>
         /\ Remaining(<< >>, S) = << >>
         /\ TasksOf(Expired(<< >>, S)) = << >>
         /\ Only(<< >>, S) = << >>
<1>1. \A R : Without(<< >>, R) = << >>
  <2>1. SUFFICES ASSUME NEW R PROVE Without(<< >>, R) = << >>
    OBVIOUS
  <2>2. << >> \in Seq({})
    OBVIOUS
  <2>3. Without(<< >>, R) \in Seq({})
    BY <2>2, WithoutProperties
  <2>4. ASSUME NEW q \in Seq({}) PROVE q = << >>
    <3>1. Len(q) \in Nat /\ (Len(q) >= 1 => q[1] \in {})
      BY LenProperties, ElementOfSeq
    <3>2. QED BY <3>1, EmptySeq
  <2>5. QED BY <2>3, <2>4
<1>2. \A q : TasksOf(<< >>) = << >>
  BY DEF TasksOf
<1>3. QED BY <1>1, <1>2, Zenon DEF WithoutTimersOf, Remaining, Expired, Only

\* The operations that need a running task or open admission are impossible.
LEMMA NobodyRuns ==
  ASSUME IInv, RuntimeQuiescent, NEW t \in Task
  PROVE  ~ IsRunning(t) /\ taskState[t] # "sleeping"
<1>1. None \notin Task /\ running = None /\ timers = << >>
  BY NoneAssumption DEF RuntimeQuiescent, Task
<1>2. Elems(TasksOf(timers)) = {}
  BY <1>1 DEF Elems, TasksOf
<1>3. QED BY <1>1, <1>2 DEF IsRunning, IInv, TimersExact

\* What a step does to a quiescent runtime that admits nothing.
LEMMA QuiescentStep ==
  ASSUME IInv, runtimeStatus # "running", RuntimeQuiescent, [Next]_vars
  PROVE  runtimeStatus' # "running" /\ RuntimeQuiescent'
<1>1. running = None /\ readyQ = << >> /\ timers = << >>
  BY DEF RuntimeQuiescent
<1>2. SUFFICES ASSUME Next PROVE runtimeStatus' # "running" /\ RuntimeQuiescent'
  BY DEF vars, scheduleVars, timeVars, statusVars, RuntimeQuiescent
<1>3. CASE SchedulerNext
  <2>1. ~ Schedule
    BY <1>1 DEF Schedule, Dispatch, CanDispatch
  <2>2. \A t \in Task : ~ Yield(t) /\ ~ Complete(t)
    BY NobodyRuns DEF Yield, Complete
  <2>3. ASSUME NEW t \in Task, NEW outcome, Terminate(t, outcome)
        PROVE  runtimeStatus' # "running" /\ RuntimeQuiescent'
    BY <1>1, <2>3, EmptyList DEF Terminate, RuntimeQuiescent, statusVars
  <2>4. ASSUME NEW root \in Task, CancelTree(root)
        PROVE  runtimeStatus' # "running" /\ RuntimeQuiescent'
    BY <1>1, <2>4, EmptyList DEF CancelTree, RuntimeQuiescent, statusVars
  <2>5. QED BY <1>3, <2>1, <2>2, <2>3, <2>4 DEF SchedulerNext, Cancel, Fail
<1>4. CASE CreationNext
  BY <1>4, NobodyRuns DEF CreationNext, Spawn, SpawnChild, RestartOne
<1>5. CASE TimeNext
  <2>1. \A t \in Task : ~ Wake(t) /\ \A d \in Deadline : ~ Sleep(t, d)
    BY NobodyRuns DEF Sleep, Wake
  <2>2. ASSUME NEW d \in Deadline, Tick(d)
        PROVE  runtimeStatus' # "running" /\ RuntimeQuiescent'
    <3> DEFINE Woken(st) == Only(TasksOf(Expired(timers, d)),
                                 {u \in Task : taskState[u] = st})
    <3>1. /\ readyQ' = readyQ \o (Woken("sleeping") \o Woken("waitingTimed"))
          /\ timers' = Remaining(timers, d)
          /\ UNCHANGED << running, runtimeStatus >>
      BY <2>2 DEF Tick, statusVars
    <3>2. Woken("sleeping") = << >> /\ Woken("waitingTimed") = << >>
      BY <1>1, EmptyList, Zenon
    <3> HIDE DEF Woken
    <3>3. readyQ' = << >> /\ timers' = << >>
      <4>1. << >> \o << >> = << >>
        OBVIOUS
      <4>2. readyQ' = << >> \o (<< >> \o << >>) /\ timers' = Remaining(<< >>, d)
        BY <1>1, <3>1, <3>2, Zenon
      <4>3. QED BY <4>1, <4>2, EmptyList, Zenon
    <3>4. QED BY <1>1, <3>1, <3>3 DEF RuntimeQuiescent
  <2>3. QED BY <1>5, <2>1, <2>2 DEF TimeNext
<1>6. CASE MessageNext
  BY <1>6, NobodyRuns
     DEF MessageNext, Inject, Send, Receive, ReceiveByOccurrence, ReceiveFrom,
         ReceiveWanted, ReceiveUntil, CanReceive
<1>7. CASE AdmissionNext
  BY <1>1, <1>7 DEF AdmissionNext, CloseActor, Shutdown, StopWhenIdle, StopWhenDrained,
     Stop, RuntimeQuiescent, taskVars, scheduleVars, timeVars
<1>8. CASE ResourceNext
  BY <1>1, <1>8 DEF ResourceNext, Acquire, AcquireActor, Release, ReleaseActor, Finalize,
     RuntimeQuiescent, ledgerOnly, taskVars, scheduleVars, timeVars, statusVars
<1>9. CASE MetaNext
  BY <1>1, <1>9 DEF MetaNext, SetPriority, SetDeadline, RuntimeQuiescent, taskVars,
     scheduleVars, timeVars, statusVars
<1>10. QED BY <1>2, <1>3, <1>4, <1>5, <1>6, <1>7, <1>8, <1>9 DEF Next

\* Nor does such a step leave a drained ledger undrained: what is released is
\* not marked, and nothing can be acquired.
LEMMA DrainedStep ==
  ASSUME IInv, runtimeStatus # "running", RuntimeQuiescent, ResourceDrained, [Next]_vars
  PROVE  ResourceDrained'
<1>1. CASE UNCHANGED ledgerVars
  BY <1>1 DEF ledgerVars, ResourceDrained, InState
<1>0. /\ resources \in [Resource -> Record \cup {None}]
      /\ \A k \in 0 .. nextResourceId - 1 : k \in Resource
  BY BoundsAssumption DEF IInv, TypeOK, LedgerTypeOK, Resource
<1>2. ASSUME NEW owners, MarkClosing(owners), UNCHANGED nextResourceId
      PROVE  ResourceDrained'
  <2>1. SUFFICES ASSUME NEW k \in 0 .. nextResourceId - 1, resources'[k] # None
                 PROVE  InState(k, "released")'
    BY <1>2 DEF ResourceDrained
  <2>2. ~ InState(k, "allocated")
    BY <2>1 DEF ResourceDrained, InState
  <2>3. resources'[k] = resources[k]
    BY <1>0, <1>2, <2>2 DEF MarkClosing
  <2>4. QED BY <2>1, <2>3 DEF ResourceDrained, InState
<1>3. ASSUME NEW r \in Resource, NEW o, NEW from, Reclaim(r, o, from)
      PROVE  ResourceDrained'
  <2>1. SUFFICES ASSUME NEW k \in 0 .. nextResourceId - 1, resources'[k] # None
                 PROVE  InState(k, "released")'
    BY <1>3 DEF Reclaim, ResourceDrained
  <2>2. CASE k = r
    <3>1. resources[r] \in Record
      BY <1>0, <1>3 DEF Reclaim, InState
    <3>2. resources'[r].state = "released"
      BY <1>0, <1>3, <3>1 DEF Reclaim, Record
    <3>3. QED BY <2>1, <2>2, <3>2 DEF InState
  <2>3. CASE k # r
    <3>1. resources'[k] = resources[k]
      BY <1>0, <1>3, <2>3 DEF Reclaim
    <3>2. QED BY <2>1, <3>1 DEF ResourceDrained, InState
  <2>4. QED BY <2>2, <2>3
<1>4. CASE SchedulerNext
  BY <1>1, <1>2, <1>4
     DEF SchedulerNext, Schedule, Dispatch, Yield, Complete, Cancel, Fail, Terminate,
         CancelTree
<1>5. CASE CreationNext \/ TimeNext \/ MessageNext \/ MetaNext \/ UNCHANGED vars
  BY <1>1, <1>5
     DEF CreationNext, Spawn, SpawnChild, RestartOne, NewTask, TimeNext, Sleep, Tick, Wake,
         MessageNext, Inject, Send, Deliver, Receive, ReceiveByOccurrence, ReceiveFrom,
         ReceiveWanted, ReceiveUntil, TakeFirst, Park, MetaNext, SetPriority, SetDeadline,
         vars
<1>6. CASE AdmissionNext
  BY <1>1, <1>2, <1>6
     DEF AdmissionNext, CloseActor, Shutdown, StopWhenIdle, StopWhenDrained, Stop
<1>7. CASE ResourceNext
  BY <1>3, <1>7, NobodyRuns
     DEF ResourceNext, Acquire, AcquireActor, Release, ReleaseActor, Finalize
<1>8. QED BY <1>4, <1>5, <1>6, <1>7 DEF Next

\* Once nothing is admitted and nothing is left to run, nothing runs again
\* (Model.lean: shutdown, stopWhenIdle, and the guards of spawn and inject).
THEOREM QuiescenceIsFinal == Spec => QuiescentForever
<1>1. IInv /\ [Next]_vars =>
        [runtimeStatus # "running" /\ RuntimeQuiescent
           => runtimeStatus' # "running" /\ RuntimeQuiescent']_vars
  BY QuiescentStep
<1>2. QED BY <1>1, Inductive, PTL DEF Spec, QuiescentForever

\* A runtime that stopped cleanly has a drained ledger from then on
\* (Model.lean: stopWhenDrained, acquire, acquireActor).
THEOREM DrainIsFinal == Spec => DrainedForever
<1>1. IInv /\ [Next]_vars =>
        [runtimeStatus # "running" /\ RuntimeQuiescent /\ ResourceDrained
           => ResourceDrained']_vars
  BY DrainedStep
<1>2. QED BY <1>1, Inductive, PTL DEF Spec, DrainedForever

\* A runtime that says it has stopped has nothing running, queued or timed
\* (Model.lean: stopWhenIdle, stopWhenDrained).
THEOREM StopIsQuiescent == Spec => []StoppedIsQuiescent
<1>1. Init => StoppedIsQuiescent
  BY DEF Init, StoppedIsQuiescent
<1>2. IInv /\ StoppedIsQuiescent /\ [Next]_vars => StoppedIsQuiescent'
  <2>1. SUFFICES ASSUME IInv, StoppedIsQuiescent, [Next]_vars, runtimeStatus' = "stopped"
                 PROVE  RuntimeQuiescent'
    BY DEF StoppedIsQuiescent
  <2>2. CASE runtimeStatus = "stopped"
    BY <2>1, <2>2, QuiescentStep DEF StoppedIsQuiescent
  <2>3. CASE Stop
    BY <2>3 DEF Stop, RuntimeQuiescent, taskVars, scheduleVars, timeVars
  <2>4. CASE UNCHANGED runtimeStatus
    BY <2>1, <2>2, <2>4
  <2>5. [Next]_vars => Stop \/ UNCHANGED runtimeStatus \/ Shutdown
    <3>1. CASE SchedulerNext
      BY <3>1 DEF SchedulerNext, Schedule, Dispatch, Yield, Complete, Cancel, Fail,
                  Terminate, CancelTree, statusVars
    <3>2. CASE CreationNext \/ TimeNext
      BY <3>2 DEF CreationNext, Spawn, SpawnChild, RestartOne, NewTask, TimeNext, Sleep,
                  Tick, Wake, statusVars
    <3>3. CASE MessageNext
      BY <3>3 DEF MessageNext, Inject, Send, Deliver, Receive, ReceiveByOccurrence,
                  ReceiveFrom, ReceiveWanted, ReceiveUntil, TakeFirst, Park, statusVars
    <3>4. CASE AdmissionNext
      BY <3>4 DEF AdmissionNext, CloseActor, StopWhenIdle, StopWhenDrained
    <3>5. CASE ResourceNext \/ MetaNext \/ UNCHANGED vars
      BY <3>5 DEF ResourceNext, Acquire, AcquireActor, Release, ReleaseActor, Finalize,
                  MetaNext, SetPriority, SetDeadline, ledgerOnly, statusVars, vars
    <3>6. QED BY <3>1, <3>2, <3>3, <3>4, <3>5 DEF Next
  <2>6. QED BY <2>1, <2>3, <2>4, <2>5 DEF Shutdown
<1>3. QED BY <1>1, <1>2, Inductive, PTL DEF Spec

-----------------------------------------------------------------------------
(* TaskLife. *)

\* Which states of the scheduler each phase of a task's life stands for.
LEMMA PhaseFacts ==
  ASSUME TypeOK, NEW t \in Task
  PROVE  /\ PhaseOf(t) = "unborn" <=> taskState[t] = None
         /\ PhaseOf(t) = "ready" <=> taskState[t] \in Runnable
         /\ PhaseOf(t) = "running" <=> taskState[t] = "running"
         /\ PhaseOf(t) = "parked" <=> taskState[t] \in Parked
         /\ PhaseOf(t) \in {"ready", "running", "parked"} <=> Live(t)
<1>1. taskState[t] \in TaskState \cup {None} /\ None \notin TaskState
  BY AbsentAssumption DEF TypeOK
<1>2. CASE taskState[t] = None
  BY <1>1, <1>2 DEF PhaseOf, TaskState, Runnable, Parked, Terminal, Live
<1>3. CASE taskState[t] \in Runnable
  BY <1>1, <1>3 DEF PhaseOf, TaskState, Runnable, Parked, Terminal, Live
<1>4. CASE taskState[t] \in Parked
  BY <1>1, <1>4 DEF PhaseOf, TaskState, Runnable, Parked, Terminal, Live
<1>5. CASE taskState[t] \in Terminal \cup {"running"}
  BY <1>1, <1>5 DEF PhaseOf, TaskState, Runnable, Parked, Terminal, Live
<1>6. QED BY <1>1, <1>2, <1>3, <1>4, <1>5 DEF TaskState

\* Tasks that move together in the scheduler move together in their lives.
LEMMA MovedPhase ==
  ASSUME NEW S \in SUBSET Task, NEW st, NEW p, Moved(S, st),
         \/ st \in Runnable /\ p = "ready"
         \/ st \in Parked /\ p = "parked"
         \/ st \in Terminal \cup {"running"} /\ p = st
  PROVE  Life!Move(S, p)
<1>1. SUFFICES ASSUME NEW t \in Task
               PROVE  PhaseOf(t)' = IF t \in S THEN p ELSE PhaseOf(t)
  BY DEF Life!Move
<1>2. taskState'[t] = IF t \in S THEN st ELSE taskState[t]
  BY DEF Moved
<1>3. CASE t \in S
  <2>1. st # None
    BY AbsentAssumption DEF TaskState
  <2>2. QED BY <1>2, <1>3, <2>1 DEF PhaseOf, Runnable, Parked, Terminal
<1>4. CASE t \notin S
  BY <1>2, <1>4 DEF PhaseOf
<1>5. QED BY <1>3, <1>4

\* A step that moves tasks is a step of TaskLife, or keeps every phase.
LEMMA StateStepIsLife ==
  ASSUME IInv, StateStep
  PROVE  [Life!Next]_[t \in Task |-> PhaseOf(t)]
<1>0. TypeOK
  BY DEF IInv
<1>1. CASE UNCHANGED taskState
  BY <1>1 DEF PhaseOf
<1>2. ASSUME NEW t \in Task, taskState[t] \in Runnable, running = None,
             Moved({t}, "running")
      PROVE  Life!Dispatch(t)
  <2>1. Life!Move({t}, "running")
    BY <1>2, MovedPhase
  <2>2. \A u \in Task : PhaseOf(u) # "running"
    BY <1>0, <1>2, NoneAssumption, PhaseFacts DEF IInv, QueueExact, Task
  <2>3. PhaseOf(t) = "ready"
    BY <1>0, <1>2, PhaseFacts
  <2>4. QED BY <2>1, <2>2, <2>3 DEF Life!Dispatch, Life!In
<1>3. ASSUME NEW t \in Task, IsRunning(t),
             NEW st \in Parked \cup {"yielded", "completed"}, Moved({t}, st)
      PROVE  Life!GiveUp(t) \/ Life!Park(t) \/ Life!Complete(t)
  <2>1. t \in Life!In("running")
    BY <1>0, <1>3, PhaseFacts DEF IsRunning, Life!In
  <2>2. CASE st \in Parked
    BY <1>3, <2>1, <2>2, MovedPhase DEF Life!Park
  <2>3. CASE st = "yielded"
    <3>1. Life!Move({t}, "ready")
      BY <1>3, <2>3, MovedPhase DEF Runnable
    <3>2. QED BY <2>1, <3>1 DEF Life!GiveUp
  <2>4. CASE st = "completed"
    <3>1. Life!Move({t}, "completed")
      BY <1>3, <2>4, MovedPhase DEF Terminal
    <3>2. QED BY <2>1, <3>1 DEF Life!Complete
  <2>5. QED BY <1>3, <2>2, <2>3, <2>4
<1>4. ASSUME NEW S \in SUBSET Task, \A t \in S : taskState[t] \in Parked,
             Moved(S, "ready")
      PROVE  Life!Resume(S)
  <2>1. Life!Move(S, "ready")
    BY <1>4, MovedPhase DEF Runnable
  <2>2. \A t \in S : PhaseOf(t) = "parked"
    BY <1>0, <1>4, PhaseFacts
  <2>3. QED BY <2>1, <2>2 DEF Life!Resume, Life!In
<1>5. ASSUME NEW S \in SUBSET Task, \A t \in S : Live(t),
             NEW st \in {"cancelled", "failed"}, Moved(S, st)
      PROVE  Life!End(S)
  <2>1. Life!Move(S, st)
    BY <1>5, MovedPhase DEF Terminal
  <2>2. \A t \in S : PhaseOf(t) \in {"ready", "running", "parked"}
    BY <1>0, <1>5, PhaseFacts
  <2>3. Life!Move(S, "cancelled") \/ Life!Move(S, "failed")
    BY <2>1
  <2>4. QED BY <2>2, <2>3 DEF Life!End, Life!Living
<1>6. QED BY <1>1, <1>2, <1>3, <1>4, <1>5 DEF StateStep, Life!Next

\* The task a creation adds is the least one that is not there yet.
LEMMA CreatedIsLife ==
  ASSUME IInv, FamilyExact, NEW a \in Actor, NEW p, NEW r, Created(a, p, r)
  PROVE  Life!Create(nextId)
<1>1. /\ nextId \in Task /\ taskState[nextId] = None
      /\ taskState' = [taskState EXCEPT ![nextId] = "new"]
  BY BoundsAssumption DEF Created, NewTask, IInv, TypeOK, Task
<1>2. Life!Move({nextId}, "ready")
  <2>1. PICK n \in Task : n = nextId
    BY <1>1
  <2>2. Moved({n}, "new")
    BY <1>1, <2>1, MovedOne DEF IInv
  <2>3. Life!Move({n}, "ready")
    BY <2>2, MovedPhase DEF Runnable
  <2>4. QED BY <2>1, <2>3
<1>3. PhaseOf(nextId) = "unborn"
  BY <1>1, PhaseFacts DEF IInv
<1>4. \A u \in Task : PhaseOf(u) = "unborn" => nextId <= u
  <2>1. \A u \in Task : PhaseOf(u) = "unborn" => ~ (u < nextId)
    BY PhaseFacts DEF FamilyExact, IInv
  <2>2. QED BY <1>1, <2>1 DEF Task
<1>5. QED BY <1>1, <1>2, <1>3, <1>4 DEF Life!Create, Life!In

\* Every operation of the runtime, whole, is one step of the life of one task
\* or of a set of tasks that move together, or leaves all of them alone
\* (Model.lean, step).
THEOREM ImplementsTaskLife == Spec => TaskLifecycle
<1>1. Init => Life!Init
  <2>1. SUFFICES ASSUME Init PROVE \A t \in Task : PhaseOf(t) = "unborn"
    BY DEF Life!Init
  <2>2. \A t \in Task : taskState[t] = None
    BY <2>1 DEF Init
  <2>3. QED BY <2>2, AbsentAssumption DEF PhaseOf, TaskState
<1>2. FamilyInv /\ [Next]_vars => [Life!Next]_[t \in Task |-> PhaseOf(t)]
  <2>1. SUFFICES ASSUME FamilyInv, [Next]_vars
                 PROVE  [Life!Next]_[t \in Task |-> PhaseOf(t)]
    OBVIOUS
  <2>2. IInv /\ FamilyExact
    BY <2>1 DEF FamilyInv
  <2>3. ASSUME NEW a \in Actor, NEW p \in Task \cup {None}, NEW r \in Task \cup {None},
               Created(a, p, r)
        PROVE  \E t \in Task : Life!Create(t)
    <3>1. Life!Create(nextId)
      BY <2>2, <2>3, CreatedIsLife
    <3>2. nextId \in Task
      BY <2>2, <2>3, BoundsAssumption DEF Created, NewTask, IInv, TypeOK, Task
    <3>3. QED BY <3>1, <3>2
  <2>4. QED BY <2>1, <2>2, <2>3, StateStepIsLife, TaskSteps DEF Life!Next
<1>3. QED BY <1>1, <1>2, FamilyInductive, PTL DEF Spec, TaskLifecycle, Life!Spec

-----------------------------------------------------------------------------
(* Leases. *)

\* An actor that is closed has been there: closeActor asks for its mailbox.
ClosedKnown == \A a \in Actor : actorStatus[a] = "closed" => mailboxes[a] # None

\* The owners that are gone are those that were there and cannot use what they
\* hold any more.
LEMMA GoneFacts ==
  TypeOK => /\ GoneOwners \subseteq Owner
            /\ \A o \in Owner : o \in GoneOwners <=> Known(o) /\ ~ OwnerOpen(o)
<1>1. SUFFICES ASSUME TypeOK
               PROVE  /\ GoneOwners \subseteq Owner
                      /\ \A o \in Owner : o \in GoneOwners <=> Known(o) /\ ~ OwnerOpen(o)
  OBVIOUS
<1>2. GoneOwners \subseteq Owner
  BY DEF GoneOwners, Owner
<1>3. ASSUME NEW o \in Owner
      PROVE  o \in GoneOwners <=> Known(o) /\ ~ OwnerOpen(o)
  <2>1. CASE o.kind = "task" /\ o.id \in Task /\ o = TaskOwner(o.id)
    <3>1. o \in GoneOwners <=> taskState[o.id] \in Terminal
      BY <2>1 DEF GoneOwners, TaskOwner, ActorOwner
    <3>2. None \notin Terminal
      BY AbsentAssumption DEF TaskState
    <3>3. QED BY <2>1, <3>1, <3>2 DEF Known, OwnerOpen, Live
  <2>2. CASE o.kind = "actor" /\ o.id \in Actor /\ o = ActorOwner(o.id)
    <3>1. o \in GoneOwners <=> mailboxes[o.id] # None /\ actorStatus[o.id] = "closed"
      BY <2>2 DEF GoneOwners, TaskOwner, ActorOwner
    <3>2. actorStatus[o.id] \in {"active", "closed"}
      BY <1>1, <2>2 DEF TypeOK
    <3>3. QED BY <2>2, <3>1, <3>2 DEF Known, OwnerOpen
  <2>3. QED BY <2>1, <2>2, OwnerCases
<1>4. QED BY <1>2, <1>3

\* The same of the state after a step.
LEMMA GoneFactsNext ==
  TypeOK' => /\ GoneOwners' \subseteq Owner
             /\ \A o \in Owner : o \in GoneOwners' <=> Known(o)' /\ ~ OwnerOpen(o)'
<1>1. (TypeOK => /\ GoneOwners \subseteq Owner
                 /\ \A o \in Owner : o \in GoneOwners <=> Known(o) /\ ~ OwnerOpen(o))'
  BY GoneFacts, PTL
<1>2. QED BY <1>1

\* A closed actor has a mailbox, whatever the step (Model.lean, closeActor).
LEMMA ClosedStep ==
  ASSUME TypeOK, ClosedKnown, [Next]_vars
  PROVE  ClosedKnown'
<1>1. \/ UNCHANGED actorStatus
      \/ \E a \in Actor : /\ mailboxes[a] # None
                          /\ actorStatus' = [actorStatus EXCEPT ![a] = "closed"]
  <2>1. CASE SchedulerNext \/ TimeNext
    BY <2>1 DEF SchedulerNext, Schedule, Dispatch, Yield, Complete, Cancel, Fail, Terminate,
                CancelTree, TimeNext, Sleep, Tick, Wake, statusVars
  <2>2. CASE CreationNext
    BY <2>2 DEF CreationNext, Spawn, SpawnChild, RestartOne, NewTask, statusVars
  <2>3. CASE MessageNext
    BY <2>3 DEF MessageNext, Inject, Send, Deliver, Receive, ReceiveByOccurrence,
                ReceiveFrom, ReceiveWanted, ReceiveUntil, TakeFirst, Park, statusVars
  <2>4. CASE AdmissionNext \/ MetaNext
    BY <2>4 DEF AdmissionNext, CloseActor, Shutdown, StopWhenIdle, StopWhenDrained, Stop,
                MetaNext, SetPriority, SetDeadline, taskVars, statusVars
  <2>5. CASE ResourceNext \/ UNCHANGED vars
    BY <2>5 DEF ResourceNext, Acquire, AcquireActor, Release, ReleaseActor, Finalize,
                ledgerOnly, vars, statusVars
  <2>6. QED BY <2>1, <2>2, <2>3, <2>4, <2>5 DEF Next
<1>2. \A a \in Actor : mailboxes[a] # None => mailboxes'[a] # None
  BY MailboxStays
<1>3. QED BY <1>1, <1>2 DEF ClosedKnown, TypeOK

\* The owners of G that are open leave; what they held is marked with them.
LEMMA GoneIsLeave ==
  ASSUME LedgerInv, TypeOK', NEW G \in SUBSET Owner, MarkClosing(G),
         \A o \in Owner : /\ OwnerOpen(o)' <=> OwnerOpen(o) /\ o \notin G
                          /\ Known(o)' <=> Known(o)
  PROVE  \E S \in SUBSET Owner : Lease!Leave(S)
<1> DEFINE S == {o \in G : OwnerOpen(o)}
<1>1. TypeOK /\ LedgerExact /\ OwnersKnown
  BY DEF LedgerInv, IInv
<1>2. S \in SUBSET Owner /\ S \subseteq {o \in Owner : OwnerOpen(o)}
  OBVIOUS
<1>3. {o \in Owner : OwnerOpen(o)}' = {o \in Owner : OwnerOpen(o)} \ S
  OBVIOUS
<1>4. GoneOwners' = GoneOwners \cup S
  <2>1. /\ GoneOwners \subseteq Owner
        /\ \A o \in Owner : o \in GoneOwners <=> Known(o) /\ ~ OwnerOpen(o)
    BY <1>1, GoneFacts
  <2>2. /\ GoneOwners' \subseteq Owner
        /\ \A o \in Owner : o \in GoneOwners' <=> Known(o)' /\ ~ OwnerOpen(o)'
    BY GoneFactsNext
  <2>3. \A o \in Owner : OwnerOpen(o) => Known(o)
    BY AbsentAssumption DEF OwnerOpen, Known, Live
  <2>4. QED BY <2>1, <2>2, <2>3
<1>5. \A r \in Resource :
        InState(r, "allocated") /\ resources[r].owner \in G
          <=> \E o \in S : resources[r] = [owner |-> o, state |-> "allocated"]
  <2>1. SUFFICES ASSUME NEW r \in Resource
                 PROVE  InState(r, "allocated") /\ resources[r].owner \in G
                          <=> \E o \in S : resources[r] = [owner |-> o, state |-> "allocated"]
    OBVIOUS
  <2>2. ASSUME InState(r, "allocated"), resources[r].owner \in G
        PROVE  \E o \in S : resources[r] = [owner |-> o, state |-> "allocated"]
    <3>1. OwnerOpen(resources[r].owner)
      BY <1>1, <2>2 DEF LedgerExact
    <3>2. resources[r] = [owner |-> resources[r].owner, state |-> "allocated"]
      BY <1>1, <2>2, RecordFacts DEF InState
    <3>3. QED BY <2>2, <3>1, <3>2
  <2>3. ASSUME NEW o \in S, resources[r] = [owner |-> o, state |-> "allocated"]
        PROVE  InState(r, "allocated") /\ resources[r].owner \in G
    <3>1. resources[r] \in Record
      BY <1>2, <2>3 DEF Record
    <3>2. QED BY <2>3, <3>1, NoRecordAssumption DEF InState
  <2>4. QED BY <2>2, <2>3
<1> HIDE DEF S
<1>6. ASSUME NEW r \in Resource, InState(r, "allocated")
      PROVE  [resources[r] EXCEPT !.state = "closing"]
               = [owner |-> resources[r].owner, state |-> "closing"]
  <2>1. resources[r] = [owner |-> resources[r].owner, state |-> resources[r].state]
    BY <1>1, <1>6, RecordFacts DEF InState
  <2>2. PICK x, y : resources[r] = [owner |-> x, state |-> y]
    BY <2>1
  <2>3. [[owner |-> x, state |-> y] EXCEPT !.state = "closing"]
          = [owner |-> x, state |-> "closing"]
    OBVIOUS
  <2>4. resources[r].owner = x
    BY <2>2
  <2>5. QED BY <2>2, <2>3, <2>4
<1>7. resources' = [r \in Resource |->
        IF \E o \in S : resources[r] = [owner |-> o, state |-> "allocated"]
        THEN [owner |-> resources[r].owner, state |-> "closing"]
        ELSE resources[r]]
  BY <1>5, <1>6 DEF MarkClosing
<1>8. Lease!Leave(S)
  BY <1>2, <1>3, <1>4, <1>7 DEF Lease!Leave
<1>9. QED BY <1>2, <1>8

\* An owner that is new with a created task is open, and nobody else changes.
LEMMA CreatedIsArrive ==
  ASSUME LedgerInv, ClosedKnown, TypeOK',
         NEW a \in Actor, NEW p \in Task \cup {None}, NEW q \in Task \cup {None},
         Created(a, p, q)
  PROVE  \E S \in SUBSET Owner : Lease!Arrive(S)
<1> DEFINE S == {o \in Owner : OwnerOpen(o)' /\ ~ Known(o)}
<1>1. TypeOK /\ UNCHANGED resources
  BY DEF LedgerInv, IInv, Created, NewTask, ledgerVars
<1>2. \A o \in Owner : Known(o) => Known(o)' /\ (OwnerOpen(o)' <=> OwnerOpen(o))
  BY <1>1, CreatedKnown
<1>3. ASSUME NEW o \in Owner, ~ Known(o), Known(o)' PROVE OwnerOpen(o)'
  <2>1. /\ taskState' = [taskState EXCEPT ![nextId] = "new"]
        /\ mailboxes' = WithMailbox(a) /\ UNCHANGED actorStatus
    BY DEF Created, NewTask, statusVars
  <2>2. CASE o.kind = "task" /\ o.id \in Task
    <3>1. taskState'[o.id] = "new"
      BY <1>1, <1>3, <2>1, <2>2 DEF Known, TypeOK
    <3>2. "new" \notin Terminal \cup {None}
      BY AbsentAssumption DEF TaskState, Runnable, Terminal
    <3>3. QED BY <2>2, <3>1, <3>2 DEF OwnerOpen, Live
  <2>3. CASE o.kind = "actor" /\ o.id \in Actor
    <3>1. mailboxes[o.id] = None /\ mailboxes'[o.id] # None
      BY <1>3, <2>3 DEF Known
    <3>2. actorStatus'[o.id] = "active"
      BY <1>1, <2>1, <2>3, <3>1 DEF ClosedKnown, TypeOK
    <3>3. QED BY <2>3, <3>1, <3>2 DEF OwnerOpen
  <2>4. QED BY <2>2, <2>3, OwnerCases
<1>4. \A o \in Owner : /\ OwnerOpen(o) => Known(o)
                       /\ OwnerOpen(o)' => Known(o)'
  BY DEF OwnerOpen, Known, Live
<1>5. /\ GoneOwners \subseteq Owner
      /\ \A o \in Owner : o \in GoneOwners <=> Known(o) /\ ~ OwnerOpen(o)
  BY <1>1, GoneFacts
<1>6. /\ GoneOwners' \subseteq Owner
      /\ \A o \in Owner : o \in GoneOwners' <=> Known(o)' /\ ~ OwnerOpen(o)'
  BY GoneFactsNext
<1>7. GoneOwners' = GoneOwners
  BY <1>2, <1>3, <1>5, <1>6
<1>8. {o \in Owner : OwnerOpen(o)}' = {o \in Owner : OwnerOpen(o)} \cup S
  BY <1>2, <1>4
<1>9. S \cap ({o \in Owner : OwnerOpen(o)} \cup GoneOwners) = {}
  BY <1>4, <1>5
<1>10. Lease!Arrive(S)
  BY <1>1, <1>7, <1>8, <1>9 DEF Lease!Arrive
<1>11. QED BY <1>10

\* Every step of the runtime is a step of Leases or leaves its view alone.
LEMMA LedgerStepIsLease ==
  ASSUME LedgerInv, ClosedKnown, TypeOK', [Next]_vars
  PROVE  \/ \E S \in SUBSET Owner : Lease!Arrive(S) \/ Lease!Leave(S)
         \/ \E r \in Resource, o \in Owner :
              Lease!Grant(r, o) \/ Lease!HandBack(r, o) \/ Lease!Reclaim(r, o)
         \/ UNCHANGED << {o \in Owner : OwnerOpen(o)}, GoneOwners, resources >>
<1>0. IInv /\ TypeOK /\ LedgerExact /\ OwnersKnown
  BY DEF LedgerInv, IInv
<1>1. ASSUME NEW D \in SUBSET Task, Ended(D)
      PROVE  \E S \in SUBSET Owner : Lease!Leave(S)
  <2> DEFINE G == {TaskOwner(t) : t \in D}
  <2>1. /\ G \in SUBSET Owner
        /\ \A o \in Owner : OwnerOpen(o)' <=> OwnerOpen(o) /\ o \notin G
        /\ \A t \in Task : taskState[t] # None => taskState'[t] # None
    BY <1>1, EndedOwners
  <2>2. MarkClosing(G) /\ UNCHANGED mailboxes
    BY <1>1 DEF Ended
  <2> HIDE DEF G
  <2>3. \A t \in Task : taskState'[t] # None => taskState[t] # None
    BY <1>1 DEF Ended
  <2>4. ASSUME NEW o \in Owner PROVE Known(o)' <=> Known(o)
    BY <2>1, <2>2, <2>3, OwnerCases DEF Known
  <2>5. QED BY <2>1, <2>2, <2>4, GoneIsLeave
<1>2. ASSUME NEW a \in Actor, CloseActor(a)
      PROVE  \E S \in SUBSET Owner : Lease!Leave(S)
  <2>1. /\ {ActorOwner(a)} \in SUBSET Owner /\ MarkClosing({ActorOwner(a)})
        /\ UNCHANGED << taskState, mailboxes >>
        /\ \A o \in Owner : OwnerOpen(o)' <=> OwnerOpen(o) /\ o \notin {ActorOwner(a)}
    BY <1>2, ClosedOwners
  <2>2. \A o \in Owner : Known(o)' <=> Known(o)
    BY <2>1 DEF Known
  <2>3. QED BY <2>1, <2>2, GoneIsLeave
<1>3. ASSUME NEW a \in Actor, NEW p \in Task \cup {None}, NEW q \in Task \cup {None},
             Created(a, p, q)
      PROVE  \E S \in SUBSET Owner : Lease!Arrive(S)
  BY <1>3, CreatedIsArrive
<1>4. ASSUME UNCHANGED ledgerOnly
      PROVE  UNCHANGED << {o \in Owner : OwnerOpen(o)}, GoneOwners >>
  <2>1. UNCHANGED << taskState, mailboxes, actorStatus >>
    BY <1>4 DEF ledgerOnly, taskVars, mailVars, statusVars
  <2>2. QED BY <2>1 DEF OwnerOpen, Live, GoneOwners
<1>5. ASSUME NEW o \in Owner, OwnerOpen(o), Allocate(o), UNCHANGED ledgerOnly
      PROVE  \E r \in Resource : Lease!Grant(r, o)
  <2>1. PICK r \in Resource : r = nextResourceId
    BY <1>0, <1>5, Granted
  <2>2. \A s \in Resource : resources[s] # None <=> s < r
    BY <1>0, <2>1 DEF LedgerExact
  <2>3. resources[r] = None
    BY <2>2 DEF Resource
  <2>4. resources' = [resources EXCEPT ![r] = [owner |-> o, state |-> "allocated"]]
    BY <1>5, <2>1 DEF Allocate
  <2>5. Lease!Grant(r, o)
    BY <1>4, <1>5, <2>2, <2>3, <2>4 DEF Lease!Grant
  <2>6. QED BY <2>5
<1>6. ASSUME NEW r \in Resource, NEW o \in Owner, NEW from \in {"allocated", "closing"},
             Reclaim(r, o, from), UNCHANGED ledgerOnly
      PROVE  Lease!HandBack(r, o) \/ Lease!Reclaim(r, o)
  <2>1. /\ resources[r] # None /\ resources[r].owner = o /\ resources[r].state = from
        /\ resources' = [resources EXCEPT ![r].state = "released"]
    BY <1>6 DEF Reclaim, InState
  <2>2. resources[r] = [owner |-> o, state |-> from]
    BY <1>0, <2>1, RecordFacts
  <2>3. [resources[r] EXCEPT !.state = "released"] = [owner |-> o, state |-> "released"]
    <3>1. [[owner |-> o, state |-> from] EXCEPT !.state = "released"]
            = [owner |-> o, state |-> "released"]
      OBVIOUS
    <3>2. QED BY <2>2, <3>1
  <2>4. resources' = [resources EXCEPT ![r] = [owner |-> o, state |-> "released"]]
    BY <2>1, <2>3
  <2>5. CASE from = "allocated"
    <3>1. OwnerOpen(o)
      BY <1>0, <2>1, <2>5 DEF LedgerExact, InState
    <3>2. QED BY <1>4, <1>6, <2>2, <2>4, <2>5, <3>1 DEF Lease!HandBack
  <2>6. CASE from = "closing"
    <3>1. ~ OwnerOpen(o) /\ Known(o)
      BY <1>0, <2>1, <2>6 DEF LedgerExact, OwnersKnown, InState
    <3>2. o \in GoneOwners
      BY <1>0, <3>1, GoneFacts
    <3>3. QED BY <1>4, <1>6, <2>2, <2>4, <2>6, <3>2 DEF Lease!Reclaim
  <2>7. QED BY <1>6, <2>5, <2>6
<1>7. ASSUME OwnersStay
      PROVE  UNCHANGED << {o \in Owner : OwnerOpen(o)}, GoneOwners, resources >>
  <2>1. \A o \in Owner : /\ Known(o)' <=> Known(o)
                         /\ OwnerOpen(o)' <=> OwnerOpen(o)
    BY <1>7, StayedKnown
  <2>2. {o \in Owner : OwnerOpen(o)}' = {o \in Owner : OwnerOpen(o)}
    BY <2>1
  <2>3. GoneOwners' = GoneOwners
    BY <1>0, <2>1, GoneFacts, GoneFactsNext
  <2>4. QED BY <1>7, <2>2, <2>3 DEF OwnersStay
<1>8. QED BY <1>0, <1>1, <1>2, <1>3, <1>5, <1>6, <1>7, LedgerSteps

\* Whichever way a task or an actor ends, its leases become reclaimable in the
\* same step, and nothing it held is granted or handed back afterwards
\* (Ledger.lean, markClosingIfOwner; Model.lean: complete, cancel, fail,
\* cancelTree, closeActor, acquire, release, finalize).
THEOREM ImplementsLeases == Spec => LeaseDiscipline
<1>1. Init => Lease!Init
  <2>1. SUFFICES ASSUME Init PROVE Lease!Init
    OBVIOUS
  <2>2. /\ \A t \in Task : taskState[t] = None
        /\ \A a \in Actor : mailboxes[a] = None
        /\ resources = [r \in Resource |-> None]
    BY <2>1 DEF Init, LedgerInit
  <2>3. None \notin Terminal
    BY AbsentAssumption DEF TaskState
  <2>4. GoneOwners = {}
    BY <2>2, <2>3 DEF GoneOwners
  <2>5. ASSUME NEW o \in Owner PROVE ~ OwnerOpen(o)
    BY <2>2, OwnerCases DEF OwnerOpen, Live
  <2>6. QED BY <2>2, <2>4, <2>5 DEF Lease!Init
<1>2. LedgerInv /\ ClosedKnown /\ TypeOK' /\ [Next]_vars => [Lease!Next]_(Lease!leaseVars)
  BY LedgerStepIsLease DEF Lease!Next, Lease!leaseVars
<1>3. Init => ClosedKnown
  BY DEF Init, ClosedKnown
<1>4. TypeOK /\ ClosedKnown /\ [Next]_vars => ClosedKnown'
  BY ClosedStep
<1>5. LedgerInv => TypeOK
  BY DEF LedgerInv, IInv
<1>6. QED BY <1>1, <1>2, <1>3, <1>4, <1>5, LedgerInductive, PTL
          DEF Spec, LeaseDiscipline, Lease!Spec

-----------------------------------------------------------------------------
(* Counting workers. *)

\* Sets of tasks are finite.
LEMMA FiniteTasks ==
  ASSUME NEW A \in SUBSET Task
  PROVE  IsFiniteSet(A) /\ Cardinality(A) \in Nat
<1>1. IsFiniteSet(Task)
  BY BoundsAssumption, FS_Interval DEF Task
<1>2. QED BY <1>1, FS_Subset, FS_CardinalityType

\* A set of tasks is no larger than one that contains it.
LEMMA MoreTasks ==
  ASSUME NEW A \in SUBSET Task, NEW B \in SUBSET Task, A \subseteq B
  PROVE  Cardinality(A) <= Cardinality(B)
BY FiniteTasks, FS_Subset

\* One task more makes a set larger by one.
LEMMA OneTaskMore ==
  ASSUME NEW A \in SUBSET Task, NEW x \in Task, x \notin A
  PROVE  Cardinality(A \cup {x}) = Cardinality(A) + 1
BY FiniteTasks, FS_AddElement

\* A worker that holds a message is running.
ServingRuns == serving \subseteq Task /\ \A t \in serving : taskState[t] = "running"

\* The inductive invariant of the pool.
PoolInv == FamilyInv /\ ServingRuns /\ NoLostWakeup

\* The account of one actor.
Balanced(a) == Receivers(a) # {} => Len(mailboxes[a]) <= Cardinality(Askers(a))

\* Nothing comes into the mailbox, nobody parks at it, nobody stops asking.
LEMMA QuietBalance ==
  ASSUME NEW a, Balanced(a),
         mailboxes'[a] = mailboxes[a],
         Receivers(a)' \subseteq Receivers(a),
         Askers(a) \subseteq Askers(a)'
  PROVE  Balanced(a)'
<1>1. Askers(a) \in SUBSET Task /\ Askers(a)' \in SUBSET Task
  BY DEF Askers
<1>2. /\ Cardinality(Askers(a)) \in Nat /\ Cardinality(Askers(a)') \in Nat
      /\ Cardinality(Askers(a)) <= Cardinality(Askers(a)')
  BY <1>1, FiniteTasks, MoreTasks
<1>3. SUFFICES ASSUME Receivers(a)' # {}
               PROVE  Len(mailboxes'[a]) <= Cardinality(Askers(a)')
  BY DEF Balanced
<1>4. Len(mailboxes[a]) <= Cardinality(Askers(a))
  BY <1>3 DEF Balanced
<1>5. QED BY <1>2, <1>4

-----------------------------------------------------------------------------
(* The steps of the pool. *)

\* Every step of the pool is a step of the runtime.
LEMMA PoolIsRuntime ==
  ASSUME [PoolNext]_poolVars
  PROVE  [Next]_vars
<1>1. CASE Turn
  BY <1>1 DEF Turn, Next, SchedulerNext
<1>2. ASSUME NEW t \in Task, Ask(t) PROVE Next
  BY <1>2 DEF Ask, Next, MessageNext
<1>3. ASSUME NEW t \in Task, Forward(t) PROVE Next
  BY <1>3 DEF Forward, Next, MessageNext
<1>4. ASSUME NEW t \in Task, Serve(t) \/ End(t) PROVE Next
  BY <1>4 DEF Serve, End, Next, SchedulerNext
<1>5. CASE Environment
  BY <1>5 DEF Environment, Next, CreationNext, MessageNext, AdmissionNext, TimeNext
<1>6. CASE UNCHANGED poolVars
  BY <1>6 DEF poolVars
<1>7. QED BY <1>1, <1>2, <1>3, <1>4, <1>5, <1>6 DEF PoolNext

\* Which tasks ask and which wait, after tasks of S have gone to state st and
\* the workers of R hold messages. The owners stay as they are.
LEMMA MovedWorkers ==
  ASSUME NEW S \in SUBSET Task, NEW st, Moved(S, st), UNCHANGED taskOwner, NEW a
  PROVE  /\ Receivers(a)' = {t \in Task :
              /\ (IF t \in S THEN st ELSE taskState[t]) \in {"waiting", "waitingTimed"}
              /\ taskOwner[t] = a}
         /\ Askers(a)' = {t \in Task \ serving' :
              /\ taskOwner[t] = a
              /\ (IF t \in S THEN st ELSE taskState[t]) \in Runnable \cup {"running"}}
BY DEF Moved, Receivers, Askers

\* Whoever waits for a message does not ask for one, and the other way round;
\* a worker that holds one does neither.
LEMMA WorkerKinds ==
  ASSUME ServingRuns, NEW a
  PROVE  /\ Receivers(a) \cap Askers(a) = {}
         /\ Receivers(a) \cap serving = {} /\ Askers(a) \cap serving = {}
         /\ Receivers(a) \in SUBSET Task /\ Askers(a) \in SUBSET Task
BY DEF ServingRuns, Receivers, Askers, Runnable

\* A delivery adds one message, and one worker that asks if one was parked
\* (Mailbox.lean, wakeOne; Model.lean: inject, send).
LEMMA DeliveryBalance ==
  ASSUME IInv, ServingRuns, NEW b \in Actor, NEW src \in Actor \cup {None},
         Deliver(b, src), UNCHANGED serving, NEW a \in Actor, Balanced(a)
  PROVE  ServingRuns' /\ Balanced(a)'
<1>0. TypeOK
  BY DEF IInv
<1>1. WakeOneOf(b) /\ UNCHANGED taskOwner
  BY DEF Deliver, identityVars
<1>2. /\ mailboxes[b] \in Seq(Envelope)
      /\ mailboxes'[b] = Append(mailboxes[b], [occurrence |-> nextMsgId, source |-> src])
      /\ a # b => mailboxes'[a] = mailboxes[a]
  BY <1>0, DeliveredMailbox
<1>3. CASE UNCHANGED taskState /\ Receivers(b) = {}
  <2>1. Receivers(a)' = Receivers(a) /\ Askers(a)' = Askers(a) /\ ServingRuns'
    BY <1>1, <1>3 DEF Receivers, Askers, ServingRuns
  <2>2. CASE a = b
    BY <1>3, <2>1, <2>2 DEF Balanced
  <2>3. CASE a # b
    BY <1>2, <2>1, <2>3, QuietBalance
  <2>4. QED BY <2>2, <2>3
<1>4. ASSUME NEW w \in Receivers(b), Moved({w}, "ready")
      PROVE  ServingRuns' /\ Balanced(a)'
  <2>1. /\ w \in Task /\ taskOwner[w] = b /\ w \notin serving
        /\ taskState[w] \in {"waiting", "waitingTimed"}
    BY WorkerKinds DEF Receivers
  <2>2. ServingRuns'
    BY <1>4, <2>1 DEF ServingRuns, Moved
  <2>3. /\ Receivers(a)' \subseteq Receivers(a)
        /\ Askers(a) \subseteq Askers(a)'
        /\ a = b => w \in Askers(a)' /\ w \notin Askers(a)
    BY <1>1, <1>4, <2>1, MovedWorkers DEF Receivers, Askers, Runnable
  <2>4. CASE a = b
    <3>1. Len(mailboxes'[a]) = Len(mailboxes[a]) + 1 /\ Len(mailboxes[a]) \in Nat
      BY <1>2, <2>4, AppendProperties, LenProperties
    <3>2. Len(mailboxes[a]) <= Cardinality(Askers(a))
      BY <1>4, <2>4 DEF Balanced
    <3>3. Askers(a) \in SUBSET Task /\ Askers(a)' \in SUBSET Task
      BY DEF Askers
    <3>4. /\ Cardinality(Askers(a)) \in Nat /\ Cardinality(Askers(a)') \in Nat
          /\ Cardinality(Askers(a)) + 1 <= Cardinality(Askers(a)')
      <4>1. Askers(a) \cup {w} \subseteq Askers(a)' /\ w \notin Askers(a)
        BY <2>3, <2>4
      <4>2. Cardinality(Askers(a) \cup {w}) = Cardinality(Askers(a)) + 1
        BY <2>1, <3>3, <4>1, OneTaskMore
      <4>3. QED BY <3>3, <4>1, <4>2, FiniteTasks, MoreTasks
    <3>5. Len(mailboxes'[a]) <= Cardinality(Askers(a)')
      BY <3>1, <3>2, <3>4
    <3>6. QED BY <2>2, <3>5 DEF Balanced
  <2>5. CASE a # b
    BY <1>2, <2>2, <2>3, <2>5, QuietBalance
  <2>6. QED BY <2>4, <2>5
<1>5. QED BY <1>1, <1>3, <1>4, WakeOneOfMoves

\* A receive takes one message and one worker that asks, or the mailbox is
\* empty and the worker parks (Model.lean: receive, receiveUntil).
LEMMA AskBalance ==
  ASSUME IInv, ServingRuns, NEW t \in Task, Ask(t), NEW a \in Actor, Balanced(a)
  PROVE  ServingRuns' /\ Balanced(a)'
<1>0. TypeOK /\ CanReceive(t) /\ UNCHANGED taskOwner
  BY DEF IInv, Ask, Receive, ReceiveWanted, ReceiveUntil, TakeFirst, Park, identityVars
<1>1. /\ taskOwner[t] \in Actor /\ mailboxes[taskOwner[t]] \in Seq(Envelope)
      /\ taskState[t] = "running" /\ t \notin serving
  BY <1>0 DEF CanReceive, IsRunning, Ask, TypeOK
<1>2. CASE TakeFirst(t, Envelope)
  <2>1. /\ mailboxes'[taskOwner[t]] = RemoveFirst(mailboxes[taskOwner[t]], Envelope)
        /\ Elems(mailboxes[taskOwner[t]]) \cap Envelope # {}
        /\ \A b \in Actor \ {taskOwner[t]} : mailboxes'[b] = mailboxes[b]
        /\ UNCHANGED taskState
    BY <1>0, <1>2, TakenMailbox DEF TakeFirst
  <2>2. /\ Len(mailboxes'[taskOwner[t]]) = Len(mailboxes[taskOwner[t]]) - 1
        /\ Len(mailboxes[taskOwner[t]]) \in Nat
    BY <1>1, <2>1, RemoveFirstProperties, LenProperties
  <2>3. serving' = serving \cup {t}
    BY <2>2 DEF Ask
  <2>4. ServingRuns'
    BY <1>1, <2>1, <2>3 DEF ServingRuns
  <2>5. Receivers(a)' = Receivers(a) /\ Askers(a)' = Askers(a) \ {t}
    BY <1>0, <2>1, <2>3 DEF Receivers, Askers
  <2>6. CASE a # taskOwner[t]
    <3>1. t \notin Askers(a)
      BY <2>6 DEF Askers
    <3>2. QED BY <2>1, <2>4, <2>5, <2>6, <3>1, QuietBalance
  <2>7. CASE a = taskOwner[t]
    <3>1. t \in Askers(a)
      BY <1>1, <2>7 DEF Askers
    <3>2. /\ Askers(a) \ {t} \in SUBSET Task /\ Askers(a) \in SUBSET Task
          /\ (Askers(a) \ {t}) \cup {t} = Askers(a)
      BY <3>1 DEF Askers
    <3>3. /\ Cardinality(Askers(a) \ {t}) \in Nat /\ Cardinality(Askers(a)) \in Nat
          /\ Cardinality(Askers(a)) = Cardinality(Askers(a) \ {t}) + 1
      <4>1. Cardinality((Askers(a) \ {t}) \cup {t}) = Cardinality(Askers(a) \ {t}) + 1
        BY <3>2, OneTaskMore
      <4>2. QED BY <3>2, <4>1, FiniteTasks
    <3>4. Receivers(a) # {} => Len(mailboxes'[a]) <= Cardinality(Askers(a)')
      BY <2>2, <2>5, <2>7, <3>3 DEF Balanced
    <3>5. QED BY <2>4, <2>5, <3>4 DEF Balanced
  <2>8. QED BY <2>6, <2>7
<1>3. ASSUME Elems(mailboxes[taskOwner[t]]) = {}, UNCHANGED mailboxes,
             NEW st \in {"waiting", "waitingTimed"}, Moved({t}, st)
      PROVE  ServingRuns' /\ Balanced(a)'
  <2>1. UNCHANGED serving
    BY <1>3 DEF Ask
  <2>2. ServingRuns'
    BY <1>1, <1>3, <2>1 DEF ServingRuns, Moved
  <2>3. CASE a # taskOwner[t]
    <3>1. \A u \in Task : taskOwner[u] = a => taskState'[u] = taskState[u]
      BY <1>3, <2>3 DEF Moved
    <3>2. Receivers(a)' \subseteq Receivers(a) /\ Askers(a) \subseteq Askers(a)'
      BY <1>0, <2>1, <3>1 DEF Receivers, Askers
    <3>3. QED BY <1>3, <2>2, <3>2, QuietBalance
  <2>4. CASE a = taskOwner[t]
    <3>1. Len(mailboxes[a]) = 0
      <4>1. Len(mailboxes[a]) \in Nat
        BY <1>1, <2>4, LenProperties
      <4>2. Len(mailboxes[a]) >= 1 => mailboxes[a][1] \in Elems(mailboxes[a])
        BY <4>1 DEF Elems
      <4>3. QED BY <1>3, <2>4, <4>1, <4>2
    <3>2. Askers(a)' \in SUBSET Task
      BY DEF Askers
    <3>3. Cardinality(Askers(a)') \in Nat
      BY <3>2, FiniteTasks
    <3>4. Len(mailboxes'[a]) <= Cardinality(Askers(a)')
      BY <1>3, <3>1, <3>3
    <3>5. QED BY <2>2, <3>4 DEF Balanced
  <2>5. QED BY <2>3, <2>4
<1>4. CASE Receive(t) /\ ~ TakeFirst(t, Envelope)
  <2>1. Park(t) /\ Elems(mailboxes[taskOwner[t]]) \cap Envelope = {}
    BY <1>4 DEF Receive, ReceiveWanted
  <2>2. Elems(mailboxes[taskOwner[t]]) \subseteq Envelope
    BY <1>1, ElementOfSeq DEF Elems
  <2>3. Moved({t}, "waiting") /\ UNCHANGED mailboxes
    BY <1>0, <2>1, MovedOne DEF Park, mailVars
  <2>4. QED BY <1>3, <2>1, <2>2, <2>3
<1>5. ASSUME NEW d \in Deadline, ReceiveUntil(t, d), ~ TakeFirst(t, Envelope)
      PROVE  ServingRuns' /\ Balanced(a)'
  <2>1. /\ mailboxes[taskOwner[t]] = << >> /\ UNCHANGED mailboxes
        /\ taskState' = [taskState EXCEPT ![t] = "waitingTimed"]
    BY <1>5 DEF ReceiveUntil, mailVars
  <2>2. Elems(<< >>) = {}
    BY DEF Elems
  <2>3. QED BY <1>0, <1>3, <2>1, <2>2, MovedOne
<1>6. QED BY <1>2, <1>4, <1>5 DEF Ask

\* A step that moves tasks and delivers nothing. None of them goes to wait, and
\* those that stop asking did not ask: they were parked or held a message.
LEMMA MovedBalance ==
  ASSUME ServingRuns, NEW S \in SUBSET Task, NEW st, Moved(S, st),
         UNCHANGED << taskOwner, mailboxes >>,
         st \notin {"waiting", "waitingTimed"},
         serving' \subseteq serving, serving' \cap S = {},
         \/ st \in Runnable \cup {"running"}
         \/ \A t \in S : t \in serving \/ taskState[t] \in Parked,
         NEW a \in Actor, Balanced(a)
  PROVE  ServingRuns' /\ Balanced(a)'
<1>1. \A t \in Task : taskState'[t] = IF t \in S THEN st ELSE taskState[t]
  BY DEF Moved
<1>2. ServingRuns'
  BY <1>1 DEF ServingRuns
<1>3. Receivers(a)' \subseteq Receivers(a)
  BY <1>1 DEF Receivers
<1>4. ASSUME NEW t \in Askers(a) PROVE t \in Askers(a)'
  <2>1. /\ t \in Task /\ t \notin serving' /\ taskOwner'[t] = a
        /\ taskState[t] \in Runnable \cup {"running"} /\ taskState[t] \notin Parked
    BY DEF Askers, Runnable, Parked
  <2>2. taskState'[t] \in Runnable \cup {"running"}
    BY <1>1, <1>4, <2>1 DEF Askers
  <2>3. QED BY <2>1, <2>2 DEF Askers
<1>5. QED BY <1>2, <1>3, <1>4, QuietBalance

\* Dispatch, and a worker that is done with its message or ended with it
\* (Model.lean: schedule, yield, complete, cancel, fail).
LEMMA WorkBalance ==
  ASSUME IInv, ServingRuns,
         Turn \/ \E t \in Task : Serve(t) \/ End(t),
         NEW a \in Actor, Balanced(a)
  PROVE  ServingRuns' /\ Balanced(a)'
<1>0. TypeOK
  BY DEF IInv
<1>1. CASE Turn
  <2> DEFINE h == Head(readyQ)
  <2>1. h \in Task /\ taskState[h] \in Runnable /\ h \notin serving
    BY <1>1, HeadIsRunnable DEF Turn, Schedule, Dispatch, CanDispatch, ServingRuns, Runnable
  <2>2. Moved({h}, "running") /\ UNCHANGED << taskOwner, mailboxes, serving >>
    BY <1>0, <1>1, <2>1, MovedOne DEF Turn, Schedule, Dispatch, identityVars, mailVars
  <2> HIDE DEF h
  <2>3. QED BY <2>1, <2>2, MovedBalance
<1>2. ASSUME NEW t \in Task, NEW st \in Terminal \cup Runnable,
             taskState' = [taskState EXCEPT ![t] = st],
             t \in serving \/ taskState[t] \in Parked,
             serving' = serving \ {t}, UNCHANGED << taskOwner, mailboxes >>
      PROVE  ServingRuns' /\ Balanced(a)'
  <2>1. Moved({t}, st)
    BY <1>0, <1>2, MovedOne
  <2>2. st \notin {"waiting", "waitingTimed"}
    BY DEF Terminal, Runnable
  <2>3. QED BY <1>2, <2>1, <2>2, MovedBalance
<1>3. ASSUME NEW t \in Task, Serve(t) PROVE ServingRuns' /\ Balanced(a)'
  BY <1>2, <1>3 DEF Serve, Yield, Complete, Terminal, Runnable, identityVars, mailVars
<1>4. ASSUME NEW t \in Task, End(t) PROVE ServingRuns' /\ Balanced(a)'
  BY <1>2, <1>4 DEF End, Cancel, Fail, Terminate, Terminal, identityVars, mailVars
<1>5. QED BY <1>1, <1>3, <1>4

\* What the workers do not do themselves: new tasks, messages from outside, the
\* clock, admission (Model.lean: spawn, inject, tick, closeActor, shutdown).
LEMMA EnvironmentBalance ==
  ASSUME FamilyInv, ServingRuns, Environment, NEW a \in Actor, Balanced(a)
  PROVE  ServingRuns' /\ Balanced(a)'
<1>0. IInv /\ FamilyExact /\ TypeOK /\ UNCHANGED serving
  BY DEF FamilyInv, IInv, Environment
<1>1. ASSUME NEW b \in Actor, Spawn(b) PROVE ServingRuns' /\ Balanced(a)'
  <2>1. /\ nextId \in Task /\ taskState[nextId] = None
        /\ \A t \in Task \ {nextId} : taskState'[t] = taskState[t] /\ taskOwner'[t] = taskOwner[t]
        /\ taskState'[nextId] = "new"
        /\ mailboxes' = WithMailbox(b)
    BY <1>0, <1>1, BoundsAssumption DEF Spawn, NewTask, TypeOK, Task
  <2>2. None \notin Runnable \cup {"running", "waiting", "waitingTimed"}
    BY AbsentAssumption DEF TaskState, Runnable, Parked
  <2>3. nextId \notin serving /\ nextId \notin Askers(a)
    BY <2>1, <2>2 DEF ServingRuns, Askers
  <2>4. ServingRuns'
    BY <1>0, <2>1, <2>3 DEF ServingRuns
  <2>5. Receivers(a)' \subseteq Receivers(a)
    BY <2>1 DEF Receivers
  <2>6. Askers(a) \subseteq Askers(a)'
    BY <1>0, <2>1, <2>3 DEF Askers
  <2>7. mailboxes[a] # None => mailboxes'[a] = mailboxes[a]
    BY <1>0, <2>1 DEF WithMailbox, TypeOK
  <2>8. mailboxes[a] = None => Receivers(a) = {}
    <3>1. ASSUME NEW t \in Receivers(a) PROVE mailboxes[a] # None
      BY <1>0, NoneAssumption DEF Receivers, FamilyExact
    <3>2. QED BY <3>1
  <2>9. CASE mailboxes[a] = None
    BY <2>4, <2>5, <2>8, <2>9 DEF Balanced
  <2>10. CASE mailboxes[a] # None
    BY <2>4, <2>5, <2>6, <2>7, <2>10, QuietBalance
  <2>11. QED BY <2>9, <2>10
<1>2. ASSUME NEW b \in Actor, Inject(b) PROVE ServingRuns' /\ Balanced(a)'
  BY <1>0, <1>2, DeliveryBalance DEF Inject
<1>3. ASSUME NEW d \in Deadline, Tick(d) PROVE ServingRuns' /\ Balanced(a)'
  <2>1. PICK S \in SUBSET Task :
           /\ Moved(S, "ready")
           /\ \A t \in S : taskState[t] \in {"sleeping", "waitingTimed"}
    BY <1>0, <1>3, TickMoves
  <2>2. serving' \subseteq serving /\ serving' \cap S = {}
    BY <1>0, <2>1 DEF ServingRuns
  <2>3. UNCHANGED << taskOwner, mailboxes >>
    BY <1>3 DEF Tick, identityVars, mailVars
  <2>4. "ready" \notin {"waiting", "waitingTimed"} /\ "ready" \in Runnable
    BY DEF Runnable
  <2>5. QED BY <2>1, <2>2, <2>3, <2>4, MovedBalance
<1>4. CASE (\E b \in Actor : CloseActor(b)) \/ Shutdown
  BY <1>0, <1>4 DEF CloseActor, Shutdown, taskVars, identityVars, mailVars,
                    ServingRuns, Balanced, Receivers, Askers
<1>5. QED BY <1>1, <1>2, <1>3, <1>4 DEF Environment

\* The invariant of the pool is kept.
LEMMA PoolStep ==
  ASSUME PoolInv, [PoolNext]_poolVars
  PROVE  PoolInv'
<1>1. FamilyInv /\ IInv /\ TypeOK /\ ServingRuns /\ \A a \in Actor : Balanced(a)
  BY DEF PoolInv, FamilyInv, IInv, NoLostWakeup, Balanced
<1>2. FamilyInv'
  BY <1>1, PoolIsRuntime, NextTypes, NextExact, FamilyStep DEF FamilyInv, IInv
<1>3. ASSUME NEW t \in Task, Forward(t), NEW a \in Actor
      PROVE  ServingRuns' /\ Balanced(a)'
  <2>1. PICK b \in Actor : Send(t, b)
    BY <1>3 DEF Forward
  <2>2. taskOwner[t] \in Actor
    BY <1>1, <2>1 DEF Send, TypeOK
  <2>3. Deliver(b, taskOwner[t]) /\ UNCHANGED serving
    BY <1>3, <2>1 DEF Send, Forward
  <2>4. QED BY <1>1, <2>2, <2>3, DeliveryBalance
<1>4. ASSUME UNCHANGED poolVars, NEW a \in Actor PROVE ServingRuns' /\ Balanced(a)'
  BY <1>1, <1>4 DEF poolVars, vars, identityVars, mailVars,
                    ServingRuns, Balanced, Receivers, Askers
<1>5. ASSUME NEW a \in Actor PROVE ServingRuns' /\ Balanced(a)'
  BY <1>1, <1>3, <1>4, AskBalance, WorkBalance, EnvironmentBalance DEF PoolNext
<1>6. ServingRuns'
  <2>1. CASE Actor = {}
    <3>1. ASSUME NEW t \in Task PROVE taskState[t] = None /\ ~ CanReceive(t)
      BY <1>1, <2>1 DEF FamilyInv, FamilyExact, TypeOK, CanReceive
    <3>2. ASSUME NEW t \in serving PROVE FALSE
      <4>1. None # "running"
        BY AbsentAssumption DEF TaskState
      <4>2. QED BY <1>1, <3>1, <3>2, <4>1 DEF ServingRuns
    <3>3. serving' \subseteq serving
      <4>1. ASSUME NEW t \in Task, Ask(t) PROVE FALSE
        BY <3>1, <4>1 DEF Ask, Receive, ReceiveWanted, ReceiveUntil
      <4>2. QED BY <4>1 DEF PoolNext, Turn, Forward, Serve, End, Environment, poolVars
    <3>4. QED BY <3>2, <3>3 DEF ServingRuns
  <2>2. QED BY <1>5, <2>1
<1>7. NoLostWakeup'
  BY <1>5 DEF Balanced, NoLostWakeup
<1>8. QED BY <1>2, <1>6, <1>7 DEF PoolInv

\* No wakeup is lost: in every reachable state of any pool, the messages in a
\* mailbox some worker sleeps on are at most as many as the workers of its actor
\* that are going to look into it (Mailbox.lean, wakeOne; the retry contract of
\* docs/src/integration-contract.md, section 4).
THEOREM WakeupsAreKept == PoolSpec => []NoLostWakeup
<1>1. PoolInit => PoolInv
  <2> SUFFICES ASSUME PoolInit PROVE PoolInv
    OBVIOUS
  <2>2. FamilyInv
    BY InitTypes, InitExact, InitFamily DEF PoolInit, FamilyInv, IInv
  <2>3. \A a \in Actor : Receivers(a) = {}
    <3>1. None \notin {"waiting", "waitingTimed"}
      BY AbsentAssumption DEF TaskState, Parked
    <3>2. QED BY <3>1 DEF PoolInit, Init, Receivers
  <2>4. QED BY <2>2, <2>3 DEF PoolInit, PoolInv, ServingRuns, NoLostWakeup
<1>2. PoolInv /\ [PoolNext]_poolVars => PoolInv'
  BY PoolStep
<1>3. PoolInv => NoLostWakeup
  BY DEF PoolInv
<1>4. QED BY <1>1, <1>2, <1>3, PTL DEF PoolSpec

=============================================================================
