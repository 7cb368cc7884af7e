---------------------------- MODULE RuntimeHistory ----------------------------
(***************************************************************************)
(* What a runtime does over time, for every value of the constants: who    *)
(* owns and parents a task, what a mailbox holds, who holds a resource,    *)
(* and what a step may never do to any of them. Everything rests on the    *)
(* inductive invariant of RuntimeInvariants, and on three lemmas that      *)
(* sort the steps by what they do to the tasks, to the mailboxes and to    *)
(* the ledger (TaskSteps, MailSteps, LedgerSteps).                         *)
(***************************************************************************)
EXTENDS RuntimeInvariants

-----------------------------------------------------------------------------
(* What a step does to the tasks. *)

\* The tasks of S go to state st together, the others stay as they are.
Moved(S, st) == taskState' = [t \in Task |-> IF t \in S THEN st ELSE taskState[t]]

\* A task is created on behalf of whoever is entitled to.
Created(a, parent, replaced) ==
  /\ NewTask(a, parent, replaced)
  /\ parent # None => IsRunning(parent)
  /\ replaced # None => /\ parent # None
                        /\ taskParent[replaced] = parent
                        /\ taskState[replaced] = "failed"

\* One task is dispatched; the running one leaves the processor; some parked
\* ones resume; some live ones are ended.
StateStep ==
  \/ UNCHANGED taskState
  \/ \E t \in Task : /\ taskState[t] \in Runnable /\ running = None
                     /\ Moved({t}, "running")
  \/ \E t \in Task : /\ IsRunning(t)
                     /\ \E st \in Parked \cup {"yielded", "completed"} : Moved({t}, st)
  \/ \E S \in SUBSET Task : /\ \A t \in S : taskState[t] \in Parked
                            /\ Moved(S, "ready")
  \/ \E S \in SUBSET Task : /\ \A t \in S : Live(t)
                            /\ \E st \in {"cancelled", "failed"} : Moved(S, st)

\* An assignment to one task moves that task and no other.
LEMMA MovedOne ==
  ASSUME TypeOK, NEW t \in Task, NEW st, taskState' = [taskState EXCEPT ![t] = st]
  PROVE  Moved({t}, st)
  BY DEF TypeOK, Moved

\* The heads of the queues: the next task to run and the next one to wake.
LEMMA HeadIsRunnable ==
  ASSUME IInv, readyQ # << >>
  PROVE  Head(readyQ) \in Task /\ taskState[Head(readyQ)] \in Runnable
<1>1. readyQ \in Seq(Task) /\ Elems(readyQ) = {t \in Task : taskState[t] \in Runnable}
  BY DEF IInv, TypeOK, QueueExact
<1>2. Head(readyQ) \in Elems(readyQ)
  BY <1>1, TailList
<1>3. QED BY <1>1, <1>2

\* The task a delivery wakes is a receiver of that mailbox.
LEMMA HeadIsReceiver ==
  ASSUME IInv, NEW b \in Actor
  PROVE  /\ mailboxWaiters[b] # << >> =>
              LET w == Head(mailboxWaiters[b])
              IN  w \in Task /\ taskState[w] = "waiting" /\ taskOwner[w] = b
         /\ timedMailboxWaiters[b] # << >> =>
              LET w == Head(timedMailboxWaiters[b])
              IN  w \in Task /\ taskState[w] = "waitingTimed" /\ taskOwner[w] = b
<1>1. /\ mailboxWaiters[b] \in Seq(Task) /\ timedMailboxWaiters[b] \in Seq(Task)
      /\ Elems(mailboxWaiters[b]) =
           {t \in Task : taskState[t] = "waiting" /\ taskOwner[t] = b}
      /\ Elems(timedMailboxWaiters[b]) =
           {t \in Task : taskState[t] = "waitingTimed" /\ taskOwner[t] = b}
  BY DEF IInv, TypeOK, WaitersExact
<1>2. /\ mailboxWaiters[b] # << >> => Head(mailboxWaiters[b]) \in Elems(mailboxWaiters[b])
      /\ timedMailboxWaiters[b] # << >> =>
           Head(timedMailboxWaiters[b]) \in Elems(timedMailboxWaiters[b])
  BY <1>1, TailList
<1>3. QED BY <1>1, <1>2

\* The three operations that create a task share one update, and differ in who
\* may ask for it (Model.lean: spawn, spawnChild, restartOne).
LEMMA CreationSteps ==
  ASSUME CreationNext
  PROVE  \E a \in Actor, p, r \in Task \cup {None} : Created(a, p, r)
<1>1. ASSUME NEW a \in Actor, Spawn(a) PROVE Created(a, None, None)
  BY <1>1 DEF Spawn, Created
<1>2. ASSUME NEW t \in Task, NEW a \in Actor, SpawnChild(t, a)
      PROVE  Created(a, t, None)
  BY <1>2 DEF SpawnChild, Created
<1>3. ASSUME NEW p \in Task, NEW c \in Task, NEW a \in Actor, RestartOne(p, c, a)
      PROVE  Created(a, p, c)
  BY <1>3, NoneAssumption DEF RestartOne, Created, Task
<1>4. QED BY <1>1, <1>2, <1>3 DEF CreationNext

\* A delivery wakes nobody, or one receiver (Mailbox.lean, wakeOne).
LEMMA WakeOneOfMoves ==
  ASSUME IInv, NEW b \in Actor, WakeOneOf(b)
  PROVE  \/ UNCHANGED taskState /\ Receivers(b) = {}
         \/ \E w \in Receivers(b) : Moved({w}, "ready")
<1>0. ASSUME NEW w \in Task, WakeWaiter(w) PROVE Moved({w}, "ready")
  BY <1>0, MovedOne DEF WakeWaiter, IInv
<1>1. CASE mailboxWaiters[b] # << >>
  <2> DEFINE w == Head(mailboxWaiters[b])
  <2>1. w \in Task /\ taskState[w] = "waiting" /\ taskOwner[w] = b /\ WakeWaiter(w)
    BY <1>1, HeadIsReceiver DEF WakeOneOf
  <2> HIDE DEF w
  <2>2. QED BY <1>0, <2>1 DEF Receivers
<1>2. CASE mailboxWaiters[b] = << >> /\ timedMailboxWaiters[b] # << >>
  <2> DEFINE w == Head(timedMailboxWaiters[b])
  <2>1. /\ w \in Task /\ taskState[w] = "waitingTimed" /\ taskOwner[w] = b
        /\ WakeWaiter(w)
    BY <1>2, HeadIsReceiver DEF WakeOneOf
  <2> HIDE DEF w
  <2>2. QED BY <1>0, <2>1 DEF Receivers
<1>3. CASE mailboxWaiters[b] = << >> /\ timedMailboxWaiters[b] = << >>
  <2>1. Elems(<< >>) = {}
    BY DEF Elems
  <2>2. Receivers(b) = {}
    BY <1>3, <2>1 DEF IInv, WaitersExact, Receivers
  <2>3. QED BY <1>3, <2>2 DEF WakeOneOf
<1>4. QED BY <1>1, <1>2, <1>3

\* The tasks a tick wakes are parked, and their timers are due (Model.lean, tick).
LEMMA TickMoves ==
  ASSUME IInv, NEW d \in Deadline, Tick(d)
  PROVE  \E S \in SUBSET Task :
           /\ Moved(S, "ready")
           /\ \A t \in S : taskState[t] \in {"sleeping", "waitingTimed"}
           /\ S \subseteq {e.task : e \in {f \in Elems(timers) : f.deadline <= d}}
<1> DEFINE expired       == TasksOf(Expired(timers, d))
           wokenSleeping == Only(expired, {u \in Task : taskState[u] = "sleeping"})
           wokenTimed    == Only(expired, {u \in Task : taskState[u] = "waitingTimed"})
           S             == Elems(wokenSleeping \o wokenTimed)
<1>1. /\ Expired(timers, d) \in Seq(TimerEntry)
      /\ Elems(Expired(timers, d)) = {f \in Elems(timers) : f.deadline <= d}
  BY TimerList, OnlyProperties DEF IInv, TypeOK, Expired
<1>2. /\ expired \in Seq(Task)
      /\ Elems(expired) = {e.task : e \in {f \in Elems(timers) : f.deadline <= d}}
  BY <1>1, TasksOfElems
<1> HIDE DEF expired
<1>3. /\ wokenSleeping \in Seq(Task) /\ wokenTimed \in Seq(Task)
      /\ Elems(wokenSleeping) = Elems(expired) \cap {u \in Task : taskState[u] = "sleeping"}
      /\ Elems(wokenTimed) = Elems(expired) \cap {u \in Task : taskState[u] = "waitingTimed"}
  BY <1>2, OnlyProperties
<1>4. Moved(S, "ready")
  BY DEF Tick, Moved, expired
<1> HIDE DEF wokenSleeping, wokenTimed
<1>5. S = Elems(wokenSleeping) \cup Elems(wokenTimed)
  BY <1>3, ConcatList
<1> HIDE DEF S
<1>6. QED BY <1>2, <1>3, <1>4, <1>5

\* Every step creates one task or moves tasks along their life.
LEMMA TaskSteps ==
  ASSUME IInv, [Next]_vars
  PROVE  \/ \E a \in Actor, p, r \in Task \cup {None} : Created(a, p, r)
         \/ UNCHANGED identityVars /\ StateStep
<1>0. TypeOK
  BY DEF IInv
<1>1. CASE SchedulerNext
  <2>1. CASE Schedule
    BY <1>0, <2>1, HeadIsRunnable, MovedOne DEF Schedule, Dispatch, CanDispatch, StateStep
  <2>2. ASSUME NEW t \in Task, Yield(t) \/ Complete(t)
        PROVE  UNCHANGED identityVars /\ StateStep
    BY <1>0, <2>2, MovedOne DEF Yield, Complete, StateStep
  <2>3. ASSUME NEW t \in Task, Cancel(t) \/ Fail(t)
        PROVE  UNCHANGED identityVars /\ StateStep
    <3>1. PICK st \in {"cancelled", "failed"} : Terminate(t, st)
      BY <2>3 DEF Cancel, Fail
    <3>2. Moved({t}, st) /\ Live(t) /\ UNCHANGED identityVars
      BY <1>0, <3>1, MovedOne DEF Terminate
    <3>3. QED BY <3>2 DEF StateStep
  <2>4. ASSUME NEW root \in Task, CancelTree(root)
        PROVE  UNCHANGED identityVars /\ StateStep
    <3> DEFINE S == {t \in DescendantsOf(root) : Live(t)}
    <3>1. S \in SUBSET Task /\ \A t \in S : Live(t)
      BY DEF DescendantsOf
    <3>2. Moved(S, "cancelled") /\ UNCHANGED identityVars
      BY <2>4 DEF CancelTree, Moved
    <3> HIDE DEF S
    <3>3. QED BY <3>1, <3>2 DEF StateStep
  <2>5. QED BY <1>1, <2>1, <2>2, <2>3, <2>4 DEF SchedulerNext
<1>2. CASE CreationNext
  BY <1>2, CreationSteps
<1>3. CASE TimeNext
  <2>1. ASSUME NEW t \in Task, NEW d \in Deadline, Sleep(t, d)
        PROVE  UNCHANGED identityVars /\ StateStep
    BY <1>0, <2>1, MovedOne DEF Sleep, StateStep, Parked
  <2>2. ASSUME NEW d \in Deadline, Tick(d)
        PROVE  UNCHANGED identityVars /\ StateStep
    <3>1. UNCHANGED identityVars
      BY <2>2 DEF Tick
    <3>2. QED BY <2>2, <3>1, TickMoves DEF StateStep, Parked
  <2>3. ASSUME NEW t \in Task, Wake(t)
        PROVE  UNCHANGED identityVars /\ StateStep
    <3>1. /\ Moved({t}, "ready") /\ {t} \in SUBSET Task
          /\ \A u \in {t} : taskState[u] \in Parked
      BY <1>0, <2>3, MovedOne DEF Wake, Parked
    <3>2. QED BY <2>3, <3>1, Zenon DEF Wake, StateStep
  <2>4. QED BY <1>3, <2>1, <2>2, <2>3 DEF TimeNext
<1>4. CASE MessageNext
  <2>1. ASSUME NEW b \in Actor, NEW src, Deliver(b, src)
        PROVE  UNCHANGED identityVars /\ StateStep
    <3>1. UNCHANGED identityVars /\ WakeOneOf(b)
      BY <2>1 DEF Deliver
    <3>2. CASE \E w \in Receivers(b) : Moved({w}, "ready")
      <4>1. PICK w \in Receivers(b) : Moved({w}, "ready")
        BY <3>2
      <4>2. {w} \in SUBSET Task /\ \A u \in {w} : taskState[u] \in Parked
        BY DEF Receivers, Parked
      <4>3. QED BY <3>1, <4>1, <4>2, Zenon DEF StateStep
    <3>3. QED BY <3>1, <3>2, WakeOneOfMoves DEF StateStep
  <2>2. ASSUME NEW t \in Task, NEW wanted, ReceiveWanted(t, wanted)
        PROVE  UNCHANGED identityVars /\ StateStep
    BY <1>0, <2>2, MovedOne
       DEF ReceiveWanted, CanReceive, TakeFirst, Park, StateStep, Parked
  <2>3. ASSUME NEW t \in Task, NEW d \in Deadline, ReceiveUntil(t, d)
        PROVE  UNCHANGED identityVars /\ StateStep
    BY <1>0, <2>3, MovedOne DEF ReceiveUntil, CanReceive, TakeFirst, StateStep, Parked
  <2>4. QED BY <1>4, <2>1, <2>2, <2>3
            DEF MessageNext, Inject, Send, Receive, ReceiveByOccurrence, ReceiveFrom
<1>5. CASE AdmissionNext
  BY <1>5 DEF AdmissionNext, CloseActor, Shutdown, StopWhenIdle, StopWhenDrained, Stop,
              taskVars, StateStep
<1>6. CASE ResourceNext
  BY <1>6 DEF ResourceNext, Acquire, AcquireActor, Release, ReleaseActor, Finalize,
              ledgerOnly, taskVars, StateStep
<1>7. CASE MetaNext \/ UNCHANGED vars
  BY <1>7 DEF MetaNext, SetPriority, SetDeadline, taskVars, vars, StateStep
<1>8. QED BY <1>1, <1>2, <1>3, <1>4, <1>5, <1>6, <1>7 DEF Next

\* Only a live task moves, and no task goes back to not being there.
LEMMA LiveMoves ==
  ASSUME TypeOK, StateStep, NEW t \in Task
  PROVE  \/ taskState'[t] = taskState[t]
         \/ Live(t) /\ taskState'[t] # None
<1>1. ASSUME NEW S, NEW st \in TaskState, Moved(S, st), t \in S => Live(t)
      PROVE  taskState'[t] = taskState[t] \/ (Live(t) /\ taskState'[t] # None)
  <2>1. taskState'[t] = IF t \in S THEN st ELSE taskState[t]
    BY <1>1 DEF Moved
  <2>2. CASE t \in S
    BY <1>1, <2>1, <2>2, AbsentAssumption
  <2>3. CASE t \notin S
    BY <2>1, <2>3
  <2>4. QED BY <2>2, <2>3
<1>2. taskState[t] \in Runnable \cup Parked \cup {"running"} => Live(t)
  BY AbsentAssumption DEF Live, Terminal, Runnable, Parked, TaskState
<1>3. /\ {"running", "ready", "cancelled", "failed"} \subseteq TaskState
      /\ Parked \cup {"yielded", "completed"} \subseteq TaskState
  BY DEF TaskState, Terminal, Runnable, Parked
<1>4. QED BY <1>1, <1>2, <1>3 DEF StateStep, IsRunning

-----------------------------------------------------------------------------
(* What a step does to the mailboxes. *)

\* A step gives an actor its first mailbox, delivers, takes one envelope out
\* for the running task, or leaves the mailboxes alone (Model.lean, step).
LEMMA MailSteps ==
  ASSUME TypeOK, [Next]_vars
  PROVE  \/ UNCHANGED mailVars
         \/ \E a \in Actor : mailboxes' = WithMailbox(a) /\ UNCHANGED nextMsgId
         \/ \E b \in Actor, src \in Actor \cup {None} : Deliver(b, src)
         \/ \E t \in Task : \E wanted : CanReceive(t) /\ TakeFirst(t, wanted)
<1>1. CASE SchedulerNext \/ TimeNext
  BY <1>1 DEF SchedulerNext, Schedule, Dispatch, Yield, Complete, Cancel, Fail, Terminate,
              CancelTree, TimeNext, Sleep, Tick, Wake
<1>2. CASE CreationNext
  BY <1>2 DEF CreationNext, Spawn, SpawnChild, RestartOne, NewTask
<1>3. CASE MessageNext
  <2>1. ASSUME NEW t \in Task, NEW wanted, ReceiveWanted(t, wanted)
        PROVE  UNCHANGED mailVars \/ (CanReceive(t) /\ TakeFirst(t, wanted))
    <3>1. Park(t) => UNCHANGED mailVars
      BY DEF Park
    <3>2. QED BY <2>1, <3>1, Zenon DEF ReceiveWanted
  <2>2. ASSUME NEW t \in Task, NEW d \in Deadline, ReceiveUntil(t, d)
        PROVE  UNCHANGED mailVars \/ (CanReceive(t) /\ TakeFirst(t, Envelope))
    <3>1. CASE ~ TakeFirst(t, Envelope)
      BY <2>2, <3>1 DEF ReceiveUntil
    <3>2. QED BY <2>2, <3>1, Zenon DEF ReceiveUntil
  <2>3. ASSUME NEW t \in Task, NEW b \in Actor, Send(t, b)
        PROVE  taskOwner[t] \in Actor /\ Deliver(b, taskOwner[t])
    BY <2>3 DEF Send, TypeOK
  <2>4. QED BY <1>3, <2>1, <2>2, <2>3
            DEF MessageNext, Inject, Receive, ReceiveByOccurrence, ReceiveFrom
<1>4. CASE AdmissionNext \/ MetaNext
  BY <1>4 DEF AdmissionNext, CloseActor, Shutdown, StopWhenIdle, StopWhenDrained, Stop,
              MetaNext, SetPriority, SetDeadline, taskVars
<1>5. CASE ResourceNext \/ UNCHANGED vars
  BY <1>5 DEF ResourceNext, Acquire, AcquireActor, Release, ReleaseActor, Finalize,
              ledgerOnly, taskVars, vars
<1>6. QED BY <1>1, <1>2, <1>3, <1>4, <1>5 DEF Next

\* A delivery appends one fresh envelope to one mailbox.
LEMMA DeliveredMailbox ==
  ASSUME TypeOK, NEW b \in Actor, NEW src \in Actor \cup {None}, Deliver(b, src)
  PROVE  /\ mailboxes[b] \in Seq(Envelope) /\ nextMsgId \in Message
         /\ [occurrence |-> nextMsgId, source |-> src] \in Envelope
         /\ mailboxes'[b] = Append(mailboxes[b], [occurrence |-> nextMsgId, source |-> src])
         /\ \A a \in Actor \ {b} : mailboxes'[a] = mailboxes[a]
<1>1. /\ mailboxes \in [Actor -> Seq(Envelope) \cup {None}] /\ mailboxes[b] # None
      /\ mailboxes' = [mailboxes EXCEPT
           ![b] = Append(@, [occurrence |-> nextMsgId, source |-> src])]
  BY DEF TypeOK, Deliver
<1>2. nextMsgId \in Message
  BY StateAssumption DEF TypeOK, Deliver, Message
<1>3. QED BY <1>1, <1>2 DEF Envelope

\* A receive takes an envelope out of the mailbox of the running task.
LEMMA TakenMailbox ==
  ASSUME TypeOK, NEW t \in Task, NEW wanted, CanReceive(t), TakeFirst(t, wanted)
  PROVE  /\ taskOwner[t] \in Actor /\ mailboxes[taskOwner[t]] \in Seq(Envelope)
         /\ mailboxes'[taskOwner[t]] = RemoveFirst(mailboxes[taskOwner[t]], wanted)
         /\ Elems(mailboxes[taskOwner[t]]) \cap wanted # {}
         /\ \A a \in Actor \ {taskOwner[t]} : mailboxes'[a] = mailboxes[a]
  BY DEF TypeOK, CanReceive, TakeFirst

\* No operation takes a mailbox away.
LEMMA MailboxStays ==
  ASSUME TypeOK, [Next]_vars, NEW a \in Actor, mailboxes[a] # None
  PROVE  mailboxes'[a] # None
<1>1. /\ mailboxes \in [Actor -> Seq(Envelope) \cup {None}]
      /\ mailboxes[a] \in Seq(Envelope) /\ None \notin Seq(Envelope)
  BY AbsentAssumption DEF TypeOK
<1>2. CASE UNCHANGED mailVars
  BY <1>2 DEF mailVars
<1>3. ASSUME NEW b \in Actor, mailboxes' = WithMailbox(b)
      PROVE  mailboxes'[a] # None
  BY <1>1, <1>3 DEF WithMailbox
<1>4. ASSUME NEW b \in Actor, NEW src \in Actor \cup {None}, Deliver(b, src)
      PROVE  mailboxes'[a] # None
  <2>1. CASE a = b
    <3>1. Append(mailboxes[b], [occurrence |-> nextMsgId, source |-> src]) \in Seq(Envelope)
      BY <1>4, DeliveredMailbox, AppendProperties
    <3>2. QED BY <1>1, <1>4, <2>1, <3>1, DeliveredMailbox
  <2>2. CASE a # b
    BY <1>4, <2>2, DeliveredMailbox
  <2>3. QED BY <2>1, <2>2
<1>5. ASSUME NEW t \in Task, NEW wanted, CanReceive(t), TakeFirst(t, wanted)
      PROVE  mailboxes'[a] # None
  <2>1. CASE a = taskOwner[t]
    BY <1>1, <1>5, <2>1, TakenMailbox, RemoveFirstProperties
  <2>2. CASE a # taskOwner[t]
    BY <1>5, <2>2, TakenMailbox
  <2>3. QED BY <2>1, <2>2
<1>6. QED BY <1>2, <1>3, <1>4, <1>5, MailSteps

-----------------------------------------------------------------------------
(* The family of the tasks. *)

\* The new task is the youngest, its parent is running and what it replaces
\* has failed, so both are older (Model.lean: spawn, spawnChild, restartOne).
LEMMA CreatedFamily ==
  ASSUME IInv, FamilyExact, [Next]_vars,
         NEW a \in Actor, NEW p \in Task \cup {None}, NEW r \in Task \cup {None},
         Created(a, p, r)
  PROVE  FamilyExact'
<1> DEFINE n == nextId
<1>1. /\ n \in Task /\ nextId' = n + 1 /\ taskState[n] = None
      /\ taskState'  = [taskState EXCEPT ![n] = "new"]
      /\ taskOwner'  = [taskOwner EXCEPT ![n] = a]
      /\ taskParent' = [taskParent EXCEPT ![n] = p]
      /\ restartOf'  = [restartOf EXCEPT ![n] = r]
      /\ mailboxes' = WithMailbox(a)
  BY BoundsAssumption DEF Created, NewTask, IInv, TypeOK, Task
<1>2. /\ taskState \in [Task -> TaskState \cup {None}]
      /\ taskOwner \in [Task -> Actor \cup {None}]
      /\ taskParent \in [Task -> Task \cup {None}]
      /\ restartOf \in [Task -> Task \cup {None}]
      /\ mailboxes \in [Actor -> Seq(Envelope) \cup {None}]
      /\ Task \subseteq Int /\ None \notin Task /\ None \notin TaskState
  BY NoneAssumption, AbsentAssumption DEF IInv, TypeOK, Task
<1>3. \A t \in Task :
        /\ t = n => /\ taskState'[t] = "new" /\ taskOwner'[t] = a
                    /\ taskParent'[t] = p /\ restartOf'[t] = r
        /\ t # n => /\ taskState'[t] = taskState[t] /\ taskOwner'[t] = taskOwner[t]
                    /\ taskParent'[t] = taskParent[t] /\ restartOf'[t] = restartOf[t]
  BY <1>1, <1>2
<1>4. mailboxes'[a] # None /\ \A b \in Actor : mailboxes[b] # None => mailboxes'[b] # None
  <2>1. /\ mailboxes'[a] = IF mailboxes[a] = None THEN << >> ELSE mailboxes[a]
        /\ \A b \in Actor \ {a} : mailboxes'[b] = mailboxes[b]
    BY <1>1, <1>2 DEF WithMailbox
  <2>2. << >> \in Seq(Envelope)
    OBVIOUS
  <2>3. << >> # None
    BY <2>2, AbsentAssumption
  <2>4. QED BY <2>1, <2>3
<1>5. p # None => p \in Task /\ p < n
  <2>1. p # None => p \in Task /\ taskState[p] = "running"
    BY DEF Created, IsRunning
  <2>2. QED BY <1>2, <2>1 DEF FamilyExact, TaskState
<1>6. r # None => /\ r \in Task /\ r < n /\ p # None
                  /\ taskState[r] = "failed" /\ taskParent[r] = p
  <2>1. r # None => r \in Task /\ p # None /\ taskState[r] = "failed" /\ taskParent[r] = p
    BY DEF Created
  <2>2. QED BY <1>2, <2>1 DEF FamilyExact, TaskState, Terminal
<1> HIDE DEF n
<1>7. ASSUME NEW t \in Task, t = n
      PROVE  /\ taskState'[t] # None <=> t < nextId'
             /\ taskOwner'[t] # None <=> t < nextId'
             /\ taskOwner'[t] # None => mailboxes'[taskOwner'[t]] # None
             /\ taskParent'[t] # None => taskParent'[t] < t /\ t < nextId'
             /\ restartOf'[t] # None =>
                  /\ restartOf'[t] < t
                  /\ taskState'[restartOf'[t]] = "failed"
                  /\ taskParent'[t] # None
                  /\ taskParent'[restartOf'[t]] = taskParent'[t]
  <2>1. t < nextId' /\ a # None /\ taskState'[t] # None
    BY <1>1, <1>2, <1>3, <1>7, NoneAssumption DEF TaskState, Runnable
  <2>2. r # None => taskState'[r] = "failed" /\ taskParent'[r] = p
    BY <1>1, <1>2, <1>3, <1>6
  <2>3. QED BY <1>3, <1>4, <1>5, <1>6, <1>7, <2>1, <2>2
<1>8. ASSUME NEW t \in Task, t # n
      PROVE  /\ taskState'[t] # None <=> t < nextId'
             /\ taskOwner'[t] # None <=> t < nextId'
             /\ taskOwner'[t] # None => mailboxes'[taskOwner'[t]] # None
             /\ taskParent'[t] # None => taskParent'[t] < t /\ t < nextId'
             /\ restartOf'[t] # None =>
                  /\ restartOf'[t] < t
                  /\ taskState'[restartOf'[t]] = "failed"
                  /\ taskParent'[t] # None
                  /\ taskParent'[restartOf'[t]] = taskParent'[t]
  <2>1. /\ taskState[t] # None <=> t < n
        /\ taskOwner[t] # None <=> t < n
        /\ taskOwner[t] # None => mailboxes[taskOwner[t]] # None
        /\ taskParent[t] # None => taskParent[t] < t /\ t < n
        /\ restartOf[t] # None =>
             /\ restartOf[t] < t
             /\ taskState[restartOf[t]] = "failed"
             /\ taskParent[t] # None
             /\ taskParent[restartOf[t]] = taskParent[t]
    BY DEF FamilyExact, n
  <2>2. t < nextId' <=> t < n
    BY <1>1, <1>2, <1>8
  <2>3. restartOf[t] # None => restartOf[t] \in Task /\ restartOf[t] # n
    BY <1>1, <1>2, <2>1
  <2>4. /\ taskState'[t] = taskState[t] /\ taskOwner'[t] = taskOwner[t]
        /\ taskParent'[t] = taskParent[t] /\ restartOf'[t] = restartOf[t]
    BY <1>3, <1>8
  <2>5. restartOf[t] # None => /\ taskState'[restartOf[t]] = taskState[restartOf[t]]
                              /\ taskParent'[restartOf[t]] = taskParent[restartOf[t]]
    BY <1>3, <2>3
  <2>6. taskOwner[t] # None => taskOwner[t] \in Actor
    BY <1>2
  <2>7. QED BY <1>4, <2>1, <2>2, <2>4, <2>5, <2>6
<1>9. QED BY <1>7, <1>8 DEF FamilyExact

\* The inductive invariant with the family in it.
FamilyInv == IInv /\ FamilyExact

\* Every operation keeps the family exact.
LEMMA FamilyStep ==
  ASSUME FamilyInv, [Next]_vars
  PROVE  FamilyExact'
<1> USE DEF FamilyInv
<1>1. CASE \E a \in Actor, p, r \in Task \cup {None} : Created(a, p, r)
  BY <1>1, CreatedFamily
<1>2. CASE UNCHANGED identityVars /\ StateStep
  <2>1. UNCHANGED << taskOwner, taskParent, restartOf, nextId >>
    BY <1>2 DEF identityVars
  <2>2. \A t \in Task : /\ taskState'[t] # None <=> taskState[t] # None
                        /\ taskState[t] = "failed" => taskState'[t] = "failed"
    BY <1>2, LiveMoves DEF Live, Terminal, IInv
  <2>3. \A a \in Actor : mailboxes[a] # None => mailboxes'[a] # None
    BY MailboxStays DEF IInv
  <2>4. /\ taskOwner \in [Task -> Actor \cup {None}]
        /\ restartOf \in [Task -> Task \cup {None}]
    BY DEF IInv, TypeOK
  <2>5. QED BY <2>1, <2>2, <2>3, <2>4 DEF FamilyExact
<1>3. QED BY <1>1, <1>2, TaskSteps

\* No task is there at the start.
LEMMA InitFamily == Init => FamilyExact
  BY DEF Init, FamilyExact, Task

\* IInv and the family are invariants together.
THEOREM FamilyInductive == Spec => []FamilyInv
<1>1. Init => FamilyInv
  BY InitTypes, InitExact, InitFamily DEF FamilyInv, IInv
<1>2. FamilyInv /\ [Next]_vars => FamilyInv'
  BY NextTypes, NextExact, FamilyStep DEF FamilyInv, IInv
<1>3. QED BY <1>1, <1>2, PTL DEF Spec

\* Ids are used in order and once; parents are older than their children, and
\* a replacement has the parent of the failed task it replaces (Model.lean:
\* spawn, spawnChild, restartOne).
THEOREM FamilyIsExact == Spec => []FamilyExact
<1>1. FamilyInv => FamilyExact
  BY DEF FamilyInv
<1>2. QED BY <1>1, FamilyInductive, PTL

\* How a task ended and whose task it is are settled for good (Model.lean:
\* isTerminal guards of cancel and fail, cancelTree; the fresh-id updates).
THEOREM TerminalIsForever == Spec => TerminalForever
<1> DEFINE A == \A t \in Task :
                  /\ taskState[t] \in Terminal => taskState'[t] = taskState[t]
                  /\ taskState[t] # None =>
                       /\ taskState'[t] # None
                       /\ taskOwner'[t] = taskOwner[t]
                       /\ taskParent'[t] = taskParent[t]
                       /\ restartOf'[t] = restartOf[t]
<1>1. ASSUME IInv, [Next]_vars PROVE A
  <2>1. TypeOK
    BY <1>1 DEF IInv
  <2>2. ASSUME NEW a \in Actor, NEW p, NEW r, Created(a, p, r) PROVE A
    <3>1. ASSUME NEW t \in Task
          PROVE  \/ t = nextId /\ taskState[t] = None
                 \/ /\ taskState'[t] = taskState[t] /\ taskOwner'[t] = taskOwner[t]
                    /\ taskParent'[t] = taskParent[t] /\ restartOf'[t] = restartOf[t]
      BY <2>1, <2>2 DEF Created, NewTask, TypeOK
    <3>2. None \notin Terminal
      BY AbsentAssumption DEF TaskState
    <3>3. QED BY <3>1, <3>2
  <2>3. ASSUME UNCHANGED identityVars, StateStep PROVE A
    BY <2>1, <2>3, LiveMoves DEF identityVars, Live
  <2>4. QED BY <1>1, <2>2, <2>3, TaskSteps
<1>2. IInv /\ [Next]_vars => [A]_vars
  BY <1>1
<1>3. QED BY <1>2, Inductive, PTL DEF Spec, TerminalForever

\* The recursive function behind isInSubtreeOf.
UnderBody(root, f) ==
  [u \in Task |->
     \/ u = root
     \/ /\ taskParent[u] # None
        /\ taskParent[u] < u
        /\ f[taskParent[u]]]

\* The recursive definition of the walk up the parents has a solution: the
\* least set of tasks that is closed under it (Model.lean, isInSubtreeOf).
LEMMA WalkExists ==
  ASSUME NEW root \in Task, taskParent \in [Task -> Task \cup {None}]
  PROVE  \E f : f = UnderBody(root, f)
<1> DEFINE Above(u, S)  == taskParent[u] # None /\ taskParent[u] < u /\ taskParent[u] \in S
           IsClosed(S) == root \in S /\ \A u \in Task : Above(u, S) => u \in S
           C           == {u \in Task : \A S \in SUBSET Task : IsClosed(S) => u \in S}
           f           == [u \in Task |-> u \in C]
<1>1. C \in SUBSET Task /\ IsClosed(C)
  OBVIOUS
<1>2. ASSUME NEW u \in C, u # root, ~ Above(u, C) PROVE FALSE
  <2>1. C \ {u} \in SUBSET Task /\ IsClosed(C \ {u})
    BY <1>1, <1>2
  <2>2. u \in C \ {u}
    BY <2>1
  <2>3. QED BY <2>2
<1>3. \A u \in Task : u \in C <=> u = root \/ Above(u, C)
  BY <1>1, <1>2
<1> HIDE DEF C
<1>4. ASSUME NEW u \in Task
      PROVE  u \in C <=> \/ u = root
                         \/ /\ taskParent[u] # None
                            /\ taskParent[u] < u
                            /\ f[taskParent[u]]
  <2>1. CASE taskParent[u] = None
    BY <1>3, <2>1
  <2>2. CASE taskParent[u] # None
    <3>1. taskParent[u] \in Task
      BY <2>2
    <3>2. f[taskParent[u]] <=> taskParent[u] \in C
      BY <3>1, Zenon
    <3>3. QED BY <1>3, <3>2
  <2>3. QED BY <2>1, <2>2
<1> HIDE DEF f
<1>5. f = UnderBody(root, f)
  <2> DEFINE Under(u) == \/ u = root
                         \/ /\ taskParent[u] # None
                            /\ taskParent[u] < u
                            /\ f[taskParent[u]]
  <2>1. ASSUME NEW u \in Task PROVE (u \in C) = Under(u)
    <3>1. u \in C <=> Under(u)
      BY <1>4
    <3>2. Under(u) \in BOOLEAN /\ (u \in C) \in BOOLEAN
      OBVIOUS
    <3> HIDE DEF Under
    <3>3. CASE u \in C
      <4>1. Under(u) = TRUE
        BY <3>1, <3>2, <3>3
      <4>2. (u \in C) = TRUE
        BY <3>3
      <4>3. QED BY <4>1, <4>2
    <3>4. CASE u \notin C
      <4>1. Under(u) = FALSE
        BY <3>1, <3>2, <3>4
      <4>2. (u \in C) = FALSE
        BY <3>4
      <4>3. QED BY <4>1, <4>2
    <3>5. QED BY <3>3, <3>4
  <2>2. UnderBody(root, f) = [u \in Task |-> u \in C]
    BY <2>1, Zenon DEF UnderBody
  <2>3. QED BY <2>2 DEF f
<1>6. QED BY <1>5

\* What the walk up the parents answers, one generation at a time.
LEMMA WalkStep ==
  ASSUME NEW root \in Task, taskParent \in [Task -> Task \cup {None}], NEW t \in Task
  PROVE  IsInSubtreeOf(root, t) <=>
           \/ t = root
           \/ /\ taskParent[t] # None /\ taskParent[t] < t
              /\ IsInSubtreeOf(root, taskParent[t])
<1> DEFINE f == CHOOSE f : f = UnderBody(root, f)
<1>1. f = UnderBody(root, f)
  BY WalkExists
<1>2. \A u : IsInSubtreeOf(root, u) = f[u]
  BY Zenon DEF IsInSubtreeOf, UnderBody
<1> HIDE DEF f
<1>3. f[t] = (\/ t = root
              \/ /\ taskParent[t] # None
                 /\ taskParent[t] < t
                 /\ f[taskParent[t]])
  BY <1>1, Zenon DEF UnderBody
<1>4. QED BY <1>2, <1>3

\* The walk finds the root and all of its descendants, and nobody else: parents
\* are older than their children, so it never gives up early.
LEMMA WalkIsClosure ==
  ASSUME TypeOK, FamilyExact
  PROVE  SubtreeIsClosure
<1>1. /\ taskParent \in [Task -> Task \cup {None}] /\ None \notin Task /\ Task \subseteq Nat /\ Task \subseteq Int
      /\ nextId \in Int
  BY NoneAssumption DEF TypeOK, Task
<1>2. \A t \in Task : /\ taskState[t] # None <=> t < nextId
                      /\ taskParent[t] # None => taskParent[t] < t
  BY DEF FamilyExact
<1>3. SUFFICES ASSUME NEW root \in Spawned
               PROVE  /\ root \in DescendantsOf(root)
                      /\ ClosedUnderChildren(DescendantsOf(root))
                      /\ \A S \in SUBSET Spawned :
                           root \in S /\ ClosedUnderChildren(S) => DescendantsOf(root) \subseteq S
  BY DEF SubtreeIsClosure
<1>4. root \in Task
  BY DEF Spawned
<1>5. \A t : t \in DescendantsOf(root) <=> t \in Spawned /\ IsInSubtreeOf(root, t)
  BY <1>2 DEF DescendantsOf, Spawned
<1>6. root \in DescendantsOf(root)
  BY <1>1, <1>4, <1>5, WalkStep
<1>7. ASSUME NEW t \in Spawned, taskParent[t] \in DescendantsOf(root)
      PROVE  t \in DescendantsOf(root)
  <2>1. t \in Task /\ taskParent[t] \in Task
    BY <1>5, <1>7 DEF Spawned
  <2>2. taskParent[t] # None /\ taskParent[t] < t
    BY <1>1, <1>2, <2>1
  <2>3. QED BY <1>1, <1>4, <1>5, <1>7, <2>1, <2>2, WalkStep
<1>8. ASSUME NEW S \in SUBSET Spawned, root \in S, ClosedUnderChildren(S)
      PROVE  DescendantsOf(root) \subseteq S
  <2> DEFINE Missed == {t \in DescendantsOf(root) : t \notin S}
  <2>1. SUFFICES ASSUME Missed # {} PROVE FALSE
    OBVIOUS
  <2>2. Missed \in SUBSET Nat
    BY <1>1, <1>5 DEF Spawned
  <2>3. PICK t \in Missed : \A u \in Missed : t <= u
    BY <2>1, <2>2, LeastNat
  <2>4. t \in Task /\ t \in Spawned /\ t # root /\ IsInSubtreeOf(root, t)
    BY <1>5, <1>8, <2>3 DEF Spawned
  <2>5. /\ taskParent[t] \in Task /\ taskParent[t] < t
        /\ IsInSubtreeOf(root, taskParent[t])
    BY <1>1, <1>4, <2>4, WalkStep
  <2>6. taskParent[t] < nextId
    <3>1. t < nextId
      BY <1>2, <2>4 DEF Spawned
    <3>2. t \in Int /\ taskParent[t] \in Int
      BY <1>1, <2>4, <2>5
    <3>3. QED BY <1>1, <2>5, <3>1, <3>2
  <2>7. taskParent[t] \in DescendantsOf(root)
    BY <1>2, <1>5, <2>5, <2>6 DEF Spawned
  <2>8. taskParent[t] \in S
    <3>1. t \in Int /\ taskParent[t] \in Int
      BY <1>1, <2>4, <2>5
    <3>2. ~ (t <= taskParent[t])
      BY <2>5, <3>1
    <3>3. QED BY <2>3, <2>7, <3>2
  <2>9. QED BY <1>8, <2>3, <2>4, <2>8 DEF ClosedUnderChildren
<1>9. QED BY <1>6, <1>7, <1>8 DEF ClosedUnderChildren

\* cancelTree reaches the root and all of its descendants, and nobody else
\* (Model.lean: isInSubtreeOf, descendantsOf).
THEOREM SubtreesAreClosed == Spec => []SubtreeIsClosure
<1>1. FamilyInv => SubtreeIsClosure
  BY WalkIsClosure DEF FamilyInv, IInv
<1>2. QED BY <1>1, FamilyInductive, PTL

-----------------------------------------------------------------------------
(* The mailboxes. *)

Ordered(mb) == \A i, j \in 1 .. Len(mb) : i < j => mb[i].occurrence < mb[j].occurrence

\* The envelopes of a, none if it has no mailbox.
EnvelopesOf(a) == IF mailboxes[a] = None THEN {} ELSE Elems(mailboxes[a])

\* MailboxesExact, with the envelopes of an actor as a set.
LEMMA MailboxParts ==
  MailboxesExact <=>
    /\ \A a \in Actor : mailboxes[a] # None =>
         /\ Ordered(mailboxes[a])
         /\ Capacity[a] # None => Len(mailboxes[a]) <= Capacity[a]
    /\ \A a \in Actor : \A e \in EnvelopesOf(a) : e.occurrence < nextMsgId
    /\ \A a, b \in Actor : \A e \in EnvelopesOf(a), f \in EnvelopesOf(b) :
         a # b => e.occurrence # f.occurrence
  BY DEF MailboxesExact, EnvelopesOf, Ordered

\* An envelope that is waiting has a type.
LEMMA EnvelopeTypes ==
  ASSUME TypeOK, NEW a \in Actor
  PROVE  /\ EnvelopesOf(a) \subseteq Envelope
         /\ \A e \in EnvelopesOf(a) : e.occurrence \in Int
         /\ mailboxes[a] # None => Len(mailboxes[a]) \in Nat
         /\ Capacity[a] # None => Capacity[a] \in Nat
         /\ nextMsgId \in Nat
<1>1. mailboxes[a] # None => mailboxes[a] \in Seq(Envelope)
  BY DEF TypeOK
<1>2. EnvelopesOf(a) \subseteq Envelope
  <2>1. CASE mailboxes[a] = None
    BY <2>1 DEF EnvelopesOf
  <2>2. CASE mailboxes[a] # None
    BY <1>1, <2>2, ElementOfSeq, LenProperties DEF EnvelopesOf, Elems
  <2>3. QED BY <2>1, <2>2
<1>3. QED BY <1>1, <1>2, StateAssumption, LenProperties DEF TypeOK, Envelope, Message

\* A mailbox that is new, or loses envelopes without reordering the rest.
LEMMA MailboxShrinks ==
  ASSUME TypeOK, MailboxesExact, NEW c \in Actor, UNCHANGED nextMsgId,
         \A a \in Actor \ {c} : mailboxes'[a] = mailboxes[a],
         mailboxes'[c] # None,
         Ordered(mailboxes'[c]),
         Capacity[c] # None => Len(mailboxes'[c]) <= Capacity[c],
         Elems(mailboxes'[c]) \subseteq EnvelopesOf(c)
  PROVE  MailboxesExact'
<1>1. \A a \in Actor : EnvelopesOf(a)' \subseteq EnvelopesOf(a)
  BY DEF EnvelopesOf
<1>2. \A a \in Actor : mailboxes'[a] # None =>
        /\ Ordered(mailboxes'[a])
        /\ Capacity[a] # None => Len(mailboxes'[a]) <= Capacity[a]
  BY MailboxParts
<1>3. /\ \A a \in Actor : \A e \in EnvelopesOf(a)' : e.occurrence < nextMsgId'
      /\ \A a, b \in Actor : \A e \in EnvelopesOf(a)', f \in EnvelopesOf(b)' :
           a # b => e.occurrence # f.occurrence
  <2> DEFINE Env(a) == EnvelopesOf(a)
             EnvN(a) == EnvelopesOf(a)'
  <2>1. /\ \A a \in Actor : \A e \in Env(a) : e.occurrence < nextMsgId
        /\ \A a, b \in Actor : \A e \in Env(a), f \in Env(b) :
             a # b => e.occurrence # f.occurrence
    BY MailboxParts
  <2>2. \A a \in Actor : EnvN(a) \subseteq Env(a)
    BY <1>1
  <2> HIDE DEF Env, EnvN
  <2>3. /\ \A a \in Actor : \A e \in EnvN(a) : e.occurrence < nextMsgId'
        /\ \A a, b \in Actor : \A e \in EnvN(a), f \in EnvN(b) :
             a # b => e.occurrence # f.occurrence
    BY <2>1, <2>2
  <2>4. QED BY <2>3 DEF EnvN
<1>4. QED BY <1>2, <1>3 DEF MailboxesExact, EnvelopesOf, Ordered

\* A delivery: the occurrence id is fresh, and there is room for the envelope.
LEMMA MailboxGrows ==
  ASSUME TypeOK, MailboxesExact,
         NEW b \in Actor, NEW src \in Actor \cup {None}, Deliver(b, src)
  PROVE  MailboxesExact'
<1> DEFINE e  == [occurrence |-> nextMsgId, source |-> src]
           mb == mailboxes[b]
<1>1. /\ mb \in Seq(Envelope) /\ mb # None /\ mailboxes'[b] = Append(mb, e)
      /\ \A a \in Actor \ {b} : mailboxes'[a] = mailboxes[a]
      /\ nextMsgId' = nextMsgId + 1 /\ nextMsgId \in Nat
      /\ Capacity[b] # None => Capacity[b] \in Nat /\ Len(mb) < Capacity[b]
  <2>1. Capacity[b] # None => ~ (Capacity[b] <= Len(mb))
    BY DEF Deliver, MailboxFull
  <2>2. /\ mb # None /\ nextMsgId' = nextMsgId + 1
        /\ mailboxes'[b] = Append(mb, e)
        /\ \A a \in Actor \ {b} : mailboxes'[a] = mailboxes[a]
    BY DeliveredMailbox DEF Deliver
  <2>3. QED BY <2>1, <2>2, DeliveredMailbox, EnvelopeTypes
<1>2. e.occurrence = nextMsgId
  OBVIOUS
<1>3. /\ \A i, j \in 1 .. Len(mb) : i < j => mb[i].occurrence < mb[j].occurrence
      /\ \A a \in Actor : \A f \in EnvelopesOf(a) : f.occurrence < nextMsgId
      /\ \A a, c \in Actor : \A f \in EnvelopesOf(a), g \in EnvelopesOf(c) :
           a # c => f.occurrence # g.occurrence
      /\ \A a \in Actor : mailboxes[a] # None =>
           /\ Ordered(mailboxes[a])
           /\ Capacity[a] # None => Len(mailboxes[a]) <= Capacity[a]
  BY <1>1, MailboxParts DEF Ordered
<1>4. /\ Len(mb) \in Nat /\ Len(mailboxes'[b]) = Len(mb) + 1
      /\ \A i \in 1 .. Len(mb) : mailboxes'[b][i] = mb[i] /\ mb[i] \in EnvelopesOf(b)
      /\ mailboxes'[b][Len(mb) + 1] = e
      /\ Elems(mailboxes'[b]) = EnvelopesOf(b) \cup {e}
      /\ mailboxes'[b] # None
  <2>1. e \in Envelope
    BY DeliveredMailbox
  <2> HIDE DEF e
  <2>2. /\ Len(mb) \in Nat /\ Len(Append(mb, e)) = Len(mb) + 1
        /\ \A i \in 1 .. Len(mb) : Append(mb, e)[i] = mb[i]
        /\ Append(mb, e)[Len(mb) + 1] = e
        /\ Append(mb, e) \in Seq(Envelope)
    BY <1>1, <2>1, AppendProperties, LenProperties
  <2>3. Elems(Append(mb, e)) = Elems(mb) \cup {e} /\ EnvelopesOf(b) = Elems(mb)
    BY <1>1, <2>1, AppendList DEF EnvelopesOf
  <2>4. \A i \in 1 .. Len(mb) : mb[i] \in Elems(mb)
    BY DEF Elems
  <2>5. QED BY <1>1, <2>2, <2>3, <2>4, AbsentAssumption
<1> HIDE DEF e, mb
<1>5. Ordered(mailboxes'[b])
  <2>1. ASSUME NEW i \in 1 .. Len(mb) + 1, NEW j \in 1 .. Len(mb) + 1, i < j
        PROVE  mailboxes'[b][i].occurrence < mailboxes'[b][j].occurrence
    <3>1. i \in 1 .. Len(mb)
      BY <1>4, <2>1
    <3>2. CASE j \in 1 .. Len(mb)
      BY <1>3, <1>4, <2>1, <3>1, <3>2
    <3>3. CASE j = Len(mb) + 1
      BY <1>2, <1>3, <1>4, <3>1, <3>3
    <3>4. QED BY <1>4, <3>2, <3>3
  <2>2. QED BY <1>4, <2>1 DEF Ordered
<1>6. \A a \in Actor : EnvelopesOf(a)' =
        IF a = b THEN EnvelopesOf(a) \cup {e} ELSE EnvelopesOf(a)
  BY <1>1, <1>4 DEF EnvelopesOf
<1>7. \A a \in Actor : \A f \in EnvelopesOf(a)' : f.occurrence < nextMsgId'
  <2>1. \A a \in Actor : \A f \in EnvelopesOf(a) : f.occurrence < nextMsgId + 1
    <3>1. ASSUME NEW a \in Actor, NEW f \in EnvelopesOf(a)
          PROVE  f.occurrence < nextMsgId + 1
      <4>1. f.occurrence < nextMsgId /\ f.occurrence \in Int
        BY <1>3, EnvelopeTypes
      <4>2. QED BY <1>1, <4>1
    <3>2. QED BY <3>1
  <2>2. QED BY <1>1, <1>2, <1>6, <2>1
<1>8. ASSUME NEW a \in Actor, NEW c \in Actor,
             NEW f \in EnvelopesOf(a)', NEW g \in EnvelopesOf(c)', a # c
      PROVE  f.occurrence # g.occurrence
  <2>1. CASE f \in EnvelopesOf(a) /\ g \in EnvelopesOf(c)
    BY <1>3, <1>8, <2>1
  <2>2. CASE f = e /\ g \in EnvelopesOf(c)
    <3>1. g.occurrence < nextMsgId /\ g.occurrence \in Int
      BY <1>3, <2>2, EnvelopeTypes
    <3>2. QED BY <1>1, <1>2, <2>2, <3>1
  <2>3. CASE g = e /\ f \in EnvelopesOf(a)
    <3>1. f.occurrence < nextMsgId /\ f.occurrence \in Int
      BY <1>3, <2>3, EnvelopeTypes
    <3>2. QED BY <1>1, <1>2, <2>3, <3>1
  <2>4. QED BY <1>6, <1>8, <2>1, <2>2, <2>3
<1>9. \A a \in Actor : mailboxes'[a] # None =>
        /\ Ordered(mailboxes'[a])
        /\ Capacity[a] # None => Len(mailboxes'[a]) <= Capacity[a]
  <2>1. Capacity[b] # None => Len(mailboxes'[b]) <= Capacity[b]
    BY <1>1, <1>4
  <2>2. QED BY <1>1, <1>3, <1>5, <2>1
<1>10. QED BY <1>7, <1>8, <1>9 DEF MailboxesExact, EnvelopesOf, Ordered

\* Taking one envelope out keeps the others, in their order.
LEMMA RemoveKeepsOrder ==
  ASSUME NEW mb \in Seq(Envelope), NEW wanted, Elems(mb) \cap wanted # {}
  PROVE  /\ RemoveFirst(mb, wanted) \in Seq(Envelope)
         /\ Elems(RemoveFirst(mb, wanted)) \subseteq Elems(mb)
         /\ Len(RemoveFirst(mb, wanted)) <= Len(mb)
         /\ Len(RemoveFirst(mb, wanted)) \in Nat /\ Len(mb) \in Nat
         /\ Ordered(mb) => Ordered(RemoveFirst(mb, wanted))
<1> DEFINE w == RemoveFirst(mb, wanted)
<1>1. PICK k \in 1 .. Len(mb) :
        /\ w \in Seq(Envelope) /\ Len(w) = Len(mb) - 1
        /\ \A i \in 1 .. Len(mb) - 1 : w[i] = IF i < k THEN mb[i] ELSE mb[i + 1]
  BY RemoveFirstProperties
<1>2. Len(mb) \in Nat
  BY LenProperties
<1> HIDE DEF w
<1>3. Elems(w) \subseteq Elems(mb)
  BY <1>1, <1>2 DEF Elems
<1>4. ASSUME Ordered(mb) PROVE Ordered(w)
  <2>1. ASSUME NEW i \in 1 .. Len(w), NEW j \in 1 .. Len(w), i < j
        PROVE  w[i].occurrence < w[j].occurrence
    <3> DEFINE x == IF i < k THEN i ELSE i + 1
               y == IF j < k THEN j ELSE j + 1
    <3>1. x \in 1 .. Len(mb) /\ y \in 1 .. Len(mb) /\ x < y
      BY <1>1, <1>2, <2>1
    <3>2. w[i] = mb[x] /\ w[j] = mb[y]
      BY <1>1, <1>2
    <3> HIDE DEF x, y
    <3>3. QED BY <1>4, <3>1, <3>2 DEF Ordered
  <2>2. QED BY <2>1 DEF Ordered
<1>5. QED BY <1>1, <1>2, <1>3, <1>4 DEF w

\* A receive takes one envelope out, whichever it asked for, and no other.
LEMMA MailboxTaken ==
  ASSUME TypeOK, MailboxesExact, NEW t \in Task, NEW wanted,
         CanReceive(t), TakeFirst(t, wanted)
  PROVE  MailboxesExact'
<1> DEFINE c  == taskOwner[t]
           mb == mailboxes[c]
           w  == RemoveFirst(mb, wanted)
<1>1. /\ c \in Actor /\ mb \in Seq(Envelope) /\ mb # None /\ mailboxes'[c] = w
      /\ Elems(mb) \cap wanted # {}
      /\ \A a \in Actor \ {c} : mailboxes'[a] = mailboxes[a]
      /\ nextMsgId' = nextMsgId
  BY TakenMailbox, AbsentAssumption DEF TakeFirst
<1>2. /\ Ordered(mb)
      /\ Capacity[c] # None => Len(mb) <= Capacity[c]
      /\ Capacity[c] # None => Capacity[c] \in Nat
      /\ EnvelopesOf(c) = Elems(mb)
  BY <1>1, MailboxParts, EnvelopeTypes DEF EnvelopesOf
<1>3. /\ w \in Seq(Envelope) /\ Elems(w) \subseteq Elems(mb) /\ Ordered(w)
      /\ Len(w) <= Len(mb) /\ Len(w) \in Nat /\ Len(mb) \in Nat
  BY <1>1, <1>2, RemoveKeepsOrder
<1> HIDE DEF w, mb, c
<1>4. Capacity[c] # None => Len(w) <= Capacity[c]
  BY <1>2, <1>3
<1>5. w # None
  BY <1>3, AbsentAssumption
<1>6. QED BY <1>1, <1>2, <1>3, <1>4, <1>5, MailboxShrinks

\* Every operation keeps the mailboxes exact.
LEMMA MailboxesStep ==
  ASSUME TypeOK, MailboxesExact, [Next]_vars
  PROVE  MailboxesExact'
<1>1. CASE UNCHANGED mailVars
  BY <1>1 DEF mailVars, MailboxesExact
<1>2. ASSUME NEW a \in Actor, mailboxes' = WithMailbox(a), UNCHANGED nextMsgId
      PROVE  MailboxesExact'
  <2>1. /\ mailboxes'[a] = IF mailboxes[a] = None THEN << >> ELSE mailboxes[a]
        /\ \A b \in Actor \ {a} : mailboxes'[b] = mailboxes[b]
    BY <1>2 DEF WithMailbox, TypeOK
  <2>2. CASE mailboxes[a] = None
    <3>1. Ordered(<< >>) /\ Elems(<< >>) = {} /\ Len(<< >>) = 0
      BY DEF Ordered, Elems
    <3>2. << >> \in Seq(Envelope)
      OBVIOUS
    <3>3. Capacity[a] # None => 0 <= Capacity[a]
      BY StateAssumption
    <3>4. QED BY <1>2, <2>1, <2>2, <3>1, <3>2, <3>3, AbsentAssumption, MailboxShrinks
  <2>3. CASE mailboxes[a] # None
    <3>1. mailboxes' = mailboxes
      BY <1>2, <2>3 DEF WithMailbox, TypeOK
    <3>2. QED BY <1>2, <3>1 DEF MailboxesExact
  <2>4. QED BY <2>2, <2>3
<1>3. QED BY <1>1, <1>2, MailSteps, MailboxGrows, MailboxTaken

\* IInv and the mailboxes are invariants together.
THEOREM MailInductive == Spec => [](IInv /\ MailboxesExact)
<1>1. Init => MailboxesExact
  BY DEF Init, MailboxesExact
<1>2. IInv /\ MailboxesExact /\ [Next]_vars => MailboxesExact'
  BY MailboxesStep DEF IInv
<1>3. QED BY <1>1, <1>2, Inductive, PTL DEF Spec

\* An occurrence id names one envelope in one mailbox; a mailbox is in order of
\* delivery and within its capacity (Mailbox.lean; Model.lean: send, inject,
\* the receives).
THEOREM MailboxesAreExact == Spec => []MailboxesExact
<1>1. QED BY MailInductive, PTL

\* The waiting envelopes, step by step: one is added with a fresh id, or the
\* mailbox of the running task loses some, or they stay as they are.
LEMMA EnvelopeSteps ==
  ASSUME TypeOK, [Next]_vars
  PROVE  \/ \A a \in Actor : EnvelopesOf(a)' = EnvelopesOf(a)
         \/ \E b \in Actor, src \in Actor \cup {None} :
              /\ Deliver(b, src) /\ nextMsgId \in Message
              /\ \A a \in Actor : EnvelopesOf(a)' =
                   IF a = b
                   THEN EnvelopesOf(a) \cup {[occurrence |-> nextMsgId, source |-> src]}
                   ELSE EnvelopesOf(a)
         \/ \E t \in Task :
              /\ running = t
              /\ \A a \in Actor : /\ EnvelopesOf(a)' \subseteq EnvelopesOf(a)
                                  /\ a # taskOwner[t] => EnvelopesOf(a)' = EnvelopesOf(a)
<1>1. CASE UNCHANGED mailVars
  BY <1>1 DEF mailVars, EnvelopesOf
<1>2. ASSUME NEW b \in Actor, mailboxes' = WithMailbox(b)
      PROVE  \A a \in Actor : EnvelopesOf(a)' = EnvelopesOf(a)
  <2>1. ASSUME NEW a \in Actor
        PROVE  mailboxes'[a] = IF a = b /\ mailboxes[a] = None THEN << >> ELSE mailboxes[a]
    BY <1>2 DEF WithMailbox, TypeOK
  <2>2. Elems(<< >>) = {}
    BY DEF Elems
  <2>3. QED BY <2>1, <2>2 DEF EnvelopesOf
<1>3. ASSUME NEW b \in Actor, NEW src \in Actor \cup {None}, Deliver(b, src)
      PROVE  /\ nextMsgId \in Message
             /\ \A a \in Actor : EnvelopesOf(a)' =
                  IF a = b
                  THEN EnvelopesOf(a) \cup {[occurrence |-> nextMsgId, source |-> src]}
                  ELSE EnvelopesOf(a)
  <2> DEFINE e == [occurrence |-> nextMsgId, source |-> src]
  <2>1. /\ mailboxes[b] \in Seq(Envelope) /\ e \in Envelope /\ nextMsgId \in Message
        /\ mailboxes'[b] = Append(mailboxes[b], e)
        /\ \A a \in Actor \ {b} : mailboxes'[a] = mailboxes[a]
    BY <1>3, DeliveredMailbox
  <2> HIDE DEF e
  <2>2. Elems(Append(mailboxes[b], e)) = Elems(mailboxes[b]) \cup {e}
    BY <2>1, AppendList
  <2>3. Append(mailboxes[b], e) \in Seq(Envelope)
    BY <2>1, AppendProperties
  <2>4. QED BY <2>1, <2>2, <2>3, AbsentAssumption DEF EnvelopesOf, e
<1>4. ASSUME NEW t \in Task, NEW wanted, CanReceive(t), TakeFirst(t, wanted)
      PROVE  /\ running = t
             /\ \A a \in Actor : /\ EnvelopesOf(a)' \subseteq EnvelopesOf(a)
                                 /\ a # taskOwner[t] => EnvelopesOf(a)' = EnvelopesOf(a)
  <2> DEFINE c == taskOwner[t]
  <2>1. /\ c \in Actor /\ mailboxes[c] \in Seq(Envelope)
        /\ mailboxes'[c] = RemoveFirst(mailboxes[c], wanted)
        /\ \A a \in Actor \ {c} : mailboxes'[a] = mailboxes[a]
        /\ Elems(mailboxes[c]) \cap wanted # {}
    BY <1>4, TakenMailbox
  <2>2. running = t
    BY <1>4 DEF CanReceive, IsRunning
  <2> HIDE DEF c
  <2>3. /\ RemoveFirst(mailboxes[c], wanted) \in Seq(Envelope)
        /\ Elems(RemoveFirst(mailboxes[c], wanted)) \subseteq Elems(mailboxes[c])
    BY <2>1, RemoveKeepsOrder
  <2>4. mailboxes[c] # None /\ mailboxes'[c] # None
    BY <2>1, <2>3, AbsentAssumption
  <2>5. Elems(mailboxes'[c]) \subseteq Elems(mailboxes[c])
    BY <2>1, <2>3
  <2>6. \A a \in Actor : /\ EnvelopesOf(a)' \subseteq EnvelopesOf(a)
                         /\ a # c => EnvelopesOf(a)' = EnvelopesOf(a)
    BY <2>1, <2>4, <2>5 DEF EnvelopesOf
  <2>7. QED BY <2>2, <2>6 DEF c
<1>5. QED BY <1>1, <1>2, <1>3, <1>4, MailSteps

\* A message is consumed at most once and only by a task of the actor it was
\* sent to (Mailbox.lean; Model.lean: send, the receives, closeActor).
THEOREM MessagesOnce == Spec => MessagesAtMostOnce
<1> DEFINE A == \A m \in Message, a \in Actor :
                  /\ m < nextMsgId /\ ~ InMailbox(m, a) => ~ InMailbox(m, a)'
                  /\ InMailbox(m, a) /\ ~ InMailbox(m, a)' =>
                       running # None /\ taskOwner[running] = a
<1>1. ASSUME IInv, [Next]_vars PROVE A
  <2>1. TypeOK /\ None \notin Task
    BY <1>1, NoneAssumption DEF IInv, Task
  <2>2. \A a \in Actor, m \in Message :
          /\ InMailbox(m, a) <=> \E e \in EnvelopesOf(a) : e.occurrence = m
          /\ InMailbox(m, a)' <=> \E e \in EnvelopesOf(a)' : e.occurrence = m
    BY DEF InMailbox, EnvelopesOf
  <2>3. CASE \A a \in Actor : EnvelopesOf(a)' = EnvelopesOf(a)
    BY <2>2, <2>3
  <2>4. ASSUME NEW b \in Actor, NEW e, e.occurrence = nextMsgId,
               \A a \in Actor : EnvelopesOf(a)' =
                 IF a = b THEN EnvelopesOf(a) \cup {e} ELSE EnvelopesOf(a)
        PROVE  A
    <3>1. \A m \in Message : m < nextMsgId => m # nextMsgId
      BY <2>1 DEF TypeOK, Message
    <3>2. QED BY <2>2, <2>4, <3>1
  <2>5. ASSUME NEW t \in Task, running = t,
               \A a \in Actor : /\ EnvelopesOf(a)' \subseteq EnvelopesOf(a)
                                /\ a # taskOwner[t] => EnvelopesOf(a)' = EnvelopesOf(a)
        PROVE  A
    <3>1. running # None
      BY <2>1, <2>5
    <3>2. SUFFICES ASSUME NEW m \in Message, NEW a \in Actor
                   PROVE  /\ m < nextMsgId /\ ~ InMailbox(m, a) => ~ InMailbox(m, a)'
                          /\ InMailbox(m, a) /\ ~ InMailbox(m, a)' =>
                               running # None /\ taskOwner[running] = a
      OBVIOUS
    <3>3. CASE a = taskOwner[t]
      BY <2>2, <2>5, <3>1, <3>3
    <3>4. CASE a # taskOwner[t]
      BY <2>2, <2>5, <3>4
    <3>5. QED BY <3>3, <3>4
  <2> HIDE DEF A
  <2>6. ASSUME NEW b \in Actor, NEW src \in Actor \cup {None},
               \A a \in Actor : EnvelopesOf(a)' =
                 IF a = b
                 THEN EnvelopesOf(a) \cup {[occurrence |-> nextMsgId, source |-> src]}
                 ELSE EnvelopesOf(a)
        PROVE  A
    BY <2>4, <2>6
  <2>7. QED BY <1>1, <2>1, <2>3, <2>5, <2>6, EnvelopeSteps
<1>2. IInv /\ [Next]_vars => [A]_vars
  BY <1>1
<1>3. QED BY <1>2, Inductive, PTL DEF Spec, MessagesAtMostOnce

\* Only a delivery puts the next occurrence id into a mailbox.
LEMMA DeliveryIsDeliver ==
  ASSUME TypeOK, MailboxesExact, [Next]_vars, NEW a \in Actor, DeliveredTo(a)
  PROVE  \E src \in Actor \cup {None} : Deliver(a, src)
<1>1. \A c \in Actor : \A e \in EnvelopesOf(c) : e.occurrence # nextMsgId
  <2>1. ASSUME NEW c \in Actor, NEW e \in EnvelopesOf(c) PROVE e.occurrence # nextMsgId
    <3>1. e.occurrence < nextMsgId /\ e.occurrence \in Int /\ nextMsgId \in Nat
      BY MailboxParts, EnvelopeTypes
    <3>2. QED BY <3>1
  <2>2. QED BY <2>1
<1>2. PICK e \in EnvelopesOf(a)' : e.occurrence = nextMsgId
  BY DEF DeliveredTo, InMailbox, EnvelopesOf
<1>3. e \notin EnvelopesOf(a)
  BY <1>1, <1>2
<1>4. QED BY <1>2, <1>3, EnvelopeSteps

\* A delivery wakes one receiver of that mailbox, if there is any, and touches
\* no other parked task (Model.lean: send, inject; Mailbox.lean, wakeOne).
THEOREM OneIsWoken == Spec => DeliveryWakesOne
<1> DEFINE Woken == {t \in Task : taskState[t] \in Parked /\ taskState'[t] # taskState[t]}
           A == \A a \in Actor : DeliveredTo(a) =>
                  IF Receivers(a) = {} THEN Woken = {}
                  ELSE \E t \in Receivers(a) : Woken = {t} /\ taskState'[t] = "ready"
<1>1. ASSUME IInv, MailboxesExact, [Next]_vars PROVE A
  <2>1. SUFFICES ASSUME NEW a \in Actor, DeliveredTo(a)
                 PROVE  IF Receivers(a) = {} THEN Woken = {}
                        ELSE \E t \in Receivers(a) : Woken = {t} /\ taskState'[t] = "ready"
    OBVIOUS
  <2>2. WakeOneOf(a)
    BY <1>1, <2>1, DeliveryIsDeliver DEF Deliver, IInv
  <2>3. CASE UNCHANGED taskState /\ Receivers(a) = {}
    BY <2>3
  <2>4. ASSUME NEW w \in Receivers(a), Moved({w}, "ready")
        PROVE  Woken = {w} /\ taskState'[w] = "ready"
    BY <2>4 DEF Receivers, Moved, Parked
  <2> HIDE DEF Woken
  <2>5. QED BY <1>1, <2>2, <2>3, <2>4, WakeOneOfMoves
<1>2. IInv /\ MailboxesExact /\ [Next]_vars => [A]_vars
  BY <1>1
<1>3. [][A]_vars => DeliveryWakesOne
  BY PTL DEF DeliveryWakesOne
<1>4. QED BY <1>2, <1>3, MailInductive, PTL DEF Spec

-----------------------------------------------------------------------------
(* Who wakes a timed waiter. *)

\* Of all operations only a delivery to its actor and a tick make a timed
\* waiter ready.
LEMMA TimedWakers ==
  ASSUME IInv, [Next]_vars, NEW t \in Task,
         taskState[t] = "waitingTimed", taskState'[t] = "ready"
  PROVE  \/ \E b \in Actor, src \in Actor \cup {None} : Deliver(b, src) /\ taskOwner[t] = b
         \/ \E d \in Deadline : Tick(d)
<1>0. taskState \in [Task -> TaskState \cup {None}]
  BY DEF IInv, TypeOK
<1>1. CASE SchedulerNext
  <2>1. ASSUME NEW st, NEW u, taskState' = [taskState EXCEPT ![u] = st], st # "ready"
        PROVE  FALSE
    BY <1>0, <2>1
  <2>2. ~ Schedule
    BY <2>1 DEF Schedule, Dispatch
  <2>3. ASSUME NEW u \in Task, Yield(u) \/ Complete(u) \/ Cancel(u) \/ Fail(u)
        PROVE  FALSE
    BY <2>1, <2>3 DEF Yield, Complete, Cancel, Fail, Terminate
  <2>4. ASSUME NEW root \in Task, CancelTree(root)
        PROVE  FALSE
    BY <2>4 DEF CancelTree
  <2>5. QED BY <1>1, <2>2, <2>3, <2>4 DEF SchedulerNext
<1>2. CASE CreationNext
  BY <1>0, <1>2 DEF CreationNext, Spawn, SpawnChild, RestartOne, NewTask
<1>3. CASE TimeNext
  BY <1>0, <1>3 DEF TimeNext, Sleep, Wake
<1>4. CASE MessageNext
  <2>1. ASSUME NEW b \in Actor, NEW src \in Actor \cup {None}, Deliver(b, src)
        PROVE  taskOwner[t] = b
    <3>1. WakeOneOf(b)
      BY <2>1 DEF Deliver
    <3>2. CASE UNCHANGED taskState
      BY <3>2
    <3>3. ASSUME NEW w \in Receivers(b), Moved({w}, "ready") PROVE taskOwner[t] = b
      BY <3>3 DEF Moved, Receivers
    <3>4. QED BY <3>1, <3>2, <3>3, WakeOneOfMoves
  <2>2. ASSUME NEW u \in Task, NEW wanted, ReceiveWanted(u, wanted) PROVE FALSE
    BY <1>0, <2>2 DEF ReceiveWanted, TakeFirst, Park
  <2>3. ASSUME NEW u \in Task, NEW d \in Deadline, ReceiveUntil(u, d) PROVE FALSE
    BY <1>0, <2>3 DEF ReceiveUntil, TakeFirst
  <2>4. ASSUME NEW u \in Task, NEW b \in Actor, Send(u, b)
        PROVE  taskOwner[u] \in Actor /\ Deliver(b, taskOwner[u])
    BY <2>4 DEF Send, IInv, TypeOK
  <2>5. QED BY <1>4, <2>1, <2>2, <2>3, <2>4
            DEF MessageNext, Inject, Receive, ReceiveByOccurrence, ReceiveFrom
<1>5. CASE AdmissionNext \/ ResourceNext \/ MetaNext \/ UNCHANGED vars
  BY <1>5 DEF AdmissionNext, CloseActor, Shutdown, StopWhenIdle, StopWhenDrained, Stop,
              ResourceNext, Acquire, AcquireActor, Release, ReleaseActor, Finalize,
              MetaNext, SetPriority, SetDeadline, ledgerOnly, taskVars, vars
<1>6. QED BY <1>1, <1>2, <1>3, <1>4, <1>5 DEF Next

\* A timed waiter is never woken for nothing: there is a delivery to its actor,
\* or its deadline has come (Model.lean: send, tick).
THEOREM TimedWakesAreJustified == Spec => TimedWakeJustified
<1> DEFINE A == \A t \in Task : taskState[t] = "waitingTimed" /\ taskState'[t] = "ready" =>
                  \/ DeliveredTo(taskOwner[t])
                  \/ waitDeadline[t] <= now'
<1>1. ASSUME IInv, [Next]_vars, NEW t \in Task,
             taskState[t] = "waitingTimed", taskState'[t] = "ready"
      PROVE  DeliveredTo(taskOwner[t]) \/ waitDeadline[t] <= now'
  <2>1. TypeOK
    BY <1>1 DEF IInv
  <2>2. ASSUME NEW b \in Actor, NEW src \in Actor \cup {None}, Deliver(b, src)
        PROVE  DeliveredTo(b)
    <3> DEFINE e == [occurrence |-> nextMsgId, source |-> src]
    <3>1. /\ mailboxes[b] \in Seq(Envelope) /\ nextMsgId \in Message /\ e \in Envelope
          /\ mailboxes'[b] = Append(mailboxes[b], e) /\ e.occurrence = nextMsgId
      BY <2>1, <2>2, DeliveredMailbox
    <3> HIDE DEF e
    <3>2. e \in Elems(Append(mailboxes[b], e))
      BY <3>1, AppendList
    <3>3. Append(mailboxes[b], e) \in Seq(Envelope)
      BY <3>1, AppendProperties
    <3>4. mailboxes'[b] # None /\ e \in Elems(mailboxes'[b])
      BY <3>1, <3>2, <3>3, AbsentAssumption
    <3>5. PICK m \in Message : m = nextMsgId
      BY <3>1
    <3>6. InMailbox(m, b)'
      BY <3>1, <3>4, <3>5 DEF InMailbox
    <3>7. QED BY <3>5, <3>6 DEF DeliveredTo
  <2>3. ASSUME NEW d \in Deadline, Tick(d)
        PROVE  waitDeadline[t] <= now'
    <3>1. PICK S \in SUBSET Task :
            /\ Moved(S, "ready")
            /\ S \subseteq {e.task : e \in {f \in Elems(timers) : f.deadline <= d}}
      BY <1>1, <2>3, TickMoves
    <3>2. t \in S
      BY <1>1, <3>1 DEF Moved
    <3>3. PICK e \in Elems(timers) : e.task = t /\ e.deadline <= d
      BY <3>1, <3>2
    <3>4. waitDeadline[t] = e.deadline
      BY <1>1, <3>3 DEF IInv, TimersExact
    <3>5. QED BY <2>3, <3>3, <3>4 DEF Tick
  <2>4. QED BY <1>1, <2>2, <2>3, TimedWakers
<1>2. IInv /\ [Next]_vars => [A]_vars
  BY <1>1
<1>3. QED BY <1>2, Inductive, PTL DEF Spec, TimedWakeJustified

-----------------------------------------------------------------------------
(* What a step does to the owners and to the ledger. *)

\* The tasks of D have ended after this step, and what they held is closing.
Ended(D) ==
  /\ MarkClosing({TaskOwner(t) : t \in D})
  /\ UNCHANGED << nextResourceId, actorStatus, mailboxes >>
  /\ \A t \in Task :
       /\ t \in D => /\ taskState[t] # None /\ taskState'[t] \in Terminal
                     /\ taskState[t] \in Terminal => taskState'[t] = taskState[t]
       /\ t \notin D => taskState'[t] = taskState[t]

\* No owner comes or goes, and the ledger is left alone.
OwnersStay ==
  /\ UNCHANGED << resources, nextResourceId, actorStatus >>
  /\ \A t \in Task : /\ Live(t)' <=> Live(t)
                     /\ taskState'[t] \in Terminal <=> taskState[t] \in Terminal
  /\ \A a \in Actor : mailboxes'[a] # None <=> mailboxes[a] # None

\* A live task that moves to a live state is as good an owner as before.
LEMMA StillLive ==
  ASSUME TypeOK, NEW S, NEW st \in Runnable \cup Parked \cup {"running"},
         Moved(S, st), \A t \in S : Live(t)
  PROVE  \A t \in Task : /\ Live(t)' <=> Live(t)
                         /\ taskState'[t] \in Terminal <=> taskState[t] \in Terminal
<1>1. st \notin Terminal \cup {None}
  BY AbsentAssumption DEF TaskState, Terminal, Runnable, Parked
<1>2. ASSUME NEW t \in Task
      PROVE  /\ Live(t)' <=> Live(t)
             /\ taskState'[t] \in Terminal <=> taskState[t] \in Terminal
  <2>1. CASE t \in S
    <3>1. taskState'[t] = st /\ Live(t)
      BY <1>2, <2>1 DEF Moved
    <3>2. QED BY <1>1, <3>1 DEF Live
  <2>2. CASE t \notin S
    <3>1. taskState'[t] = taskState[t]
      BY <1>2, <2>2 DEF Moved
    <3>2. QED BY <3>1 DEF Live
  <2>3. QED BY <2>1, <2>2
<1>3. QED BY <1>2

\* The tasks in a state other than the terminal ones are live.
LEMMA LiveStates ==
  \A t \in Task : taskState[t] \in Runnable \cup Parked \cup {"running"} => Live(t)
  BY AbsentAssumption DEF Live, Terminal, Runnable, Parked, TaskState

\* A step that touches no record and only moves live tasks to live states.
LEMMA OwnersKept ==
  ASSUME TypeOK, UNCHANGED << ledgerVars, actorStatus >>,
         NEW S, NEW st \in Runnable \cup Parked \cup {"running"},
         \/ UNCHANGED taskState
         \/ Moved(S, st) /\ \A t \in S : Live(t),
         \A a \in Actor : mailboxes'[a] # None <=> mailboxes[a] # None
  PROVE  OwnersStay
<1>1. CASE UNCHANGED taskState
  BY <1>1 DEF OwnersStay, Live, ledgerVars
<1>2. CASE Moved(S, st) /\ \A t \in S : Live(t)
  BY <1>2, StillLive DEF OwnersStay, ledgerVars
<1>3. QED BY <1>1, <1>2

\* Scheduling, time and messages leave every owner in place.
LEMMA OwnersKeptByMoves ==
  ASSUME IInv,
         \/ Schedule
         \/ \E t \in Task : Yield(t)
         \/ TimeNext
         \/ MessageNext
  PROVE  OwnersStay
<1>0. TypeOK
  BY DEF IInv
<1> DEFINE Alive == Runnable \cup Parked \cup {"running"}
<1>a. /\ {"ready", "yielded"} \subseteq Runnable
      /\ {"sleeping", "waiting", "waitingTimed"} = Parked
  BY DEF Runnable, Parked
<1>b. ASSUME NEW t \in Task, NEW st \in Alive, taskState' = [taskState EXCEPT ![t] = st],
             taskState[t] \in Alive, UNCHANGED << ledgerVars, actorStatus, mailboxes >>
      PROVE  OwnersStay
  <2>1. Moved({t}, st) /\ \A u \in {t} : Live(u)
    BY <1>0, <1>b, MovedOne, LiveStates
  <2>2. QED BY <1>0, <1>b, <2>1, OwnersKept
<1>1. CASE Schedule
  <2>1. Head(readyQ) \in Task /\ taskState[Head(readyQ)] \in Runnable
    BY <1>1, HeadIsRunnable DEF Schedule, Dispatch, CanDispatch
  <2>2. /\ taskState' = [taskState EXCEPT ![Head(readyQ)] = "running"]
        /\ UNCHANGED << ledgerVars, actorStatus, mailboxes >>
    BY <1>1 DEF Schedule, Dispatch, mailVars, statusVars
  <2>3. QED BY <1>b, <2>1, <2>2
<1>2. ASSUME NEW t \in Task, Yield(t) PROVE OwnersStay
  BY <1>a, <1>b, <1>2 DEF Yield, IsRunning, mailVars, statusVars
<1>3. CASE TimeNext
  <2>1. ASSUME NEW t \in Task, NEW d \in Deadline, Sleep(t, d) PROVE OwnersStay
    BY <1>a, <1>b, <2>1 DEF Sleep, IsRunning, mailVars, statusVars
  <2>2. ASSUME NEW t \in Task, Wake(t) PROVE OwnersStay
    BY <1>a, <1>b, <2>2 DEF Wake, mailVars, statusVars
  <2>3. ASSUME NEW d \in Deadline, Tick(d) PROVE OwnersStay
    <3>1. PICK S \in SUBSET Task : Moved(S, "ready")
                                   /\ \A t \in S : taskState[t] \in {"sleeping", "waitingTimed"}
      BY <2>3, TickMoves
    <3>2. \A t \in S : Live(t)
      BY <1>a, <3>1, LiveStates
    <3>3. UNCHANGED << ledgerVars, actorStatus, mailboxes >>
      BY <2>3 DEF Tick, mailVars, statusVars
    <3>4. QED BY <1>0, <1>a, <3>1, <3>2, <3>3, OwnersKept
  <2>4. QED BY <1>3, <2>1, <2>2, <2>3 DEF TimeNext
<1>4. CASE MessageNext
  <2>1. ASSUME NEW b \in Actor, NEW src \in Actor \cup {None}, Deliver(b, src)
        PROVE  OwnersStay
    <3>1. \A a \in Actor : mailboxes'[a] # None <=> mailboxes[a] # None
      <4>1. \A a \in Actor \ {b} : mailboxes'[a] = mailboxes[a]
        BY <1>0, <2>1, DeliveredMailbox
      <4>2. mailboxes[b] # None /\ mailboxes'[b] # None
        <5>1. Append(mailboxes[b], [occurrence |-> nextMsgId, source |-> src]) \in Seq(Envelope)
          BY <1>0, <2>1, DeliveredMailbox, AppendProperties
        <5>2. QED BY <1>0, <2>1, <5>1, DeliveredMailbox, AbsentAssumption
      <4>3. QED BY <4>1, <4>2
    <3>2. WakeOneOf(b) /\ UNCHANGED << ledgerVars, actorStatus >>
      BY <2>1 DEF Deliver, statusVars
    <3>3. CASE UNCHANGED taskState
      BY <1>0, <1>a, <3>1, <3>2, <3>3, OwnersKept
    <3>4. ASSUME NEW w \in Receivers(b), Moved({w}, "ready") PROVE OwnersStay
      <4>1. \A u \in {w} : Live(u)
        BY <1>a, LiveStates DEF Receivers
      <4>2. QED BY <1>0, <1>a, <3>1, <3>2, <3>4, <4>1, OwnersKept
    <3>5. QED BY <3>2, <3>3, <3>4, WakeOneOfMoves
  <2>2. ASSUME NEW t \in Task, NEW wanted, CanReceive(t), TakeFirst(t, wanted)
        PROVE  OwnersStay
    <3>1. \A a \in Actor : mailboxes'[a] # None <=> mailboxes[a] # None
      <4> DEFINE c == taskOwner[t]
      <4>1. /\ c \in Actor /\ mailboxes[c] \in Seq(Envelope)
            /\ mailboxes'[c] = RemoveFirst(mailboxes[c], wanted)
            /\ \A a \in Actor \ {c} : mailboxes'[a] = mailboxes[a]
            /\ Elems(mailboxes[c]) \cap wanted # {}
        BY <1>0, <2>2, TakenMailbox
      <4> HIDE DEF c
      <4>2. RemoveFirst(mailboxes[c], wanted) \in Seq(Envelope)
        BY <4>1, RemoveKeepsOrder
      <4>3. mailboxes[c] # None /\ mailboxes'[c] # None
        BY <4>1, <4>2, AbsentAssumption
      <4>4. QED BY <4>1, <4>3
    <3>2. UNCHANGED << taskState, ledgerVars, actorStatus >>
      BY <2>2 DEF TakeFirst, statusVars
    <3>3. QED BY <1>0, <1>a, <3>1, <3>2, OwnersKept
  <2>3. ASSUME NEW t \in Task, NEW wanted, ReceiveWanted(t, wanted)
        PROVE  OwnersStay
    <3>1. CASE Park(t)
      BY <1>a, <1>b, <2>3, <3>1 DEF ReceiveWanted, CanReceive, IsRunning, Park, mailVars,
                                    statusVars
    <3>2. CASE TakeFirst(t, wanted)
      BY <2>2, <2>3, <3>2 DEF ReceiveWanted
    <3>3. QED BY <2>3, <3>1, <3>2 DEF ReceiveWanted
  <2>4. ASSUME NEW t \in Task, NEW d \in Deadline, ReceiveUntil(t, d)
        PROVE  OwnersStay
    <3>1. CASE TakeFirst(t, Envelope)
      BY <2>2, <2>4, <3>1 DEF ReceiveUntil
    <3>2. CASE ~ TakeFirst(t, Envelope)
      BY <1>a, <1>b, <2>4, <3>2 DEF ReceiveUntil, CanReceive, IsRunning, mailVars,
                                    statusVars
    <3>3. QED BY <3>1, <3>2
  <2>5. ASSUME NEW t \in Task, NEW b \in Actor, Send(t, b)
        PROVE  taskOwner[t] \in Actor /\ Deliver(b, taskOwner[t])
    BY <1>0, <2>5 DEF Send, TypeOK
  <2>6. QED BY <1>4, <2>1, <2>3, <2>4, <2>5
            DEF MessageNext, Inject, Receive, ReceiveByOccurrence, ReceiveFrom
<1>5. QED BY <1>1, <1>2, <1>3, <1>4

\* A step creates a task, ends tasks, closes an actor, grants a resource to an
\* open owner, takes one back, or leaves owners and ledger alone.
LEMMA LedgerSteps ==
  ASSUME IInv, [Next]_vars
  PROVE  \/ \E a \in Actor, p, r \in Task \cup {None} : Created(a, p, r)
         \/ \E D \in SUBSET Task : Ended(D)
         \/ \E a \in Actor : CloseActor(a)
         \/ \E o \in Owner : OwnerOpen(o) /\ Allocate(o) /\ UNCHANGED ledgerOnly
         \/ \E r \in Resource, o \in Owner, from \in {"allocated", "closing"} :
              Reclaim(r, o, from) /\ UNCHANGED ledgerOnly
         \/ OwnersStay
<1>0. TypeOK
  BY DEF IInv
<1>1. CASE SchedulerNext
  <2>1. ASSUME NEW t \in Task, Complete(t) PROVE Ended({t})
    <3>1. {TaskOwner(u) : u \in {t}} = {TaskOwner(t)}
      OBVIOUS
    <3>2. MarkClosing({TaskOwner(u) : u \in {t}})
      BY <2>1, <3>1 DEF Complete
    <3>3. taskState[t] = "running" /\ taskState' = [taskState EXCEPT ![t] = "completed"]
      BY <2>1 DEF Complete, IsRunning
    <3>4. UNCHANGED << nextResourceId, actorStatus, mailboxes >>
      BY <2>1 DEF Complete, mailVars, statusVars
    <3>5. QED BY <1>0, <3>2, <3>3, <3>4, AbsentAssumption
              DEF Ended, TypeOK, Terminal, TaskState
  <2>2. ASSUME NEW t \in Task, NEW st \in Terminal, Terminate(t, st) PROVE Ended({t})
    <3>1. {TaskOwner(u) : u \in {t}} = {TaskOwner(t)}
      OBVIOUS
    <3>2. MarkClosing({TaskOwner(u) : u \in {t}})
      BY <2>2, <3>1 DEF Terminate
    <3>3. Live(t) /\ taskState' = [taskState EXCEPT ![t] = st]
      BY <2>2 DEF Terminate
    <3>4. UNCHANGED << nextResourceId, actorStatus, mailboxes >>
      BY <2>2 DEF Terminate, mailVars, statusVars
    <3>5. QED BY <1>0, <3>2, <3>3, <3>4 DEF Ended, TypeOK, Live
  <2>3. ASSUME NEW root \in Task, CancelTree(root) PROVE Ended(DescendantsOf(root))
    <3> DEFINE D == DescendantsOf(root)
    <3>1. D \subseteq Task /\ \A t \in D : taskState[t] # None
      BY DEF DescendantsOf
    <3>2. /\ taskState' = [t \in Task |->
               IF t \in D /\ Live(t) THEN "cancelled" ELSE taskState[t]]
          /\ MarkClosing({TaskOwner(t) : t \in D})
          /\ UNCHANGED << nextResourceId, actorStatus, mailboxes >>
      BY <2>3 DEF CancelTree, mailVars, statusVars
    <3> HIDE DEF D
    <3>3. Ended(D)
      BY <3>1, <3>2 DEF Ended, Live, Terminal
    <3>4. QED BY <3>3 DEF D
  <2>4. QED BY <1>0, <1>1, <2>1, <2>2, <2>3, OwnersKeptByMoves
            DEF SchedulerNext, Cancel, Fail, Terminal, DescendantsOf
<1>2. CASE CreationNext
  BY <1>2, CreationSteps
<1>3. CASE TimeNext \/ MessageNext
  BY <1>3, OwnersKeptByMoves
<1>4. CASE AdmissionNext
  <2>1. CASE Shutdown \/ Stop
    BY <2>1 DEF Shutdown, Stop, taskVars, mailVars, ledgerVars, OwnersStay, Live
  <2>2. QED BY <1>4, <2>1 DEF AdmissionNext, StopWhenIdle, StopWhenDrained
<1>5. CASE ResourceNext
  <2>1. ASSUME NEW t \in Task, Acquire(t)
        PROVE  TaskOwner(t) \in Owner /\ OwnerOpen(TaskOwner(t))
               /\ Allocate(TaskOwner(t)) /\ UNCHANGED ledgerOnly
    <3>1. Live(t)
      BY <2>1, LiveStates DEF Acquire, IsRunning
    <3>2. QED BY <2>1, <3>1 DEF Acquire, Owner, OwnerOpen, TaskOwner
  <2>2. ASSUME NEW a \in Actor, AcquireActor(a)
        PROVE  ActorOwner(a) \in Owner /\ OwnerOpen(ActorOwner(a))
               /\ Allocate(ActorOwner(a)) /\ UNCHANGED ledgerOnly
    BY <2>2 DEF AcquireActor, Owner, OwnerOpen, ActorOwner
  <2>3. ASSUME NEW t \in Task, NEW r \in Resource, Release(t, r)
        PROVE  TaskOwner(t) \in Owner /\ Reclaim(r, TaskOwner(t), "allocated")
               /\ UNCHANGED ledgerOnly
    BY <2>3 DEF Release, Owner
  <2>4. ASSUME NEW a \in Actor, NEW r \in Resource, ReleaseActor(a, r)
        PROVE  ActorOwner(a) \in Owner /\ Reclaim(r, ActorOwner(a), "allocated")
               /\ UNCHANGED ledgerOnly
    BY <2>4 DEF ReleaseActor, Owner
  <2>5. ASSUME NEW r \in Resource, Finalize(r)
        PROVE  resources[r].owner \in Owner /\ Reclaim(r, resources[r].owner, "closing")
               /\ UNCHANGED ledgerOnly
    BY <1>0, <2>5 DEF Finalize, InState, TypeOK, LedgerTypeOK, Record
  <2>6. QED BY <1>5, <2>1, <2>2, <2>3, <2>4, <2>5, Zenon DEF ResourceNext
<1>6. CASE MetaNext \/ UNCHANGED vars
  BY <1>6 DEF MetaNext, SetPriority, SetDeadline, taskVars, mailVars, statusVars,
              ledgerVars, vars, OwnersStay, Live
<1>7. QED BY <1>1, <1>2, <1>3, <1>4, <1>5, <1>6 DEF Next

-----------------------------------------------------------------------------
(* The ledger. *)

\* Is the owner o there, or has it been there?
Known(o) ==
  \/ o.kind = "task" /\ taskState[o.id] # None
  \/ o.kind = "actor" /\ mailboxes[o.id] # None

\* Nothing is held by an owner that is still to come.
OwnersKnown == \A r \in Resource : resources[r] # None => Known(resources[r].owner)

\* An owner is a task or an actor, and it is known from its two fields which.
LEMMA OwnerCases ==
  ASSUME NEW o \in Owner
  PROVE  \/ /\ o.kind = "task" /\ o.id \in Task /\ o = TaskOwner(o.id)
         \/ /\ o.kind = "actor" /\ o.id \in Actor /\ o = ActorOwner(o.id)
  BY DEF Owner, TaskOwner, ActorOwner

\* A record that is there has an owner and one of three states.
LEMMA RecordFacts ==
  ASSUME TypeOK, NEW r \in Resource, resources[r] # None
  PROVE  /\ resources[r] \in Record /\ resources[r].owner \in Owner
         /\ resources[r].state \in {"allocated", "closing", "released"}
         /\ resources[r] = [owner |-> resources[r].owner, state |-> resources[r].state]
  BY DEF TypeOK, LedgerTypeOK, Record

\* What a marking of these owners does to one record.
LEMMA Marked ==
  ASSUME TypeOK, NEW owners, MarkClosing(owners), NEW r \in Resource
  PROVE  /\ resources'[r] # None <=> resources[r] # None
         /\ resources[r] # None => resources'[r].owner = resources[r].owner
         /\ InState(r, "allocated") /\ resources[r].owner \in owners =>
              resources'[r].state = "closing"
         /\ ~ (InState(r, "allocated") /\ resources[r].owner \in owners) =>
              resources'[r] = resources[r]
<1>1. resources'[r] = IF InState(r, "allocated") /\ resources[r].owner \in owners
                      THEN [resources[r] EXCEPT !.state = "closing"]
                      ELSE resources[r]
  BY DEF MarkClosing
<1>2. CASE InState(r, "allocated") /\ resources[r].owner \in owners
  <2>1. resources[r] # None
    BY <1>2 DEF InState
  <2>2. resources'[r] \in Record /\ resources'[r].owner = resources[r].owner
        /\ resources'[r].state = "closing"
    BY <1>1, <1>2, <2>1, RecordFacts DEF Record
  <2>3. QED BY <1>2, <2>1, <2>2, NoRecordAssumption
<1>3. CASE ~ (InState(r, "allocated") /\ resources[r].owner \in owners)
  BY <1>1, <1>3
<1>4. QED BY <1>2, <1>3

\* What a release does to one record.
LEMMA Reclaimed ==
  ASSUME TypeOK, NEW r \in Resource, NEW o, NEW from, Reclaim(r, o, from)
  PROVE  /\ resources[r] # None /\ resources'[r] # None
         /\ resources'[r].owner = resources[r].owner /\ resources'[r].state = "released"
         /\ \A s \in Resource \ {r} : resources'[s] = resources[s]
<1>1. resources[r] # None /\ resources' = [resources EXCEPT ![r].state = "released"]
  BY DEF Reclaim, InState
<1>2. resources'[r] = [resources[r] EXCEPT !.state = "released"]
      /\ \A s \in Resource \ {r} : resources'[s] = resources[s]
  BY <1>1 DEF TypeOK, LedgerTypeOK
<1>3. /\ resources'[r] \in Record /\ resources'[r].owner = resources[r].owner
      /\ resources'[r].state = "released"
  <2>1. resources[r] \in Record
    BY <1>1, RecordFacts
  <2>2. QED BY <1>2, <2>1 DEF Record
<1>4. QED BY <1>1, <1>2, <1>3, NoRecordAssumption

\* What a grant does: one record is added under the next id.
LEMMA Granted ==
  ASSUME TypeOK, NEW o \in Owner, Allocate(o)
  PROVE  /\ nextResourceId \in Resource /\ nextResourceId' = nextResourceId + 1
         /\ resources'[nextResourceId] = [owner |-> o, state |-> "allocated"]
         /\ resources'[nextResourceId] # None
         /\ \A s \in Resource \ {nextResourceId} : resources'[s] = resources[s]
<1>1. nextResourceId \in Resource
  BY BoundsAssumption DEF Allocate, TypeOK, LedgerTypeOK, Resource
<1>2. [owner |-> o, state |-> "allocated"] \in Record
  BY DEF Record
<1>3. QED BY <1>1, <1>2, NoRecordAssumption DEF Allocate, TypeOK, LedgerTypeOK

\* The inductive invariant with the ledger in it.
LedgerInv == IInv /\ LedgerExact /\ OwnersKnown

\* The operations that end tasks or close an actor: owners only go, and what
\* a vanished owner had allocated is closing.
LEMMA OwnersGo ==
  ASSUME LedgerInv, NEW gone \in SUBSET Owner, MarkClosing(gone), UNCHANGED nextResourceId,
         \A o \in Owner : OwnerOpen(o)' <=> OwnerOpen(o) /\ o \notin gone,
         \A t \in Task : taskState[t] # None => taskState'[t] # None,
         \A a \in Actor : mailboxes[a] # None => mailboxes'[a] # None
  PROVE  LedgerExact' /\ OwnersKnown'
<1>1. TypeOK /\ LedgerExact /\ OwnersKnown
  BY DEF LedgerInv, IInv
<1>2. SUFFICES ASSUME NEW r \in Resource
               PROVE  /\ resources'[r] # None <=> r < nextResourceId'
                      /\ InState(r, "allocated")' => OwnerOpen(resources[r].owner)'
                      /\ InState(r, "closing")' => ~ OwnerOpen(resources[r].owner)'
                      /\ resources'[r] # None =>
                           \/ /\ resources'[r].owner.kind = "task"
                              /\ taskState'[resources'[r].owner.id] # None
                           \/ /\ resources'[r].owner.kind = "actor"
                              /\ mailboxes'[resources'[r].owner.id] # None
  BY DEF LedgerExact, OwnersKnown, Known
<1> DEFINE o == resources[r].owner
<1>3. /\ resources'[r] # None <=> resources[r] # None
      /\ resources[r] # None => resources'[r].owner = o
      /\ InState(r, "allocated") /\ o \in gone => resources'[r].state = "closing"
      /\ ~ (InState(r, "allocated") /\ o \in gone) => resources'[r] = resources[r]
  BY <1>1, Marked
<1>4. CASE resources[r] = None
  BY <1>1, <1>3, <1>4 DEF InState, LedgerExact
<1>5. CASE resources[r] # None
  <2>1. o \in Owner /\ resources[r].state \in {"allocated", "closing", "released"}
    BY <1>1, <1>5, RecordFacts
  <2>2. /\ r < nextResourceId
        /\ InState(r, "allocated") => OwnerOpen(o)
        /\ InState(r, "closing") => ~ OwnerOpen(o)
        /\ \/ o.kind = "task" /\ taskState[o.id] # None
           \/ o.kind = "actor" /\ mailboxes[o.id] # None
    BY <1>1, <1>5 DEF LedgerExact, OwnersKnown, Known
  <2>3. OwnerOpen(resources[r].owner)' <=> OwnerOpen(o) /\ o \notin gone
    <3>1. OwnerOpen(resources[r].owner)' <=>
            \/ resources'[r].owner.kind = "task" /\ Live(resources[r].owner.id)'
            \/ /\ resources'[r].owner.kind = "actor"
               /\ mailboxes'[resources'[r].owner.id] # None
               /\ actorStatus'[resources'[r].owner.id] = "active"
      BY DEF OwnerOpen
    <3>2. PICK x \in Owner : x = o
      BY <2>1
    <3>3. OwnerOpen(x)' <=>
            \/ x.kind = "task" /\ taskState'[x.id] \notin Terminal \cup {None}
            \/ x.kind = "actor" /\ mailboxes'[x.id] # None /\ actorStatus'[x.id] = "active"
      BY DEF OwnerOpen, Live
    <3>4. OwnerOpen(resources[r].owner)' <=> OwnerOpen(x)'
      BY <1>3, <1>5, <3>1, <3>2, <3>3 DEF Live
    <3>5. QED BY <3>2, <3>4
  <2>4. \/ o.kind = "task" /\ taskState'[o.id] # None
        \/ o.kind = "actor" /\ mailboxes'[o.id] # None
    BY <2>1, <2>2, OwnerCases
  <2> HIDE DEF o
  <2>5. InState(r, "allocated")' => OwnerOpen(resources[r].owner)'
    <3>1. InState(r, "allocated")' => InState(r, "allocated") /\ o \notin gone
      BY <1>3, <1>5 DEF InState, o
    <3>2. QED BY <2>2, <2>3, <3>1
  <2>6. InState(r, "closing")' => ~ OwnerOpen(resources[r].owner)'
    <3>1. InState(r, "closing")' => InState(r, "closing") \/ o \in gone
      BY <1>3, <1>5 DEF InState, o
    <3>2. QED BY <2>2, <2>3, <3>1
  <2>7. QED BY <1>3, <1>5, <2>2, <2>4, <2>5, <2>6 DEF o
<1>6. QED BY <1>4, <1>5


\* The operations that leave the known owners as they are.
LEMMA OwnersSame ==
  ASSUME LedgerInv, UNCHANGED << resources, nextResourceId >>,
         \A o \in Owner : Known(o) => Known(o)' /\ (OwnerOpen(o)' <=> OwnerOpen(o))
  PROVE  LedgerExact' /\ OwnersKnown'
<1>1. TypeOK /\ LedgerExact /\ OwnersKnown
  BY DEF LedgerInv, IInv
<1>2. SUFFICES ASSUME NEW r \in Resource
               PROVE  /\ resources'[r] # None <=> r < nextResourceId'
                      /\ InState(r, "allocated")' => OwnerOpen(resources[r].owner)'
                      /\ InState(r, "closing")' => ~ OwnerOpen(resources[r].owner)'
                      /\ resources'[r] # None => Known(resources[r].owner)'
  BY DEF LedgerExact, OwnersKnown
<1>3. CASE resources[r] = None
  BY <1>1, <1>3 DEF InState, LedgerExact
<1>4. CASE resources[r] # None
  <2>1. PICK x \in Owner : x = resources[r].owner /\ x = resources'[r].owner
    BY <1>1, <1>4, RecordFacts
  <2>2. /\ OwnerOpen(resources[r].owner)' <=> OwnerOpen(x)'
        /\ Known(resources[r].owner)' <=> Known(x)'
    BY <2>1 DEF OwnerOpen, Known, Live
  <2>3. /\ r < nextResourceId /\ Known(x)
        /\ InState(r, "allocated") => OwnerOpen(x)
        /\ InState(r, "closing") => ~ OwnerOpen(x)
    BY <1>1, <1>4, <2>1 DEF LedgerExact, OwnersKnown
  <2>4. /\ InState(r, "allocated")' <=> InState(r, "allocated")
        /\ InState(r, "closing")' <=> InState(r, "closing")
    BY DEF InState
  <2>5. QED BY <1>4, <2>2, <2>3, <2>4
<1>5. QED BY <1>3, <1>4

\* A new task, or an actor's first mailbox, is nobody that holds a resource.
LEMMA CreatedKnown ==
  ASSUME TypeOK, NEW a \in Actor, NEW p \in Task \cup {None}, NEW r \in Task \cup {None},
         Created(a, p, r), NEW o \in Owner, Known(o)
  PROVE  Known(o)' /\ (OwnerOpen(o)' <=> OwnerOpen(o))
<1>1. /\ UNCHANGED actorStatus /\ taskState[nextId] = None
      /\ \A t \in Task : t # nextId => taskState'[t] = taskState[t]
      /\ \A b \in Actor : mailboxes[b] # None => mailboxes'[b] = mailboxes[b]
  BY DEF Created, NewTask, TypeOK, statusVars, WithMailbox
<1>2. CASE o.kind = "task" /\ o.id \in Task
  BY <1>1, <1>2 DEF Known, OwnerOpen, Live
<1>3. CASE o.kind = "actor" /\ o.id \in Actor
  BY <1>1, <1>3 DEF Known, OwnerOpen, Live
<1>4. QED BY <1>2, <1>3, OwnerCases

\* Nor does a step that keeps every owner change anything for them.
LEMMA StayedKnown ==
  ASSUME OwnersStay, NEW o \in Owner
  PROVE  /\ Known(o)' <=> Known(o)
         /\ OwnerOpen(o)' <=> OwnerOpen(o)
<1>1. CASE o.kind = "task" /\ o.id \in Task
  <2>1. /\ Live(o.id)' <=> Live(o.id)
        /\ taskState'[o.id] \in Terminal <=> taskState[o.id] \in Terminal
    BY <1>1 DEF OwnersStay
  <2>2. None \notin Terminal
    BY AbsentAssumption DEF TaskState
  <2>3. taskState'[o.id] # None <=> taskState[o.id] # None
    BY <2>1, <2>2 DEF Live
  <2>4. QED BY <1>1, <2>1, <2>3 DEF Known, OwnerOpen
<1>2. CASE o.kind = "actor" /\ o.id \in Actor
  BY <1>2 DEF OwnersStay, Known, OwnerOpen
<1>3. QED BY <1>1, <1>2, OwnerCases

\* A step on one record, of an owner that is there, leaves the owners alone.
LEMMA RecordChanged ==
  ASSUME LedgerInv, UNCHANGED << taskState, mailboxes, actorStatus >>,
         NEW c \in Resource, \A r \in Resource \ {c} : resources'[r] = resources[r],
         resources'[c] # None, resources'[c].owner \in Owner, Known(resources'[c].owner),
         resources'[c].state \in {"allocated", "released"},
         resources'[c].state = "allocated" => OwnerOpen(resources'[c].owner),
         \A r \in Resource : r < nextResourceId' <=> r < nextResourceId \/ r = c
  PROVE  LedgerExact' /\ OwnersKnown'
<1>1. LedgerExact /\ OwnersKnown
  BY DEF LedgerInv
<1>2. \A o : /\ OwnerOpen(o)' <=> OwnerOpen(o)
             /\ Known(o)' <=> Known(o)
  BY DEF OwnerOpen, Known, Live
<1>3. SUFFICES ASSUME NEW r \in Resource
               PROVE  /\ resources'[r] # None <=> r < nextResourceId'
                      /\ InState(r, "allocated")' => OwnerOpen(resources[r].owner)'
                      /\ InState(r, "closing")' => ~ OwnerOpen(resources[r].owner)'
                      /\ resources'[r] # None => Known(resources[r].owner)'
  BY DEF LedgerExact, OwnersKnown
<1>4. CASE r = c
  BY <1>2, <1>4 DEF InState, OwnerOpen, Known, Live
<1>5. CASE r # c
  BY <1>1, <1>2, <1>5 DEF LedgerExact, OwnersKnown, InState, OwnerOpen, Known, Live
<1>6. QED BY <1>4, <1>5

\* Which owners are gone once the tasks of D have ended, and what is marked.
LEMMA EndedOwners ==
  ASSUME LedgerInv, NEW D \in SUBSET Task, Ended(D)
  PROVE  /\ {TaskOwner(t) : t \in D} \subseteq Owner
         /\ \A o \in Owner : OwnerOpen(o)' <=> OwnerOpen(o) /\ o \notin {TaskOwner(t) : t \in D}
         /\ \A t \in Task : taskState[t] # None => taskState'[t] # None
<1>1. None \notin Terminal
  BY AbsentAssumption DEF TaskState
<1>2. \A t \in Task : Live(t)' <=> Live(t) /\ t \notin D
  BY <1>1 DEF Ended, Live
<1>3. ASSUME NEW o \in Owner
      PROVE  OwnerOpen(o)' <=> OwnerOpen(o) /\ o \notin {TaskOwner(t) : t \in D}
  <2>1. CASE o.kind = "task" /\ o.id \in Task /\ o = TaskOwner(o.id)
    <3>1. o \in {TaskOwner(t) : t \in D} <=> o.id \in D
      BY <2>1 DEF TaskOwner
    <3>2. QED BY <1>2, <2>1, <3>1 DEF OwnerOpen
  <2>2. CASE o.kind = "actor" /\ o.id \in Actor /\ o = ActorOwner(o.id)
    <3>1. o \notin {TaskOwner(t) : t \in D}
      BY <2>2 DEF TaskOwner
    <3>2. QED BY <2>2, <3>1 DEF OwnerOpen, Ended
  <2>3. QED BY <2>1, <2>2, OwnerCases
<1>4. \A t \in Task : taskState[t] # None => taskState'[t] # None
  BY <1>1 DEF Ended
<1>5. QED BY <1>3, <1>4 DEF Owner

\* The same for closeActor, of an actor that may be closed already.
LEMMA ClosedOwners ==
  ASSUME LedgerInv, NEW a \in Actor, CloseActor(a)
  PROVE  /\ ActorOwner(a) \in Owner
         /\ MarkClosing({ActorOwner(a)})
         /\ UNCHANGED << taskState, mailboxes, nextResourceId >>
         /\ \A o \in Owner : OwnerOpen(o)' <=> OwnerOpen(o) /\ o \notin {ActorOwner(a)}
<1>1. /\ MarkClosing({ActorOwner(a)})
      /\ UNCHANGED << taskState, mailboxes, nextResourceId >>
      /\ actorStatus' = [actorStatus EXCEPT ![a] = "closed"]
      /\ actorStatus \in [Actor -> {"active", "closed"}]
  BY DEF CloseActor, taskVars, mailVars, LedgerInv, IInv, TypeOK
<1>2. ASSUME NEW o \in Owner
      PROVE  OwnerOpen(o)' <=> OwnerOpen(o) /\ o \notin {ActorOwner(a)}
  <2>1. CASE o.kind = "task" /\ o.id \in Task
    <3>1. o # ActorOwner(a)
      BY <2>1 DEF ActorOwner
    <3>2. QED BY <1>1, <2>1, <3>1 DEF OwnerOpen, Live
  <2>2. CASE o.kind = "actor" /\ o.id \in Actor /\ o = ActorOwner(o.id)
    <3>1. o = ActorOwner(a) <=> o.id = a
      BY <2>2 DEF ActorOwner
    <3>2. actorStatus'[o.id] = "active" <=> actorStatus[o.id] = "active" /\ o.id # a
      BY <1>1, <2>2
    <3>3. QED BY <1>1, <2>2, <3>1, <3>2 DEF OwnerOpen
  <2>3. QED BY <2>1, <2>2, OwnerCases
<1>3. QED BY <1>1, <1>2 DEF Owner

\* Every operation keeps the ledger exact.
LEMMA LedgerStep ==
  ASSUME LedgerInv, [Next]_vars
  PROVE  LedgerExact' /\ OwnersKnown'
<1>0. IInv /\ TypeOK /\ LedgerExact /\ OwnersKnown
  BY DEF LedgerInv, IInv
<1>1. ASSUME NEW a \in Actor, NEW p \in Task \cup {None}, NEW r \in Task \cup {None},
             Created(a, p, r)
      PROVE  LedgerExact' /\ OwnersKnown'
  <2>1. UNCHANGED << resources, nextResourceId >>
    BY <1>1 DEF Created, NewTask, ledgerVars
  <2>2. QED BY <1>0, <1>1, <2>1, CreatedKnown, OwnersSame
<1>2. ASSUME NEW D \in SUBSET Task, Ended(D)
      PROVE  LedgerExact' /\ OwnersKnown'
  <2> DEFINE G == {TaskOwner(t) : t \in D}
  <2>1. /\ G \in SUBSET Owner
        /\ \A o \in Owner : OwnerOpen(o)' <=> OwnerOpen(o) /\ o \notin G
        /\ \A t \in Task : taskState[t] # None => taskState'[t] # None
    BY <1>2, EndedOwners
  <2>2. MarkClosing(G) /\ UNCHANGED << nextResourceId, mailboxes >>
    BY <1>2 DEF Ended
  <2> HIDE DEF G
  <2>3. QED BY <2>1, <2>2, OwnersGo
<1>3. ASSUME NEW a \in Actor, CloseActor(a)
      PROVE  LedgerExact' /\ OwnersKnown'
  BY <1>3, ClosedOwners, OwnersGo
<1>4. ASSUME NEW o \in Owner, OwnerOpen(o), Allocate(o), UNCHANGED ledgerOnly
      PROVE  LedgerExact' /\ OwnersKnown'
  <2>1. UNCHANGED << taskState, mailboxes, actorStatus >>
    BY <1>4 DEF ledgerOnly, taskVars, mailVars, statusVars
  <2>2. Known(o)
    BY <1>4 DEF OwnerOpen, Known, Live
  <2>3. /\ nextResourceId \in Resource /\ nextResourceId' = nextResourceId + 1
        /\ resources'[nextResourceId] = [owner |-> o, state |-> "allocated"]
        /\ resources'[nextResourceId] # None
        /\ \A s \in Resource \ {nextResourceId} : resources'[s] = resources[s]
    BY <1>0, <1>4, Granted
  <2>4. \A r \in Resource : r < nextResourceId' <=> r < nextResourceId \/ r = nextResourceId
    BY <2>3, BoundsAssumption DEF Resource
  <2>5. QED BY <1>4, <2>1, <2>2, <2>3, <2>4, RecordChanged
<1>5. ASSUME NEW r \in Resource, NEW o \in Owner, NEW from \in {"allocated", "closing"},
             Reclaim(r, o, from), UNCHANGED ledgerOnly
      PROVE  LedgerExact' /\ OwnersKnown'
  <2>1. UNCHANGED << taskState, mailboxes, actorStatus >>
    BY <1>5 DEF ledgerOnly, taskVars, mailVars, statusVars
  <2>2. /\ resources[r] # None /\ resources'[r] # None
        /\ resources'[r].owner = resources[r].owner /\ resources'[r].state = "released"
        /\ \A s \in Resource \ {r} : resources'[s] = resources[s]
    BY <1>0, <1>5, Reclaimed
  <2>3. Known(resources[r].owner) /\ r < nextResourceId /\ resources[r].owner \in Owner
    BY <1>0, <2>2, RecordFacts DEF OwnersKnown, LedgerExact
  <2>4. \A s \in Resource : s < nextResourceId' <=> s < nextResourceId \/ s = r
    BY <1>5, <2>3 DEF Reclaim
  <2>5. QED BY <2>1, <2>2, <2>3, <2>4, RecordChanged
<1>6. CASE OwnersStay
  <2>1. UNCHANGED << resources, nextResourceId >>
    BY <1>6 DEF OwnersStay
  <2>2. QED BY <1>6, <2>1, StayedKnown, OwnersSame
<1>7. QED BY <1>0, <1>1, <1>2, <1>3, <1>4, <1>5, <1>6, LedgerSteps

\* IInv and the ledger are invariants together.
THEOREM LedgerInductive == Spec => []LedgerInv
<1>1. Init => LedgerExact /\ OwnersKnown
  BY DEF Init, LedgerInit, LedgerExact, OwnersKnown, InState, Resource
<1>2. LedgerInv /\ [Next]_vars => LedgerExact' /\ OwnersKnown'
  BY LedgerStep
<1>3. QED BY <1>1, <1>2, Inductive, PTL DEF Spec, LedgerInv

\* A resource is allocated only while its owner can use it, and closing only
\* when its owner is gone, however the owner went (Ledger.lean,
\* markClosingIfOwner; Model.lean: complete, cancel, fail, cancelTree, closeActor).
THEOREM LedgerIsExact == Spec => []LedgerExact
<1>1. LedgerInv => LedgerExact
  BY DEF LedgerInv
<1>2. QED BY <1>1, LedgerInductive, PTL

\* A released resource stays released and no resource changes hands
\* (Model.lean: release, releaseActor, finalize).
THEOREM ReleaseIsForever == Spec => ReleasedForever
<1> DEFINE A == \A r \in Resource :
                  /\ InState(r, "released") => InState(r, "released")'
                  /\ InState(r, "closing") => ~ InState(r, "allocated")'
                  /\ resources[r] # None =>
                       resources'[r] # None /\ resources'[r].owner = resources[r].owner
<1>1. ASSUME LedgerInv, [Next]_vars PROVE A
  <2>0. IInv /\ TypeOK /\ LedgerExact
    BY <1>1 DEF LedgerInv, IInv
  <2>1. CASE UNCHANGED resources
    BY <2>1 DEF InState
  <2>2. ASSUME NEW owners, MarkClosing(owners) PROVE A
    <3>1. SUFFICES ASSUME NEW r \in Resource
                   PROVE  /\ InState(r, "released") => InState(r, "released")'
                          /\ InState(r, "closing") => ~ InState(r, "allocated")'
                          /\ resources[r] # None =>
                               /\ resources'[r] # None
                               /\ resources'[r].owner = resources[r].owner
      OBVIOUS
    <3>2. QED BY <2>0, <2>2, Marked DEF InState
  <2>3. ASSUME NEW o \in Owner, Allocate(o) PROVE A
    <3>0. nextResourceId \in Resource
      BY <2>0, <2>3, Granted
    <3>1. resources[nextResourceId] = None
      <4>1. resources[nextResourceId] # None <=> nextResourceId < nextResourceId
        BY <2>0, <3>0 DEF LedgerExact
      <4>2. QED BY <3>0, <4>1 DEF Resource
    <3>2. \A s \in Resource \ {nextResourceId} : resources'[s] = resources[s]
      BY <2>0, <2>3, Granted
    <3>3. QED BY <3>1, <3>2 DEF InState
  <2>4. ASSUME NEW r \in Resource, NEW o, NEW from, Reclaim(r, o, from) PROVE A
    BY <2>0, <2>4, Reclaimed DEF InState
  <2>5. \/ UNCHANGED resources
        \/ \E owners : MarkClosing(owners)
        \/ \E o \in Owner : Allocate(o)
        \/ \E r \in Resource : \E o, from : Reclaim(r, o, from)
    BY <1>1, <2>0, LedgerSteps
       DEF Created, NewTask, ledgerVars, Ended, CloseActor, OwnersStay
  <2> HIDE DEF A
  <2>6. QED BY <2>1, <2>2, <2>3, <2>4, <2>5
<1>2. LedgerInv /\ [Next]_vars => [A]_vars
  BY <1>1
<1>3. QED BY <1>2, LedgerInductive, PTL DEF Spec, ReleasedForever

=============================================================================
