------------------------------ MODULE Lifecycle ------------------------------
(***************************************************************************)
(* The operations on tasks: creation, dispatch, termination, supervision   *)
(* and time (Henret/Scheduler/Model.lean, `step`). An operation whose      *)
(* guard fails leaves the state unchanged, so it is a stuttering step.     *)
(***************************************************************************)
EXTENDS RuntimeState

-----------------------------------------------------------------------------
(* Creation: spawn, spawnChild and restartOne share the fresh-task update. *)

\* Fault: creating a task empties the mailbox its actor already has.
FreshMailbox(a) == [mailboxes EXCEPT ![a] = << >>]

\* The actor gets a mailbox unless it has one.
WithMailbox(a) == [mailboxes EXCEPT ![a] = IF @ = None THEN << >> ELSE @]

NewTask(a, parent, replaced) ==
  /\ nextId < MaxTask
  /\ taskState[nextId] = None
  /\ taskState'  = [taskState EXCEPT ![nextId] = "new"]
  /\ taskOwner'  = [taskOwner EXCEPT ![nextId] = a]
  /\ taskParent' = [taskParent EXCEPT ![nextId] = parent]
  /\ restartOf'  = [restartOf EXCEPT ![nextId] = replaced]
  /\ readyQ' = Append(readyQ, nextId)
  /\ mailboxes' = WithMailbox(a)
  /\ nextId' = nextId + 1
  /\ UNCHANGED << taskMeta, running, timeVars, waiterVars, nextMsgId,
                  statusVars, ledgerVars >>

Spawn(a) ==
  /\ runtimeStatus = "running"
  /\ NewTask(a, None, None)

SpawnChild(t, a) ==
  /\ IsRunning(t)
  /\ taskOwner[t] # None
  /\ NewTask(a, t, None)

\* Fault: any child may be replaced, not only a failed one.
RestartAnyChild(parent, failedChild, a) ==
  /\ IsRunning(parent)
  /\ taskParent[failedChild] = parent
  /\ NewTask(a, parent, failedChild)

RestartOne(parent, failedChild, a) ==
  /\ IsRunning(parent)
  /\ taskParent[failedChild] = parent
  /\ taskState[failedChild] = "failed"
  /\ NewTask(a, parent, failedChild)

-----------------------------------------------------------------------------
(* Dispatch. *)

\* Can the head of q, an arrangement of the ready queue, get the processor?
CanDispatch(q) == running = None /\ q # << >> /\ taskState[Head(q)] \in Runnable

\* Fault: the dispatched task stays in the queue.
DispatchKeepsHead(q) ==
  /\ CanDispatch(q)
  /\ taskState' = [taskState EXCEPT ![Head(q)] = "running"]
  /\ readyQ' = q
  /\ running' = Head(q)
  /\ UNCHANGED << identityVars, taskMeta, timeVars, waiterVars, mailVars,
                  statusVars, ledgerVars >>

Dispatch(q) ==
  /\ CanDispatch(q)
  /\ taskState' = [taskState EXCEPT ![Head(q)] = "running"]
  /\ readyQ' = Tail(q)
  /\ running' = Head(q)
  /\ UNCHANGED << identityVars, taskMeta, timeVars, waiterVars, mailVars,
                  statusVars, ledgerVars >>

Schedule == Dispatch(readyQ)

\* Fault: the yielding task goes to the head of the queue.
YieldToFront(t) ==
  /\ IsRunning(t)
  /\ taskState' = [taskState EXCEPT ![t] = "yielded"]
  /\ readyQ' = << t >> \o readyQ
  /\ running' = None
  /\ UNCHANGED << identityVars, taskMeta, timeVars, waiterVars, mailVars,
                  statusVars, ledgerVars >>

Yield(t) ==
  /\ IsRunning(t)
  /\ taskState' = [taskState EXCEPT ![t] = "yielded"]
  /\ readyQ' = Append(readyQ, t)
  /\ running' = None
  /\ UNCHANGED << identityVars, taskMeta, timeVars, waiterVars, mailVars,
                  statusVars, ledgerVars >>

-----------------------------------------------------------------------------
(* Termination. *)

\* Fault: normal completion forgets the task's resources.
CompleteForgetsResources(t) ==
  /\ IsRunning(t)
  /\ taskState' = [taskState EXCEPT ![t] = "completed"]
  /\ running' = None
  /\ UNCHANGED << identityVars, taskMeta, readyQ, timeVars, waiterVars,
                  mailVars, statusVars, ledgerVars >>

Complete(t) ==
  /\ IsRunning(t)
  /\ taskState' = [taskState EXCEPT ![t] = "completed"]
  /\ running' = None
  /\ MarkClosing({TaskOwner(t)})
  /\ UNCHANGED << identityVars, taskMeta, readyQ, timeVars, waiterVars,
                  mailVars, statusVars, nextResourceId >>

\* The common update of cancel and fail: t leaves every place it can be in.
\* Only its own actor's plain waiter queue is filtered.
Terminate(t, outcome) ==
  /\ Live(t)
  /\ taskState' = [taskState EXCEPT ![t] = outcome]
  /\ readyQ' = Without(readyQ, {t})
  /\ running' = IF running = t THEN None ELSE running
  /\ timers' = WithoutTimersOf(timers, {t})
  /\ waitDeadline' = [waitDeadline EXCEPT ![t] = None]
  /\ mailboxWaiters' = [a \in Actor |->
       IF a = taskOwner[t] THEN Without(mailboxWaiters[a], {t}) ELSE mailboxWaiters[a]]
  /\ timedMailboxWaiters' =
       [a \in Actor |-> Without(timedMailboxWaiters[a], {t})]
  /\ MarkClosing({TaskOwner(t)})
  /\ UNCHANGED << identityVars, taskMeta, now, mailVars, statusVars,
                  nextResourceId >>

Cancel(t) == Terminate(t, "cancelled")
Fail(t)   == Terminate(t, "failed")

\* Fault: the walk stops at the first parent.
IsRootOrChild(root, t) == t = root \/ taskParent[t] = root

\* isInSubtreeOf: walk up the parent chain while it goes to smaller ids.
IsInSubtreeOf(root, t) ==
  LET under[u \in Task] ==
        \/ u = root
        \/ /\ taskParent[u] # None
           /\ taskParent[u] < u
           /\ under[taskParent[u]]
  IN  under[t]

DescendantsOf(root) ==
  {t \in Task : t < nextId /\ taskState[t] # None /\ IsInSubtreeOf(root, t)}

\* Fault: the tasks of the subtree that have ended are cancelled too.
CancelTreeEnded(root) ==
  LET toCancel == DescendantsOf(root)
  IN  /\ taskState' = [t \in Task |->
           IF t \in toCancel THEN "cancelled" ELSE taskState[t]]
      /\ readyQ' = Without(readyQ, toCancel)
      /\ running' = IF running \in toCancel THEN None ELSE running
      /\ timers' = WithoutTimersOf(timers, toCancel)
      /\ waitDeadline' = [t \in Task |->
           IF t \in toCancel THEN None ELSE waitDeadline[t]]
      /\ mailboxWaiters' =
           [a \in Actor |-> Without(mailboxWaiters[a], toCancel)]
      /\ timedMailboxWaiters' =
           [a \in Actor |-> Without(timedMailboxWaiters[a], toCancel)]
      /\ MarkClosing({TaskOwner(t) : t \in toCancel})
      /\ UNCHANGED << identityVars, taskMeta, now, mailVars, statusVars,
                      nextResourceId >>

CancelTree(root) ==
  LET toCancel == DescendantsOf(root)
  IN  /\ taskState' = [t \in Task |->
           IF t \in toCancel /\ Live(t) THEN "cancelled" ELSE taskState[t]]
      /\ readyQ' = Without(readyQ, toCancel)
      /\ running' = IF running \in toCancel THEN None ELSE running
      /\ timers' = WithoutTimersOf(timers, toCancel)
      /\ waitDeadline' = [t \in Task |->
           IF t \in toCancel THEN None ELSE waitDeadline[t]]
      /\ mailboxWaiters' =
           [a \in Actor |-> Without(mailboxWaiters[a], toCancel)]
      /\ timedMailboxWaiters' =
           [a \in Actor |-> Without(timedMailboxWaiters[a], toCancel)]
      /\ MarkClosing({TaskOwner(t) : t \in toCancel})
      /\ UNCHANGED << identityVars, taskMeta, now, mailVars, statusVars,
                      nextResourceId >>

-----------------------------------------------------------------------------
(* Time. *)

\* A deadline that has passed already is legal: the next tick wakes t.
Sleep(t, deadline) ==
  /\ IsRunning(t)
  /\ taskState' = [taskState EXCEPT ![t] = "sleeping"]
  /\ running' = None
  /\ timers' = InsertSorted([deadline |-> deadline, task |-> t], timers)
  /\ UNCHANGED << identityVars, taskMeta, readyQ, waitDeadline, now,
                  waiterVars, mailVars, statusVars, ledgerVars >>

\* Sleepers are woken in timer order, then the timed waiters in timer order.
Tick(t) ==
  LET expired       == TasksOf(Expired(timers, t))
      wokenSleeping == Only(expired, {u \in Task : taskState[u] = "sleeping"})
      wokenTimed    == Only(expired, {u \in Task : taskState[u] = "waitingTimed"})
      woken         == wokenSleeping \o wokenTimed
  IN  /\ now <= t
      /\ taskState' = [u \in Task |->
           IF u \in Elems(woken) THEN "ready" ELSE taskState[u]]
      /\ readyQ' = readyQ \o woken
      /\ timers' = Remaining(timers, t)
      /\ timedMailboxWaiters' = [a \in Actor |->
           Without(timedMailboxWaiters[a], Elems(wokenTimed))]
      /\ waitDeadline' = [u \in Task |->
           IF u \in Elems(wokenTimed) THEN None ELSE waitDeadline[u]]
      /\ now' = t
      /\ UNCHANGED << identityVars, taskMeta, running, mailboxWaiters,
                      mailVars, statusVars, ledgerVars >>

\* Fault: any parked task can be woken directly.
WakeAnyParked(t) ==
  /\ taskState[t] \in Parked
  /\ taskState' = [taskState EXCEPT ![t] = "ready"]
  /\ readyQ' = Append(readyQ, t)
  /\ timers' = WithoutTimersOf(timers, {t})
  /\ UNCHANGED << identityVars, taskMeta, running, waitDeadline, now,
                  waiterVars, mailVars, statusVars, ledgerVars >>

Wake(t) ==
  /\ taskState[t] = "sleeping"
  /\ taskState' = [taskState EXCEPT ![t] = "ready"]
  /\ readyQ' = Append(readyQ, t)
  /\ timers' = WithoutTimersOf(timers, {t})
  /\ UNCHANGED << identityVars, taskMeta, running, waitDeadline, now,
                  waiterVars, mailVars, statusVars, ledgerVars >>

=============================================================================
