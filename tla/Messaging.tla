------------------------------ MODULE Messaging ------------------------------
(***************************************************************************)
(* The mailbox operations (Henret/Scheduler/Model.lean, `step`, and        *)
(* Henret/Actor/Mailbox.lean). A delivery wakes at most one parked task of *)
(* the receiving actor; the woken task has to ask for its message again.   *)
(* A delivery to a full mailbox (backpressured) and a receiveUntil whose   *)
(* deadline has passed (timedOut) change nothing: stuttering steps.        *)
(***************************************************************************)
EXTENDS RuntimeState

\* Fault: the timer of a woken timed waiter stays behind.
WakeWaiterKeepsTimer(w) ==
  /\ taskState' = [taskState EXCEPT ![w] = "ready"]
  /\ readyQ' = Append(readyQ, w)
  /\ waitDeadline' = [waitDeadline EXCEPT ![w] = None]
  /\ UNCHANGED timers

\* Task w leaves the waiter queue it is at the head of and becomes runnable.
\* Its timer and its deadline, if it has them, go with it.
WakeWaiter(w) ==
  /\ taskState' = [taskState EXCEPT ![w] = "ready"]
  /\ readyQ' = Append(readyQ, w)
  /\ timers' = WithoutTimersOf(timers, {w})
  /\ waitDeadline' = [waitDeadline EXCEPT ![w] = None]

\* Fault: a delivery overlooks the timed waiters.
WakePlainOnly(b) ==
  \/ /\ mailboxWaiters[b] # << >>
     /\ WakeWaiter(Head(mailboxWaiters[b]))
     /\ mailboxWaiters' = [mailboxWaiters EXCEPT ![b] = Tail(@)]
     /\ UNCHANGED timedMailboxWaiters
  \/ /\ mailboxWaiters[b] = << >>
     /\ UNCHANGED << taskState, readyQ, timers, waitDeadline, waiterVars >>

\* The plain waiters of an actor come before its timed waiters.
WakeOneOf(b) ==
  \/ /\ mailboxWaiters[b] # << >>
     /\ WakeWaiter(Head(mailboxWaiters[b]))
     /\ mailboxWaiters' = [mailboxWaiters EXCEPT ![b] = Tail(@)]
     /\ UNCHANGED timedMailboxWaiters
  \/ /\ mailboxWaiters[b] = << >>
     /\ timedMailboxWaiters[b] # << >>
     /\ WakeWaiter(Head(timedMailboxWaiters[b]))
     /\ timedMailboxWaiters' = [timedMailboxWaiters EXCEPT ![b] = Tail(@)]
     /\ UNCHANGED mailboxWaiters
  \/ /\ mailboxWaiters[b] = << >>
     /\ timedMailboxWaiters[b] = << >>
     /\ UNCHANGED << taskState, readyQ, timers, waitDeadline, waiterVars >>

\* Fault: the envelope is enqueued and nobody is woken for it.
DeliverUnnoticed(b, source) ==
  /\ nextMsgId < MaxMsg
  /\ actorStatus[b] = "active"
  /\ mailboxes[b] # None
  /\ ~ MailboxFull(b)
  /\ mailboxes' = [mailboxes EXCEPT
       ![b] = Append(@, [occurrence |-> nextMsgId, source |-> source])]
  /\ nextMsgId' = nextMsgId + 1
  /\ UNCHANGED << taskState, identityVars, taskMeta, scheduleVars, timeVars,
                  waiterVars, statusVars, ledgerVars >>

\* Stamp an envelope with a fresh occurrence id, enqueue it, wake one waiter.
Deliver(b, source) ==
  /\ nextMsgId < MaxMsg
  /\ actorStatus[b] = "active"
  /\ mailboxes[b] # None
  /\ ~ MailboxFull(b)
  /\ mailboxes' = [mailboxes EXCEPT
       ![b] = Append(@, [occurrence |-> nextMsgId, source |-> source])]
  /\ nextMsgId' = nextMsgId + 1
  /\ WakeOneOf(b)
  /\ UNCHANGED << identityVars, taskMeta, running, now, statusVars, ledgerVars >>

\* Fault: the envelope is stamped with the sending task, not its actor.
SendStampsTask(t, b) ==
  /\ IsRunning(t)
  /\ taskOwner[t] # None
  /\ Deliver(b, t)

Send(t, b) ==
  /\ IsRunning(t)
  /\ taskOwner[t] # None
  /\ Deliver(b, taskOwner[t])

\* Fault: the environment can deliver after shutdown.
InjectAlways(b) == Deliver(b, None)

Inject(b) ==
  /\ runtimeStatus = "running"
  /\ Deliver(b, None)

-----------------------------------------------------------------------------
(* Receiving: a running task looks at the mailbox of its own actor.        *)

CanReceive(t) ==
  /\ IsRunning(t)
  /\ taskOwner[t] # None
  /\ mailboxes[taskOwner[t]] # None

\* The first envelope of the mailbox that is in `wanted` is taken out of it.
TakeFirst(t, wanted) ==
  LET a == taskOwner[t]
  IN  /\ Elems(mailboxes[a]) \cap wanted # {}
      /\ mailboxes' = [mailboxes EXCEPT ![a] = RemoveFirst(@, wanted)]
      /\ UNCHANGED << taskState, identityVars, taskMeta, scheduleVars, timeVars,
                      waiterVars, nextMsgId, statusVars, ledgerVars >>

\* t waits without deadline at the tail of its actor's queue.
Park(t) ==
  /\ taskState' = [taskState EXCEPT ![t] = "waiting"]
  /\ running' = None
  /\ mailboxWaiters' =
       [mailboxWaiters EXCEPT ![taskOwner[t]] = Append(@, t)]
  /\ UNCHANGED << identityVars, taskMeta, readyQ, timeVars, timedMailboxWaiters,
                  mailVars, statusVars, ledgerVars >>

\* One receive with a selector: take the first wanted envelope, or park.
ReceiveWanted(t, wanted) ==
  /\ CanReceive(t)
  /\ \/ TakeFirst(t, wanted)
     \/ /\ Elems(mailboxes[taskOwner[t]]) \cap wanted = {}
        /\ Park(t)

Receive(t)                 == ReceiveWanted(t, Envelope)
ReceiveByOccurrence(t, occ) == ReceiveWanted(t, {e \in Envelope : e.occurrence = occ})
ReceiveFrom(t, src)        == ReceiveWanted(t, {e \in Envelope : e.source = src})

ReceiveUntil(t, deadline) ==
  /\ CanReceive(t)
  /\ \/ TakeFirst(t, Envelope)
     \/ /\ mailboxes[taskOwner[t]] = << >>
        /\ now < deadline
        /\ taskState' = [taskState EXCEPT ![t] = "waitingTimed"]
        /\ running' = None
        /\ timedMailboxWaiters' =
             [timedMailboxWaiters EXCEPT ![taskOwner[t]] = Append(@, t)]
        /\ timers' = InsertSorted([deadline |-> deadline, task |-> t], timers)
        /\ waitDeadline' = [waitDeadline EXCEPT ![t] = deadline]
        /\ UNCHANGED << identityVars, taskMeta, readyQ, now, mailboxWaiters,
                        mailVars, statusVars, ledgerVars >>

=============================================================================
