---------------------------- MODULE RuntimeState ----------------------------
(***************************************************************************)
(* The state of the modelled runtime (RuntimeState in                      *)
(* Henret/Scheduler/Model.lean), its initial value, and the helpers every  *)
(* operation shares.                                                       *)
(*                                                                         *)
(* The body of a message is left out: no operation reads it, and the       *)
(* occurrence id that delivery stamps on the envelope identifies it.       *)
(***************************************************************************)
EXTENDS Queues, Ledger

CONSTANTS
  MaxTime,    \* bound on the logical clock and on the deadlines asked for
  MaxMsg,     \* bound: occurrence ids are 0 .. MaxMsg - 1
  Priority,   \* bound: the priorities setPriority may assign
  Urgency,    \* bound: the deadlines setDeadline may assign
  Capacity    \* mailboxPolicy: per actor a bound on its mailbox, or None

ASSUME StateAssumption ==
  /\ MaxTime \in Nat /\ MaxMsg \in Nat
  /\ Priority \subseteq Nat /\ Urgency \subseteq Nat
  /\ Capacity \in [Actor -> Nat \cup {None}]

VARIABLES
  taskState,            \* TaskId -> Option TaskState
  taskOwner,            \* TaskId -> Option ActorId
  taskParent,           \* TaskId -> Option TaskId
  restartOf,            \* TaskId -> Option TaskId
  taskMeta,             \* TaskId -> Option [priority, deadline]
  nextId,               \* fresh task id
  readyQ,               \* FIFO list of runnable tasks
  running,              \* Option TaskId
  timers,               \* sorted list of [deadline, task]
  waitDeadline,         \* TaskId -> Option deadline, of timed waiters
  now,                  \* logical time
  mailboxes,            \* ActorId -> Option list of envelopes
  mailboxWaiters,       \* ActorId -> list of tasks parked without deadline
  timedMailboxWaiters,  \* ActorId -> list of tasks parked with a deadline
  nextMsgId,            \* fresh occurrence id
  actorStatus,          \* ActorId -> "active" | "closed"
  runtimeStatus         \* "running" | "shuttingDown" | "stopped"

identityVars == << taskOwner, taskParent, restartOf, nextId >>
scheduleVars == << readyQ, running >>
timeVars     == << timers, waitDeadline, now >>
waiterVars   == << mailboxWaiters, timedMailboxWaiters >>
mailVars     == << mailboxes, nextMsgId >>
statusVars   == << actorStatus, runtimeStatus >>
vars == << taskState, identityVars, taskMeta, scheduleVars, timeVars,
           waiterVars, mailVars, statusVars, ledgerVars >>

Message     == 0 .. MaxMsg - 1
Deadline    == 0 .. MaxTime
Envelope    == [occurrence : Message, source : Actor \cup {None}]
TimerEntry  == [deadline : Deadline, task : Task]
Meta        == [priority : Priority \cup {0}, deadline : Urgency \cup {None}]
DefaultMeta == [priority |-> 0, deadline |-> None]

Terminal  == {"completed", "cancelled", "failed"}
Runnable  == {"new", "ready", "yielded"}
Parked    == {"sleeping", "waiting", "waitingTimed"}
TaskState == Terminal \cup Runnable \cup Parked \cup {"running"}

\* What is absent is no value: neither a task state nor a mailbox.
ASSUME AbsentAssumption == None \notin TaskState /\ None \notin Seq(Envelope)

Init ==
  /\ taskState  = [t \in Task |-> None]
  /\ taskOwner  = [t \in Task |-> None]
  /\ taskParent = [t \in Task |-> None]
  /\ restartOf  = [t \in Task |-> None]
  /\ taskMeta   = [t \in Task |-> None]
  /\ nextId = 0
  /\ readyQ = << >>
  /\ running = None
  /\ timers = << >>
  /\ waitDeadline = [t \in Task |-> None]
  /\ now = 0
  /\ mailboxes = [a \in Actor |-> None]
  /\ mailboxWaiters = [a \in Actor |-> << >>]
  /\ timedMailboxWaiters = [a \in Actor |-> << >>]
  /\ nextMsgId = 0
  /\ actorStatus = [a \in Actor |-> "active"]
  /\ runtimeStatus = "running"
  /\ LedgerInit

-----------------------------------------------------------------------------

\* Fault: terminated tasks pass for live ones.
LiveOrEnded(t) == taskState[t] # None

\* Spawned and not terminated.
Live(t) == taskState[t] \notin Terminal \cup {None}

\* The guard of every operation a task performs itself.
IsRunning(t) == running = t /\ taskState[t] = "running"

\* RuntimeQuiescent: the idle condition of stopWhenIdle.
RuntimeQuiescent == running = None /\ readyQ = << >> /\ timers = << >>

\* Fault: one message too many fits.
MailboxOverfull(b) == Capacity[b] # None /\ Capacity[b] < Len(mailboxes[b])

\* mailboxFull, for an actor that has a mailbox.
MailboxFull(b) == Capacity[b] # None /\ Capacity[b] <= Len(mailboxes[b])

=============================================================================
