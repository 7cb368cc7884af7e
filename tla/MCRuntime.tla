------------------------------ MODULE MCRuntime ------------------------------
(* Small instances of the runtime and its driver for TLC. *)
EXTENDS Refinements, Progress

CONSTANTS a1

Unbounded == [a \in Actor |-> None]

\* Programs with more than two tasks create, schedule and end tasks, and use no
\* messages, timers or resources, nor admission.
FamilyOrLease ==
  \/ nextId <= 2
  \/ /\ nextMsgId = 0 /\ nextResourceId = 0 /\ timers = << >>
     /\ runtimeStatus = "running"
     /\ \A a \in Actor : /\ mailboxWaiters[a] = << >> /\ timedMailboxWaiters[a] = << >>
                         /\ actorStatus[a] = "active"

=============================================================================
