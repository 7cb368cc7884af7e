---------------------------- MODULE MCPrograms ----------------------------
(***************************************************************************)
(* Small instances of the runtime for TLC, checked in one run.  The focus, *)
(* chosen once, says which operations a program uses and how many of each  *)
(* identity it may create, so that each part of the runtime is explored to *)
(* the depth its properties need.                                          *)
(***************************************************************************)
EXTENDS Refinements

CONSTANTS a1, a2

VARIABLE focus

\* One actor with a bounded mailbox, the others unbounded.
TwoSlotsForA1 == [a \in Actor |-> IF a = a1 THEN 2 ELSE None]

\* Bounds per focus: actors with a task, tasks, occurrences, clock.
Scale == [tasks |-> [actors |-> {a1},     tasks |-> 3, msgs |-> 1, time |-> 1],
          mail  |-> [actors |-> {a1, a2}, tasks |-> 2, msgs |-> 3, time |-> 0]]

WithinScale(s) ==
  /\ nextId' <= s.tasks /\ nextMsgId' <= s.msgs
  /\ \A a \in Actor \ s.actors : mailboxes'[a] = None /\ actorStatus'[a] = "active"
  /\ now' <= s.time

ProgramNext ==
  /\ \/ focus = "tasks"  /\ (SchedulerNext \/ CreationNext \/ TimeNext \/ MessageNext)
     \/ focus = "mail"   /\ (SchedulerNext \/ CreationNext \/ MessageNext)
  /\ WithinScale(Scale[focus])
  /\ UNCHANGED focus

ProgramSpec ==
  Init /\ focus \in DOMAIN Scale /\ [][ProgramNext]_<< vars, focus >>

=============================================================================
