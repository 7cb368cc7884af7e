------------------------------ MODULE TaskLife ------------------------------
(***************************************************************************)
(* What the scheduler promises about tasks, with no queue, timer or        *)
(* mailbox in sight: ids are used in order and once, one processor is      *)
(* shared, a parked task comes back only to the ready state, only the      *)
(* running task completes, and a terminated task stays as it ended.        *)
(***************************************************************************)
EXTENDS Integers

CONSTANT Task

VARIABLE phase   \* per task: unborn, ready, running, parked, or how it ended

Living == {"ready", "running", "parked"}
Phase  == Living \cup {"unborn", "completed", "cancelled", "failed"}

In(p) == {t \in Task : phase[t] = p}

\* The tasks of S go to phase p together.
Move(S, p) == phase' = [t \in Task |-> IF t \in S THEN p ELSE phase[t]]

Init == phase = [t \in Task |-> "unborn"]

Create(t) ==
  /\ t \in In("unborn")
  /\ \A u \in In("unborn") : t <= u
  /\ Move({t}, "ready")

Dispatch(t) == t \in In("ready") /\ In("running") = {} /\ Move({t}, "running")
GiveUp(t)   == t \in In("running") /\ Move({t}, "ready")
Park(t)     == t \in In("running") /\ Move({t}, "parked")
Complete(t) == t \in In("running") /\ Move({t}, "completed")

\* Some parked tasks become ready together: one delivery, or one tick.
Resume(S) == S \subseteq In("parked") /\ Move(S, "ready")

\* Some living tasks, whatever they were doing, are ended together.
End(S) ==
  /\ \A t \in S : phase[t] \in Living
  /\ Move(S, "cancelled") \/ Move(S, "failed")

Next ==
  \/ \E t \in Task :
       Create(t) \/ Dispatch(t) \/ GiveUp(t) \/ Park(t) \/ Complete(t)
  \/ \E S \in SUBSET Task : Resume(S) \/ End(S)

Spec == Init /\ [][Next]_phase

=============================================================================
