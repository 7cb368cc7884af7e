------------------------------ MODULE Progress ------------------------------
(***************************************************************************)
(* Conditional liveness of the runtime (Henret/Progress/Policy.lean). The  *)
(* runtime itself promises no progress: a driver that stops offering       *)
(* schedule or tick starves every task. What follows holds for drivers     *)
(* that keep offering both and whose tasks keep giving the processor back, *)
(* whatever else they do in between.                                       *)
(***************************************************************************)
EXTENDS Runtime

\* The running task gives the processor back without waiting for anything.
GiveBack == \E t \in Task : Yield(t) \/ Complete(t)

Fairness ==
  /\ WF_vars(Schedule)
  /\ WF_vars(GiveBack)
  /\ WF_vars(Tick(MaxTime))

FairSpec == Spec /\ Fairness

\* Whoever is runnable gets the processor, however often the tasks behind it
\* yield, are spawned, woken or cancelled, unless it is ended first.
RunnableIsDispatched ==
  \A t \in Task : taskState[t] \in Runnable ~> taskState[t] \in {"running"} \cup Terminal

\* A sleeping task and a timed receive always come back: no tick may drop a
\* timer it does not act on, and no delivery may strand a timed waiter.
TimedIsResumed ==
  \A t \in Task :
    taskState[t] \in {"sleeping", "waitingTimed"} ~>
      taskState[t] \notin {"sleeping", "waitingTimed"}

=============================================================================
