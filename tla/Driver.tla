------------------------------- MODULE Driver -------------------------------
(***************************************************************************)
(* The reference drivers (Henret/Scheduler/Driver.lean), started in the    *)
(* middle of any program: driveOps offers schedule and complete in turn    *)
(* while its fuel lasts; drain completes the whole ready queue at once,    *)
(* without going through the runtime's operations.                         *)
(***************************************************************************)
EXTENDS Policies

CONSTANT MaxFuel   \* bound on the fuel driveOps is given

ASSUME FuelAssumption == MaxFuel \in Nat

VARIABLES
  fuel,      \* the rounds driveOps has left; None before it is started
  chosen,    \* the head of the queue this round works on, or None
  goal       \* what [taskState, readyQ] have to be when driveOps ends

driverVars == << fuel, chosen, goal >>

DriverInit == Init /\ fuel = None /\ chosen = None /\ goal = None

\* completeAll, over the queued tasks in q: those that are runnable complete.
CompleteAll(q) ==
  [t \in Task |-> IF t \in Elems(q) /\ taskState[t] \in Runnable
                  THEN "completed" ELSE taskState[t]]

\* drain.
Drain ==
  /\ fuel = None
  /\ taskState' = CompleteAll(readyQ)
  /\ readyQ' = << >>
  /\ UNCHANGED << identityVars, taskMeta, running, timeVars, waiterVars,
                  mailVars, statusVars, ledgerVars, driverVars >>

\* driveOps is called with f rounds of fuel. With the processor free, f rounds
\* have to do to the first f queued tasks what drain does to all of them; with
\* a task running, nothing at all.
StartDrive(f) ==
  LET n == IF running # None THEN 0
           ELSE IF f < Len(readyQ) THEN f ELSE Len(readyQ)
  IN  /\ fuel = None
      /\ fuel' = f
      /\ goal' = [taskState |-> CompleteAll(SubSeq(readyQ, 1, n)),
                  readyQ    |-> SubSeq(readyQ, n + 1, Len(readyQ))]
      /\ UNCHANGED << vars, chosen >>

\* The two operations of a round. The runtime may refuse either.
DriveSchedule ==
  /\ fuel # None /\ fuel # 0
  /\ chosen = None
  /\ readyQ # << >>
  /\ chosen' = Head(readyQ)
  /\ \/ Schedule
     \/ ~ CanDispatch(readyQ) /\ UNCHANGED vars
  /\ UNCHANGED << fuel, goal >>

\* Fault: the task completed is the one now at the head of the queue.
DriveCompleteNext ==
  /\ chosen # None
  /\ LET t == IF readyQ = << >> THEN chosen ELSE Head(readyQ)
     IN  \/ Complete(t)
         \/ ~ IsRunning(t) /\ UNCHANGED vars
  /\ chosen' = None
  /\ fuel' = fuel - 1
  /\ UNCHANGED goal

\* Fault: a refused round costs no fuel.
DriveCompleteFree ==
  /\ chosen # None
  /\ \/ Complete(chosen) /\ fuel' = fuel - 1
     \/ ~ IsRunning(chosen) /\ UNCHANGED << vars, fuel >>
  /\ chosen' = None
  /\ UNCHANGED goal

DriveComplete ==
  /\ chosen # None
  /\ \/ Complete(chosen)
     \/ ~ IsRunning(chosen) /\ UNCHANGED vars
  /\ chosen' = None
  /\ fuel' = fuel - 1
  /\ UNCHANGED goal

DriveDone == fuel # None /\ chosen = None /\ (fuel = 0 \/ readyQ = << >>)

\* A driver runs to its end: no other operation comes in between.
DriveNext ==
  \/ \E f \in 0 .. MaxFuel : StartDrive(f)
  \/ DriveSchedule
  \/ DriveComplete
  \/ DriveDone /\ UNCHANGED << vars, driverVars >>

\* Policies and drivers, the two layers that decide what runs next.
LayersNext ==
  \/ fuel = None /\ PolicyNext /\ UNCHANGED driverVars
  \/ Drain
  \/ DriveNext

DriverFairness == WF_<< vars, driverVars >>(DriveSchedule \/ DriveComplete)

LayersSpec == DriverInit /\ [][LayersNext]_<< vars, driverVars >> /\ DriverFairness

-----------------------------------------------------------------------------

\* When driveOps ends it has completed the tasks at the head of the queue, in
\* the way drain would have, and touched no other: the two drivers agree, up
\* to the fuel, in every state a program can reach.
DriveMeetsGoal ==
  DriveDone => taskState = goal.taskState /\ readyQ = goal.readyQ

\* driveOps ends, also when every operation it offers is refused.
DriveEnds == fuel # None ~> DriveDone

=============================================================================
