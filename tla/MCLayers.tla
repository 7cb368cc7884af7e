------------------------------ MODULE MCLayers ------------------------------
(***************************************************************************)
(* Small instances of what decides who runs next: the policies and drivers *)
(* on a runtime, and the native deque with its own driver. The two share   *)
(* no state, so a behaviour works on one of them, its focus.               *)
(***************************************************************************)
EXTENDS Driver, Native

CONSTANTS a1

VARIABLE focus

Unbounded == [a \in Actor |-> None]

MCInit == focus \in {"runtime", "native"} /\ DriverInit /\ NativeInit

MCNext ==
  /\ \/ focus = "runtime" /\ LayersNext /\ UNCHANGED nativeVars
     \/ focus = "native" /\ NativeNext /\ UNCHANGED << vars, driverVars >>
  /\ UNCHANGED focus

MCSpec ==
  /\ MCInit /\ [][MCNext]_<< focus, vars, driverVars, nativeVars >>
  /\ DriverFairness
  /\ NativeFairness

-----------------------------------------------------------------------------

\* Each driver completes what its fuel or budget covers, in its order, whatever
\* state it is called in.
DriversMeetGoals ==
  DriveMeetsGoal /\ StackDriveMeetsGoal /\ DequeSharesTasks

\* Each driver returns.
DriversEnd == DriveEnds /\ StackDriveEnds

=============================================================================
