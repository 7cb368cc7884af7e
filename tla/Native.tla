------------------------------- MODULE Native -------------------------------
(***************************************************************************)
(* The work-stealing deque of a native worker and the fuelled driver at    *)
(* its owner's end (Henret/Native/DequeModel.lean). A deque is what the    *)
(* contract lets a backend be observed as, a list from its top, where      *)
(* thieves steal, to its bottom, where the owner pushes and pops.          *)
(***************************************************************************)
EXTENDS Queues

CONSTANTS
  TaskFuel,     \* fuel that a task may have
  MaxPushed,    \* bound on the tasks pushed
  MaxBudget     \* bound on the budget of a call

ASSUME NativeAssumption ==
  TaskFuel \subseteq Nat /\ MaxPushed \in Nat /\ MaxBudget \in Nat

VARIABLES
  deque,        \* tasks and their fuel, top to bottom
  pushed,       \* how many tasks have been pushed; they are numbered
  stolen,       \* the tasks thieves got, in order
  popped,       \* the tasks the owner got, in order
  call          \* a call of driveStackB under way, or returned

dequeVars == << deque, pushed, stolen, popped >>
nativeVars == << dequeVars, call >>

NoCall == [running |-> FALSE, given |-> 0, view |-> << >>,
           budget |-> 0, stack |-> << >>, done |-> << >>]

-----------------------------------------------------------------------------
(* The contract: qStepRef. On an empty deque a thief and the owner get nothing. *)

PushBottom(fuel) ==
  /\ ~ call.running
  /\ pushed < MaxPushed
  /\ pushed' = pushed + 1
  /\ deque' = Append(deque, [task |-> pushed + 1, fuel |-> fuel])
  /\ UNCHANGED << stolen, popped, call >>

\* stealHead.
StealTop ==
  /\ ~ call.running /\ deque # << >>
  /\ stolen' = Append(stolen, Head(deque).task)
  /\ deque' = Tail(deque)
  /\ UNCHANGED << pushed, popped, call >>

\* popLast.
PopBottom ==
  /\ ~ call.running /\ deque # << >>
  /\ popped' = Append(popped, deque[Len(deque)].task)
  /\ deque' = SubSeq(deque, 1, Len(deque) - 1)
  /\ UNCHANGED << pushed, stolen, call >>

-----------------------------------------------------------------------------
(* driveStackB: on the owner's view of the deque, which it does not change. *)

\* What the owner would pop, first to last.
OwnersView == [i \in 1 .. Len(deque) |-> deque[Len(deque) + 1 - i]]

CallStack(budget) ==
  /\ ~ call.running
  /\ call' = [running |-> TRUE, given |-> budget, view |-> OwnersView,
              budget |-> budget, stack |-> OwnersView, done |-> << >>]
  /\ UNCHANGED dequeVars

Over == call.budget = 0 \/ call.stack = << >>

CompleteFirst ==
  /\ call.running /\ ~ Over
  /\ Head(call.stack).fuel = 0
  /\ call' = [call EXCEPT !.budget = @ - 1, !.stack = Tail(@),
                          !.done = Append(@, Head(call.stack).task)]
  /\ UNCHANGED dequeVars

Spent == [Head(call.stack) EXCEPT !.fuel = @ - 1]

\* Fault: a task that has run a while lets the others go first.
RunFirstInTurn ==
  /\ call.running /\ ~ Over
  /\ Head(call.stack).fuel > 0
  /\ call' = [call EXCEPT !.budget = @ - 1, !.stack = Append(Tail(@), Spent)]
  /\ UNCHANGED dequeVars

RunFirst ==
  /\ call.running /\ ~ Over
  /\ Head(call.stack).fuel > 0
  /\ call' = [call EXCEPT !.budget = @ - 1, !.stack = << Spent >> \o Tail(@)]
  /\ UNCHANGED dequeVars

ReturnStack ==
  /\ call.running /\ Over
  /\ call' = [call EXCEPT !.running = FALSE]
  /\ UNCHANGED dequeVars

NativeInit ==
  /\ deque = << >> /\ pushed = 0 /\ stolen = << >> /\ popped = << >>
  /\ call = NoCall

NativeNext ==
  \/ \E fuel \in TaskFuel : PushBottom(fuel)
  \/ StealTop \/ PopBottom
  \/ \E budget \in 0 .. MaxBudget : CallStack(budget)
  \/ CompleteFirst \/ RunFirst \/ ReturnStack

NativeFairness == WF_nativeVars(CompleteFirst \/ RunFirst \/ ReturnStack)

-----------------------------------------------------------------------------

\* n + totalFuel of the first n tasks of q, for each n.
Cost(q) ==
  LET cost[n \in 0 .. Len(q)] == IF n = 0 THEN 0 ELSE cost[n - 1] + q[n].fuel + 1
  IN  cost

\* What a call completes, in which order and for which budget, after any mixture
\* of pushes, steals and pops: the tasks at the owner's end that the budget covers
\* with all of their fuel, latest first, and nothing of the one after them. A
\* budget of the whole queue's length and fuel is enough for all, once each, and
\* one less is not: the last task is starved by as much as the others spent.
StackDriveMeetsGoal ==
  ~ call.running =>
    LET n == Len(call.done) IN
    /\ n <= Len(call.view)
    /\ call.done = [i \in 1 .. n |-> call.view[i].task]
    /\ Cost(call.view)[n] <= call.given
    /\ n < Len(call.view) => Cost(call.view)[n + 1] > call.given

\* Thieves and the owner share the tasks out: each pushed task is in the deque or
\* was got once, by one of them, and whatever thieves got was pushed before
\* everything that is left.
DequeSharesTasks ==
  LET left == {e.task : e \in Elems(deque)} IN
  /\ Len(stolen) + Len(popped) + Len(deque) = pushed
  /\ Elems(stolen) \cup Elems(popped) \cup left = 1 .. pushed
  /\ \A s \in Elems(stolen), t \in left : s < t

\* A call returns, whatever its budget and the fuel.
StackDriveEnds == call.running ~> ~ call.running

=============================================================================
