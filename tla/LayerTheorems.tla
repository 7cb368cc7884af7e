---------------------------- MODULE LayerTheorems ----------------------------
(***************************************************************************)
(* Proofs about the layers that decide what runs next, for every value of  *)
(* the constants: the policies, which only choose (Policies), the two      *)
(* drivers of the runtime, which agree (Driver), and the native deque with *)
(* its own driver (Native). The runtime keeps the scheduling invariants of *)
(* RuntimeInvariants, also under drain, which bypasses the operations.     *)
(***************************************************************************)
EXTENDS RuntimeInvariants, MCLayers

-----------------------------------------------------------------------------
(* The pass over the queue behind PickBy.                                  *)

\* No task is preferred to one that is preferred to it, and whoever is preferred
\* to the best so far is preferred to all that the best was not worse than.
LEMMA BetterIsAnOrder ==
  ASSUME TypeOK, NEW policy \in Keyed,
         NEW a \in Task, NEW b \in Task, NEW c \in Task, Better(policy, a, c)
  PROVE  /\ ~ Better(policy, c, a)
         /\ ~ Better(policy, a, b) => Better(policy, b, c)
<1>1. \A t \in Task : MetaOf(t) \in Meta
  <2>1. taskMeta \in [Task -> Meta \cup {None}]
    BY DEF TypeOK
  <2>2. DefaultMeta \in Meta
    BY DEF DefaultMeta, Meta
  <2>3. QED BY <2>1, <2>2 DEF MetaOf
<1>2. \A t \in Task : PriorityOf(t) \in Nat /\ DeadlineOf(t) \in Nat \cup {None}
  <2>1. ASSUME NEW m \in Meta PROVE m.priority \in Nat /\ m.deadline \in Nat \cup {None}
    <3>1. m.priority \in Priority \cup {0} /\ m.deadline \in Urgency \cup {None}
      BY DEF Meta
    <3>2. (\A p \in Priority : p \in Nat) /\ \A d \in Urgency : d \in Nat
      BY StateAssumption, Zenon
    <3>3. QED BY <3>1, <3>2
  <2>2. QED BY <1>1, <2>1 DEF PriorityOf, DeadlineOf
<1> DEFINE pa == PriorityOf(a)  pb == PriorityOf(b)  pc == PriorityOf(c)
           da == DeadlineOf(a)  db == DeadlineOf(b)  dc == DeadlineOf(c)
<1>3. /\ {pa, pb, pc} \subseteq Nat
      /\ {da, db, dc} \subseteq Nat \cup {None}
      /\ None \notin Nat
  BY <1>2, NoneAssumption
<1>4. /\ DeadlineLt(dc, da) => ~ DeadlineLt(da, dc)
      /\ DeadlineLt(dc, da) /\ ~ DeadlineLt(db, da) => DeadlineLt(dc, db)
  <2> HIDE DEF da, db, dc
  <2>1. QED BY <1>3 DEF DeadlineLt
<1>5. CASE policy = "priority"
  BY <1>3, <1>5 DEF Better
<1>6. CASE policy = "edf"
  BY <1>4, <1>6 DEF Better
<1>7. CASE policy = "hybrid"
  BY <1>3, <1>4, <1>7 DEF Better
<1>8. QED BY <1>5, <1>6, <1>7 DEF Keyed

PickBody(policy, q, n, f) ==
  [i \in 1 .. n |->
     IF i = 1 THEN q[1]
     ELSE IF Better(policy, f[i - 1], q[i]) THEN q[i] ELSE f[i - 1]]

\* The recursive definition of the pass has a solution on the first n members.
LEMMA PickExists ==
  ASSUME NEW policy, NEW q, NEW n \in Nat
  PROVE  \E f : f = PickBody(policy, q, n, f)
<1> DEFINE Bad == {m \in Nat : ~ \E f : f = PickBody(policy, q, m, f)}
<1>1. SUFFICES ASSUME Bad # {} PROVE FALSE
  OBVIOUS
<1>2. PICK m \in Bad : \A k \in Bad : m <= k
  BY <1>1, LeastNat
<1>3. m # 0
  <2> DEFINE g == [i \in 1 .. 0 |-> q[1]]
  <2>1. g = PickBody(policy, q, 0, g)
    BY DEF PickBody
  <2>2. QED BY <2>1
<1>4. m - 1 \in Nat /\ ~ (m <= m - 1)
  BY <1>3
<1>5. PICK f : f = PickBody(policy, q, m - 1, f)
  BY <1>2, <1>4
<1> DEFINE last == IF m = 1 THEN q[1]
                   ELSE IF Better(policy, f[m - 1], q[m]) THEN q[m] ELSE f[m - 1]
           g    == [i \in 1 .. m |-> IF i = m THEN last ELSE f[i]]
<1>6. ASSUME NEW i \in 1 .. m
      PROVE  g[i] = IF i = 1 THEN q[1]
                    ELSE IF Better(policy, g[i - 1], q[i]) THEN q[i] ELSE g[i - 1]
  <2>1. i # 1 => i - 1 \in 1 .. m /\ i - 1 # m
    BY <1>3
  <2>2. i # 1 => g[i - 1] = f[i - 1]
    BY <2>1
  <2>3. CASE i = m
    <3>1. g[i] = last
      BY <2>3
    <3>2. QED BY <2>2, <2>3, <3>1, Zenon
  <2>4. CASE i # m
    <3>1. i \in 1 .. m - 1 /\ g[i] = f[i]
      BY <2>4
    <3>2. f[i] = IF i = 1 THEN q[1]
                 ELSE IF Better(policy, f[i - 1], q[i]) THEN q[i] ELSE f[i - 1]
      BY <3>1, <1>5, Zenon DEF PickBody
    <3>3. QED BY <2>2, <3>1, <3>2, Zenon
  <2>5. QED BY <2>3, <2>4
<1>7. g = PickBody(policy, q, m, g)
  <2>1. g = [i \in 1 .. m |-> g[i]]
    OBVIOUS
  <2>2. QED BY <1>6, <2>1, Zenon DEF PickBody
<1>8. QED BY <1>7

\* t is the oldest of the best of the first n members of q.
OldestBest(policy, q, n, t) ==
  \E i \in 1 .. n :
    /\ q[i] = t
    /\ \A j \in 1 .. n : ~ Better(policy, t, q[j])
    /\ \A j \in 1 .. i - 1 : Better(policy, q[j], t)

\* So it is after each step of the pass.
LEMMA PickStep ==
  ASSUME TypeOK, NEW policy \in Keyed, NEW q \in Seq(Task),
         NEW n \in 1 .. Len(q) - 1, NEW t, OldestBest(policy, q, n, t)
  PROVE  OldestBest(policy, q, n + 1, IF Better(policy, t, q[n + 1]) THEN q[n + 1] ELSE t)
<1>1. Len(q) \in Nat /\ \A j \in 1 .. Len(q) : q[j] \in Task
  BY LenProperties, ElementOfSeq
<1>2. PICK i \in 1 .. n :
        /\ q[i] = t
        /\ \A j \in 1 .. n : ~ Better(policy, t, q[j])
        /\ \A j \in 1 .. i - 1 : Better(policy, q[j], t)
  BY DEF OldestBest
<1>3. t \in Task /\ q[n + 1] \in Task /\ \A j \in 1 .. n : q[j] \in Task
  BY <1>1, <1>2
<1>4. 1 .. n + 1 = 1 .. n \cup {n + 1} /\ i \in 1 .. n + 1
  OBVIOUS
<1>5. CASE ~ Better(policy, t, q[n + 1])
  BY <1>2, <1>4, <1>5 DEF OldestBest
<1>6. CASE Better(policy, t, q[n + 1])
  <2>1. \A j \in 1 .. n : Better(policy, q[j], q[n + 1])
    BY <1>2, <1>3, <1>6, BetterIsAnOrder
  <2>2. \A j \in 1 .. n : ~ Better(policy, q[n + 1], q[j])
    BY <1>3, <2>1, BetterIsAnOrder
  <2>3. ~ Better(policy, q[n + 1], q[n + 1])
    BY <1>3, BetterIsAnOrder
  <2>4. n + 1 \in 1 .. n + 1 /\ (n + 1) - 1 = n
    OBVIOUS
  <2>5. QED BY <1>4, <1>6, <2>1, <2>2, <2>3, <2>4, Zenon DEF OldestBest
<1>7. QED BY <1>5, <1>6

\* pickBy returns the oldest of the best, for any mixture of priorities and of
\* absent and present deadlines.
LEMMA PickIsOldestBest ==
  ASSUME TypeOK, NEW policy \in Keyed, NEW q \in Seq(Task), q # << >>
  PROVE  OldestBest(policy, q, Len(q), PickBy(policy, q))
<1>1. Len(q) \in Nat /\ Len(q) >= 1 /\ \A j \in 1 .. Len(q) : q[j] \in Task
  BY EmptySeq, LenProperties, ElementOfSeq
<1> DEFINE f == CHOOSE f : f = PickBody(policy, q, Len(q), f)
<1>2. f = PickBody(policy, q, Len(q), f)
  BY <1>1, PickExists, Zenon
<1>3. PickBy(policy, q) = f[Len(q)]
  BY Zenon DEF PickBy, PickBody
<1> HIDE DEF f
<1>4. ASSUME NEW i \in 1 .. Len(q)
      PROVE  f[i] = IF i = 1 THEN q[1]
                    ELSE IF Better(policy, f[i - 1], q[i]) THEN q[i] ELSE f[i - 1]
  BY <1>2, Zenon DEF PickBody
<1> DEFINE Bad == {m \in Nat : m \in 1 .. Len(q) /\ ~ OldestBest(policy, q, m, f[m])}
<1>5. Bad = {}
  <2>1. SUFFICES ASSUME Bad # {} PROVE FALSE
    OBVIOUS
  <2>2. PICK m \in Bad : \A k \in Bad : m <= k
    <3>1. Bad \in SUBSET Nat
      OBVIOUS
    <3>2. QED BY <2>1, <3>1, LeastNat
  <2>3. CASE m = 1
    <3>1. f[1] = q[1] /\ q[1] \in Task
      BY <1>1, <1>4
    <3>2. ~ Better(policy, q[1], q[1])
      BY <3>1, BetterIsAnOrder
    <3>3. OldestBest(policy, q, 1, q[1])
      BY <3>2 DEF OldestBest
    <3>4. QED BY <2>2, <2>3, <3>1, <3>3
  <2>4. CASE m # 1
    <3>1. m - 1 \in 1 .. Len(q) - 1 /\ m - 1 \in Nat /\ ~ (m <= m - 1) /\ (m - 1) + 1 = m
      BY <1>1, <2>2, <2>4
    <3>2. OldestBest(policy, q, m - 1, f[m - 1])
      BY <1>1, <2>2, <3>1
    <3>3. OldestBest(policy, q, m, IF Better(policy, f[m - 1], q[m]) THEN q[m] ELSE f[m - 1])
      <4> DEFINE k == m - 1
      <4>1. OldestBest(policy, q, k + 1,
                       IF Better(policy, f[k], q[k + 1]) THEN q[k + 1] ELSE f[k])
        BY <3>1, <3>2, PickStep
      <4>2. QED BY <3>1, <4>1
    <3>4. QED BY <1>4, <2>2, <2>4, <3>3
  <2>5. QED BY <2>3, <2>4
<1>6. QED BY <1>1, <1>3, <1>5

-----------------------------------------------------------------------------
(* Moving a task to the head.                                              *)

\* The task a policy chooses is in the queue.
LEMMA ChoiceIsQueued ==
  ASSUME IInv, NEW policy \in Policy, readyQ # << >>
  PROVE  Choose(policy) \in Elems(readyQ)
<1>1. readyQ \in Seq(Task) /\ Len(readyQ) \in Nat /\ Len(readyQ) >= 1 /\ TypeOK
  BY EmptySeq, LenProperties DEF IInv, TypeOK
<1>2. CASE policy = "fifo"
  BY <1>1, <1>2, TailList DEF Choose
<1>3. CASE policy = "lifo"
  BY <1>1, <1>3 DEF Choose, Elems
<1>4. CASE policy \in Keyed
  <2>1. Choose(policy) = PickBy(policy, readyQ)
    BY <1>4 DEF Choose, Keyed
  <2>2. OldestBest(policy, readyQ, Len(readyQ), PickBy(policy, readyQ))
    BY <1>1, <1>4, PickIsOldestBest
  <2>3. QED BY <2>1, <2>2 DEF OldestBest, Elems
<1>5. QED BY <1>2, <1>3, <1>4 DEF Policy

\* The queue a policy hands to schedule is an arrangement of the ready queue:
\* the chosen task, and the others in the order they had.
LEMMA ReorderArranges ==
  ASSUME IInv, NEW policy \in Policy
  PROVE  LET q == Reorder(policy) IN
         /\ q \in Seq(Task) /\ NoDup(q) /\ Elems(q) = Elems(readyQ)
         /\ q = << >> <=> readyQ = << >>
         /\ readyQ # << >> => Tail(q) = Without(readyQ, {Head(q)})
<1>1. readyQ \in Seq(Task) /\ NoDup(readyQ)
  BY DEF IInv, TypeOK, QueueExact
<1>2. CASE readyQ = << >>
  BY <1>1, <1>2 DEF Reorder
<1>3. CASE readyQ # << >>
  <2> DEFINE c == Choose(policy)
  <2>1. c \in Elems(readyQ)
    BY <1>3, ChoiceIsQueued
  <2>2. Reorder(policy) = << c >> \o RemoveFirst(readyQ, {c})
    BY <1>3 DEF Reorder
  <2> HIDE DEF c
  <2> DEFINE w == << c >> \o RemoveFirst(readyQ, {c})
  <2>3. /\ w \in Seq(Task) /\ NoDup(w) /\ Elems(w) = Elems(readyQ) /\ w # << >>
        /\ Head(w) = c /\ Tail(w) = Without(readyQ, {c})
    BY <1>1, <2>1, PutFirst
  <2> HIDE DEF w
  <2>4. Reorder(policy) = w
    BY <2>2 DEF w
  <2>5. QED BY <1>3, <2>3, <2>4
<1>4. QED BY <1>2, <1>3

-----------------------------------------------------------------------------
(* The policies leave the scheduling invariants in force.                  *)

\* A step that leaves the runtime alone.
LEMMA FrameKeeps ==
  ASSUME IInv, UNCHANGED vars
  PROVE  IInv'
<1>1. TypeOK'
  <2>1. LedgerTypeOK'
    BY LedgerUnchanged DEF IInv, TypeOK, vars
  <2>2. QED BY <2>1 DEF IInv, TypeOK, vars, scheduleVars, identityVars, timeVars,
                        waiterVars, mailVars, statusVars
<1>2. QueueExact' /\ WaitersExact' /\ TimersExact'
  BY FrameExact DEF IInv, vars, scheduleVars, identityVars, timeVars, waiterVars
<1>3. QED BY <1>1, <1>2 DEF IInv

\* policyStep where schedule refuses: the reordered queue stays.
LEMMA ArrangedKeeps ==
  ASSUME IInv, NEW q \in Seq(Task), NoDup(q), Elems(q) = Elems(readyQ), readyQ' = q,
         UNCHANGED << taskState, identityVars, taskMeta, running, timeVars, waiterVars,
                      mailVars, statusVars, ledgerVars >>
  PROVE  IInv'
<1>1. TypeOK'
  <2>1. LedgerTypeOK'
    BY DEF IInv, TypeOK, LedgerTypeOK, ledgerVars
  <2>2. QED BY <2>1 DEF IInv, TypeOK, identityVars, timeVars, waiterVars, mailVars, statusVars
<1>2. QueueExact'
  BY DEF IInv, QueueExact
<1>3. WaitersExact'
  BY WaitersKept DEF waiterVars, identityVars
<1>4. TimersExact'
  BY TimersKept DEF timeVars
<1>5. QED BY <1>1, <1>2, <1>3, <1>4 DEF IInv

\* policyStep, whichever the policy.
LEMMA PolicyStepKeeps ==
  ASSUME IInv, NEW policy \in Policy, PolicyStep(policy)
  PROVE  IInv'
<1> DEFINE q == Reorder(policy)
<1>1. q \in Seq(Task) /\ NoDup(q) /\ Elems(q) = Elems(readyQ)
  BY ReorderArranges
<1>2. \/ Dispatch(q)
      \/ /\ readyQ' = q
         /\ UNCHANGED << taskState, identityVars, taskMeta, running, timeVars,
                         waiterVars, mailVars, statusVars, ledgerVars >>
  BY DEF PolicyStep
<1> HIDE DEF q
<1>3. CASE Dispatch(q)
  BY <1>1, <1>3, DispatchTypes, DispatchExact DEF IInv
<1>4. QED BY <1>1, <1>2, <1>3, ArrangedKeeps

\* Every step of a program that runs under a policy.
LEMMA PolicyKeeps ==
  ASSUME IInv, PolicyNext
  PROVE  IInv'
<1>1. CASE \E policy \in Policy : PolicyStep(policy)
  BY <1>1, PolicyStepKeeps
<1>2. CASE Next
  BY <1>2, NextTypes, NextExact DEF IInv
<1>3. QED BY <1>1, <1>2 DEF PolicyNext, Next, SchedulerNext, CreationNext

\* The single pass of pickBy finds the oldest of the best in any typed state.
LEMMA ChoiceLemma ==
  ASSUME TypeOK
  PROVE  ChoiceIsOldestBest
<1>1. SUFFICES ASSUME readyQ # << >>, NEW policy \in Keyed
               PROVE  \E i \in 1 .. Len(readyQ) :
                        /\ readyQ[i] = Choose(policy)
                        /\ \A j \in 1 .. Len(readyQ) : ~ Better(policy, Choose(policy), readyQ[j])
                        /\ \A j \in 1 .. i - 1 : Better(policy, readyQ[j], Choose(policy))
  BY DEF ChoiceIsOldestBest
<1>2. Choose(policy) = PickBy(policy, readyQ)
  BY <1>1 DEF Choose, Keyed
<1>3. OldestBest(policy, readyQ, Len(readyQ), PickBy(policy, readyQ))
  BY <1>1, PickIsOldestBest DEF TypeOK
<1>4. QED BY <1>2, <1>3, Zenon DEF OldestBest

\* What a step may do to the queue: the action of PolicyKeepsQueue.
StepKeepsQueue ==
  /\ running = None /\ running' # None => readyQ' = Without(readyQ, {running'})
  /\ UNCHANGED << taskState, running >> =>
       readyQ' = readyQ \/ (running # None /\ BroughtForward)
  /\ ~ UNCHANGED << taskState, running >> =>
       KeepsOrder(readyQ, readyQ') /\ NewcomersLast(readyQ, readyQ')

\* A step that takes tasks out of the queue or puts newcomers at its end treats
\* the queue as it may, if whoever it starts is all it takes out, and if it
\* changes somebody's state whenever it changes the queue.
LEMMA FifoKeepsQueue ==
  ASSUME IInv, TypeOK', Continues(readyQ, readyQ'),
         running = None => running' = None \/ readyQ' = Without(readyQ, {running'}),
         UNCHANGED << taskState, running >> => readyQ' = readyQ
  PROVE  StepKeepsQueue
<1>1. readyQ \in Seq(Task) /\ NoDup(readyQ) /\ readyQ' \in Seq(Task)
  BY DEF IInv, TypeOK, QueueExact
<1>2. KeepsOrder(readyQ, readyQ') /\ NewcomersLast(readyQ, readyQ')
  BY <1>1, ContinuesKeepsOrder
<1>3. QED BY <1>2 DEF StepKeepsQueue

\* So does a step that starts nobody and leaves the queue alone.
LEMMA SameQueue ==
  ASSUME IInv, TypeOK', UNCHANGED readyQ, running' \in {running, None}
  PROVE  StepKeepsQueue
<1>1. Continues(readyQ, readyQ')
  BY SameContinues DEF IInv, TypeOK
<1>2. running = None => running' = None
  OBVIOUS
<1>3. QED BY <1>1, <1>2, FifoKeepsQueue

\* The task a queue starts leaves it and the others stay in order, wherever in
\* the ready queue it was.
LEMMA DispatchKeepsQueue ==
  ASSUME IInv, TypeOK', NEW q \in Seq(Task), Elems(q) = Elems(readyQ),
         Dispatch(q), Tail(q) = Without(readyQ, {Head(q)})
  PROVE  StepKeepsQueue
<1>1. PICK c \in Task : c = Head(q)
  <2>1. Head(q) \in Elems(q)
    BY TailList DEF Dispatch, CanDispatch
  <2>2. QED BY <2>1 DEF IInv, QueueExact
<1>2. readyQ' = Without(readyQ, {c}) /\ running = None /\ running' = c
  BY <1>1 DEF Dispatch, CanDispatch
<1>3. c # None
  BY NoneAssumption DEF Task
<1>4. Continues(readyQ, readyQ')
  BY <1>2, WithoutContinues DEF IInv, TypeOK
<1>5. QED BY <1>2, <1>3, <1>4, FifoKeepsQueue

\* A task that is not runnable joins the queue at its end.
LEMMA AppendKeepsQueue ==
  ASSUME IInv, TypeOK', NEW t \in Task, taskState[t] \notin Runnable,
         readyQ' = Append(readyQ, t), taskState'[t] # taskState[t],
         running' \in {running, None}
  PROVE  StepKeepsQueue
<1>1. t \notin Elems(readyQ)
  BY DEF IInv, QueueExact
<1>2. Continues(readyQ, readyQ')
  BY <1>1, AppendContinues DEF IInv, TypeOK
<1>3. ~ UNCHANGED << taskState, running >>
  OBVIOUS
<1>4. running = None => running' = None
  OBVIOUS
<1>5. QED BY <1>2, <1>3, <1>4, FifoKeepsQueue

\* A refused policy step brings the chosen task forward if a task is running. If
\* none is, the queue was empty, since its members are all runnable.
LEMMA RefusedKeepsQueue ==
  ASSUME IInv, NEW policy \in Policy, ~ CanDispatch(Reorder(policy)),
         readyQ' = Reorder(policy), UNCHANGED << taskState, running >>
  PROVE  StepKeepsQueue
<1> DEFINE q == Reorder(policy)
<1>1. /\ q \in Seq(Task) /\ Elems(q) = Elems(readyQ)
      /\ q = << >> <=> readyQ = << >>
      /\ readyQ # << >> => Tail(q) = Without(readyQ, {Head(q)})
  BY ReorderArranges
<1>2. ~ CanDispatch(q) /\ readyQ' = q
  OBVIOUS
<1> HIDE DEF q
<1>3. CASE readyQ = << >>
  BY <1>1, <1>2, <1>3 DEF StepKeepsQueue
<1>4. CASE readyQ # << >>
  <2>1. Head(q) \in Elems(readyQ)
    BY <1>1, <1>4, TailList
  <2>2. taskState[Head(q)] \in Runnable
    BY <2>1 DEF IInv, QueueExact
  <2>3. running # None
    BY <1>1, <1>2, <1>4, <2>2 DEF CanDispatch
  <2>4. q = << Head(q) >> \o Tail(q)
    BY <1>1, <1>4
  <2>5. PICK c \in Elems(readyQ) : c = Head(q)
    BY <2>1
  <2>6. readyQ' = << c >> \o Without(readyQ, {c})
    BY <1>1, <1>2, <1>4, <2>4, <2>5
  <2>7. QED BY <2>3, <2>6 DEF StepKeepsQueue, BroughtForward
<1>5. QED BY <1>3, <1>4

\* Every step of a program under a policy treats the queue as it may.
LEMMA PolicyLeaves ==
  ASSUME IInv, TypeOK', PolicyNext
  PROVE  StepKeepsQueue
<1>0. taskState \in [Task -> TaskState \cup {None}] /\ readyQ \in Seq(Task)
  BY DEF IInv, TypeOK
<1>1. ASSUME NEW policy \in Policy, PolicyStep(policy) PROVE StepKeepsQueue
  <2> DEFINE q == Reorder(policy)
  <2>1. CASE Dispatch(q)
    <3>1. q # << >>
      BY <2>1 DEF Dispatch, CanDispatch
    <3>2. q \in Seq(Task) /\ Elems(q) = Elems(readyQ) /\ Tail(q) = Without(readyQ, {Head(q)})
      BY <3>1, ReorderArranges
    <3> HIDE DEF q
    <3>3. QED BY <2>1, <3>2, DispatchKeepsQueue
  <2>2. CASE ~ CanDispatch(q) /\ readyQ' = q /\ UNCHANGED << taskState, running >>
    BY <2>2, RefusedKeepsQueue
  <2>3. QED BY <1>1, <2>1, <2>2 DEF PolicyStep
<1>2. ASSUME NEW t \in Task, Yield(t) PROVE StepKeepsQueue
  <2>1. /\ taskState[t] \notin Runnable /\ taskState'[t] # taskState[t]
        /\ readyQ' = Append(readyQ, t) /\ running' = None
    BY <1>0, <1>2 DEF Yield, IsRunning, Runnable
  <2>2. QED BY <2>1, AppendKeepsQueue
<1>3. ASSUME NEW t \in Task, Complete(t) PROVE StepKeepsQueue
  BY <1>3, SameQueue DEF Complete
<1>4. ASSUME NEW t \in Task, Cancel(t) PROVE StepKeepsQueue
  <2>1. /\ readyQ' = Without(readyQ, {t}) /\ running' \in {running, None}
        /\ taskState'[t] # taskState[t]
    BY <1>0, <1>4 DEF Cancel, Terminate, Live, Terminal
  <2>2. Continues(readyQ, readyQ')
    BY <1>0, <2>1, WithoutContinues
  <2>3. running = None => running' = None
    BY <2>1
  <2>4. ~ UNCHANGED << taskState, running >>
    BY <2>1
  <2>5. QED BY <2>2, <2>3, <2>4, FifoKeepsQueue
<1>5. ASSUME NEW a \in Actor, Spawn(a) PROVE StepKeepsQueue
  <2>1. PICK t \in Task : t = nextId
    BY <1>5 DEF Spawn, NewTask, IInv, TypeOK, Task
  <2>2. /\ taskState[t] = None /\ taskState'[t] = "new"
        /\ readyQ' = Append(readyQ, t) /\ UNCHANGED running
    BY <1>0, <1>5, <2>1 DEF Spawn, NewTask
  <2>3. None \notin Runnable /\ None # "new"
    BY AbsentAssumption DEF TaskState, Runnable
  <2>4. QED BY <2>2, <2>3, AppendKeepsQueue
<1>6. ASSUME MetaNext PROVE StepKeepsQueue
  BY <1>6, SameQueue DEF MetaNext, SetPriority, SetDeadline, taskVars, scheduleVars
<1>7. QED BY <1>1, <1>2, <1>3, <1>4, <1>5, <1>6 DEF PolicyNext

-----------------------------------------------------------------------------
(* The drivers.                                                            *)

\* The least of the fuel that is left and the length of the queue.
Reach(n) == IF n < Len(readyQ) THEN n ELSE Len(readyQ)

\* The goal of a call that has to complete the first n tasks of q.
GoalOf(q, n) ==
  [taskState |-> CompleteAll(SubSeq(q, 1, n)), readyQ |-> SubSeq(q, n + 1, Len(q))]

\* The same, where t runs and is the first to complete.
GoalWith(t, q, n) ==
  [taskState |-> [CompleteAll(SubSeq(q, 1, n)) EXCEPT ![t] = "completed"],
   readyQ    |-> SubSeq(q, n + 1, Len(q))]

\* Where a call of driveOps stands. Between rounds its goal is what it was when
\* it began, for the fuel that is left. Within one, either its task runs and is
\* about to complete, or another one does and the round changes nothing.
DriveInv ==
  /\ fuel \in Nat \cup {None}
  /\ chosen \in Task \cup {None}
  /\ fuel = None => chosen = None
  /\ fuel # None /\ chosen = None =>
       goal = GoalOf(readyQ, IF running # None THEN 0 ELSE Reach(fuel))
  /\ chosen # None =>
       /\ fuel # 0
       /\ running # None
       /\ running = chosen => goal = GoalWith(chosen, readyQ, Reach(fuel - 1))
       /\ running # chosen => goal = [taskState |-> taskState, readyQ |-> readyQ]

\* The goal of a call that reaches nobody is the state it finds.
LEMMA NobodyReached ==
  ASSUME TypeOK
  PROVE  GoalOf(readyQ, 0) = [taskState |-> taskState, readyQ |-> readyQ]
<1>1. readyQ \in Seq(Task) /\ taskState \in [Task -> TaskState \cup {None}] /\ Len(readyQ) \in Nat
  BY LenProperties DEF TypeOK
<1>2. SubSeq(readyQ, 1, 0) = << >> /\ SubSeq(readyQ, 1, Len(readyQ)) = readyQ
  BY <1>1, SubSeqEmpty, SubSeqFull
<1>3. Elems(<< >>) = {}
  BY DEF Elems
<1>4. CompleteAll(<< >>) = taskState
  BY <1>1, <1>3 DEF CompleteAll
<1>5. 0 + 1 = 1
  OBVIOUS
<1>6. QED BY <1>2, <1>4, <1>5 DEF GoalOf

\* The members of a prefix.
LEMMA PrefixElems ==
  ASSUME NEW q \in Seq(Task), NEW n \in 0 .. Len(q)
  PROVE  /\ Elems(SubSeq(q, 1, n)) = {q[i] : i \in 1 .. n}
         /\ SubSeq(q, 1, n) \in Seq(Task)
<1>1. Len(q) \in Nat /\ \A i \in 1 .. n : q[i] \in Task
  BY LenProperties, ElementOfSeq
<1>2. /\ SubSeq(q, 1, n) \in Seq(Task) /\ Len(SubSeq(q, 1, n)) = n
      /\ \A i \in 1 .. n : SubSeq(q, 1, n)[i] = q[i]
  BY <1>1, SubSeqProperties
<1>3. QED BY <1>2 DEF Elems

\* What is behind the first n + 1 members is behind the first n of the tail.
LEMMA SameSuffix ==
  ASSUME NEW q \in Seq(Task), q # << >>, NEW n \in 0 .. Len(q) - 1
  PROVE  SubSeq(q, (n + 1) + 1, Len(q)) = SubSeq(Tail(q), n + 1, Len(Tail(q)))
<1> DEFINE r == Tail(q)
<1>1. PICK l \in Nat : l = Len(q)
  BY LenProperties
<1>2. /\ r \in Seq(Task) /\ Len(r) = l - 1 /\ l >= 1
      /\ \A i \in 1 .. l - 1 : r[i] = q[i + 1]
  BY <1>1, HeadTailProperties, EmptySeq
<1>3. n \in Nat /\ n <= l - 1
  BY <1>1, <1>2
<1>4. /\ \A i \in (n + 1) + 1 .. l : q[i] \in Task
      /\ \A i \in n + 1 .. l - 1 : r[i] \in Task
  <2>1. \A i \in 1 .. l : q[i] \in Task
    BY <1>1, ElementOfSeq
  <2>2. \A i \in 1 .. l - 1 : r[i] \in Task
    BY <1>2, ElementOfSeq
  <2>3. \A i \in (n + 1) + 1 .. l : i \in 1 .. l
    BY <1>1, <1>3
  <2>4. \A i \in n + 1 .. l - 1 : i \in 1 .. l - 1
    BY <1>1, <1>3
  <2>5. QED BY <2>1, <2>2, <2>3, <2>4
<1> DEFINE u == SubSeq(q, (n + 1) + 1, l)  v == SubSeq(r, n + 1, l - 1)
<1>5. /\ u \in Seq(Task)
      /\ Len(u) = IF (n + 1) + 1 <= l THEN l - ((n + 1) + 1) + 1 ELSE 0
      /\ \A i \in 1 .. l - ((n + 1) + 1) + 1 : u[i] = q[((n + 1) + 1) + i - 1]
  <2>1. (n + 1) + 1 \in Int /\ l \in Int
    BY <1>3
  <2>2. QED BY <1>1, <1>3, <1>4, <2>1, SubSeqProperties
<1>6. /\ v \in Seq(Task)
      /\ Len(v) = IF n + 1 <= l - 1 THEN l - 1 - (n + 1) + 1 ELSE 0
      /\ \A i \in 1 .. l - 1 - (n + 1) + 1 : v[i] = r[(n + 1) + i - 1]
  <2>1. n + 1 \in Int /\ l - 1 \in Int
    BY <1>1, <1>3
  <2> HIDE DEF r
  <2>2. QED BY <1>2, <1>3, <1>4, <2>1, SubSeqProperties
<1> HIDE DEF r, u, v
<1>7. Len(u) = Len(v) /\ Len(u) = l - 1 - n
  <2>1. Len(u) = IF (n + 1) + 1 <= l THEN l - ((n + 1) + 1) + 1 ELSE 0
    BY <1>5
  <2>2. Len(v) = IF n + 1 <= l - 1 THEN l - 1 - (n + 1) + 1 ELSE 0
    BY <1>6
  <2>3. QED BY ONLY l \in Nat, <1>3, <2>1, <2>2
<1>8. ASSUME NEW i \in 1 .. Len(u) PROVE u[i] = v[i]
  <2>1. i \in Nat /\ 1 <= i /\ i <= l - 1 - n
    <3>1. PICK k : k = Len(u) /\ k = l - 1 - n
      BY <1>7
    <3>2. i \in 1 .. k
      BY <3>1
    <3>3. QED BY <1>1, <1>3, <3>1, <3>2
  <2>2. /\ i \in 1 .. l - ((n + 1) + 1) + 1 /\ i \in 1 .. l - 1 - (n + 1) + 1
        /\ (n + 1) + i - 1 \in 1 .. l - 1
        /\ ((n + 1) + i - 1) + 1 = ((n + 1) + 1) + i - 1
    BY ONLY l \in Nat, <1>3, <2>1
  <2>3. u[i] = q[((n + 1) + 1) + i - 1] /\ v[i] = r[(n + 1) + i - 1]
    BY <1>5, <1>6, <2>2
  <2>4. r[(n + 1) + i - 1] = q[((n + 1) + i - 1) + 1]
    BY <1>2, <2>2
  <2>5. QED BY <2>2, <2>3, <2>4
<1>9. u = v
  BY <1>5, <1>6, <1>7, <1>8, SeqEqual
<1>10. QED BY <1>1, <1>2, <1>9 DEF u, v, r

\* Dispatching the head and completing it is the first step towards the goal.
LEMMA HeadFirst ==
  ASSUME IInv, readyQ # << >>, NEW n \in 0 .. Len(readyQ) - 1,
         taskState' = [taskState EXCEPT ![Head(readyQ)] = "running"],
         readyQ' = Tail(readyQ),
         NEW t, t = Head(readyQ)
  PROVE  GoalOf(readyQ, n + 1) = GoalWith(t, readyQ, n)'
<1> DEFINE q == readyQ  h == Head(readyQ)  r == Tail(readyQ)
           before == CompleteAll(SubSeq(q, 1, n + 1))
           after  == [u \in Task |-> IF u \in Elems(SubSeq(r, 1, n)) /\ taskState'[u] \in Runnable
                                     THEN "completed" ELSE taskState'[u]]
<1>1. /\ q \in Seq(Task) /\ r \in Seq(Task) /\ h \in Task
      /\ Len(q) \in Nat /\ Len(q) >= 1 /\ Len(r) = Len(q) - 1
      /\ h = q[1] /\ \A i \in 1 .. Len(q) - 1 : r[i] = q[i + 1]
  BY HeadTailProperties, EmptySeq, LenProperties DEF IInv, TypeOK
<1>2. Elems(SubSeq(q, 1, n + 1)) = {h} \cup Elems(SubSeq(r, 1, n))
  <2>1. n \in Nat /\ n + 1 \in 0 .. Len(q) /\ n \in 0 .. Len(r)
    BY <1>1
  <2>2. /\ Elems(SubSeq(q, 1, n + 1)) = {q[i] : i \in 1 .. n + 1}
        /\ Elems(SubSeq(r, 1, n)) = {r[i] : i \in 1 .. n}
    BY <1>1, <2>1, PrefixElems
  <2>3. ASSUME NEW i \in 1 .. n + 1 PROVE q[i] \in {h} \cup {r[j] : j \in 1 .. n}
    <3>1. i = 1 \/ (i - 1 \in 1 .. n /\ i - 1 \in 1 .. Len(q) - 1 /\ (i - 1) + 1 = i)
      BY <1>1, <2>1
    <3>2. QED BY <1>1, <3>1
  <2>4. ASSUME NEW i \in 1 .. n PROVE r[i] \in {q[j] : j \in 1 .. n + 1}
    BY <1>1, <2>1
  <2>5. h \in {q[j] : j \in 1 .. n + 1}
    BY <1>1, <2>1
  <2>6. QED BY <2>2, <2>3, <2>4, <2>5
<1>3. SubSeq(q, (n + 1) + 1, Len(q)) = SubSeq(r, n + 1, Len(r))
  BY <1>1, SameSuffix
<1>4. h \in Elems(q) /\ taskState[h] \in Runnable
  BY <1>1 DEF IInv, QueueExact, Elems
<1>5. before = [after EXCEPT ![h] = "completed"]
  <2>1. taskState \in [Task -> TaskState \cup {None}]
    BY DEF IInv, TypeOK
  <2>2. \A u \in Task : u # h => taskState'[u] = taskState[u]
    BY <2>1, <1>1
  <2>3. QED BY <1>1, <1>2, <1>4, <2>2 DEF CompleteAll
<1>6. GoalOf(readyQ, n + 1) = [taskState |-> before, readyQ |-> SubSeq(r, n + 1, Len(r))]
  BY <1>3 DEF GoalOf
<1>7. GoalWith(t, readyQ, n)' =
        [taskState |-> [after EXCEPT ![t] = "completed"], readyQ |-> SubSeq(r, n + 1, Len(r))]
  BY DEF GoalWith, CompleteAll
<1> HIDE DEF before, after
<1>8. QED BY <1>5, <1>6, <1>7

\* drain: who was queued has completed, and who was not is where it was.
LEMMA DrainKeeps ==
  ASSUME IInv, Drain
  PROVE  IInv'
<1>1. /\ readyQ' = << >> /\ running' = running /\ readyQ \in Seq(Task)
      /\ taskState \in [Task -> TaskState \cup {None}]
      /\ taskState' = CompleteAll(readyQ)
      /\ UNCHANGED << taskOwner, timers, waitDeadline, now, mailboxWaiters,
                      timedMailboxWaiters >>
  BY DEF Drain, IInv, TypeOK, identityVars, timeVars, waiterVars
<1>2. \A t \in Task :
        \/ t \in Elems(readyQ) /\ taskState[t] \in Runnable /\ taskState'[t] = "completed"
        \/ t \notin Elems(readyQ) /\ taskState[t] \notin Runnable /\ taskState'[t] = taskState[t]
  BY <1>1 DEF IInv, QueueExact, CompleteAll
<1>3. TypeOK'
  <2>1. taskState' \in [Task -> TaskState \cup {None}]
    BY <1>1 DEF CompleteAll, TaskState, Terminal
  <2>2. readyQ' \in Seq(Task)
    BY <1>1
  <2>3. LedgerTypeOK'
    BY LedgerUnchanged DEF Drain, IInv, TypeOK
  <2>4. QED BY <2>1, <2>2, <2>3 DEF Drain, IInv, TypeOK, identityVars, timeVars,
                                    waiterVars, mailVars, statusVars
<1>4. QueueExact'
  <2>1. NoDup(readyQ') /\ Elems(readyQ') = {}
    BY <1>1 DEF NoDup, Elems
  <2>2. \A t \in Task : taskState'[t] \notin Runnable
    BY <1>2 DEF Runnable
  <2>3. \A t \in Task : taskState'[t] = "running" <=> taskState[t] = "running"
    BY <1>2 DEF Runnable
  <2>4. QED BY <1>1, <2>1, <2>2, <2>3 DEF IInv, QueueExact
<1>5. WaitersExact'
  BY <1>1, <1>2, WaitersKept DEF Receiving, Runnable
<1>6. TimersExact'
  BY <1>1, <1>2, TimersKept DEF Timed, Runnable
<1>7. QED BY <1>3, <1>4, <1>5, <1>6 DEF IInv

\* driveOps is called: its goal is set for the fuel it is given.
LEMMA StartKeepsGoal ==
  ASSUME DriveInv, NEW f \in 0 .. MaxFuel, StartDrive(f)
  PROVE  DriveInv'
<1>1. /\ fuel = None /\ fuel' = f /\ chosen = None /\ chosen' = None
      /\ UNCHANGED << taskState, readyQ, running >>
      /\ f \in Nat
  BY FuelAssumption DEF StartDrive, DriveInv, vars, scheduleVars
<1>2. goal' = GoalOf(readyQ, IF running # None THEN 0 ELSE Reach(f))
  BY DEF StartDrive, GoalOf, Reach
<1>3. goal' = GoalOf(readyQ, IF running # None THEN 0 ELSE Reach(fuel))'
  BY <1>1, <1>2 DEF GoalOf, Reach, CompleteAll
<1>4. QED BY <1>1, <1>3 DEF DriveInv

\* schedule within a round: the head of the queue starts, or somebody runs and
\* the round will change nothing.
LEMMA ScheduleKeepsGoal ==
  ASSUME IInv, DriveInv, DriveSchedule
  PROVE  DriveInv'
<1>1. /\ fuel \in Nat /\ fuel # 0 /\ chosen = None /\ readyQ # << >>
      /\ chosen' = Head(readyQ) /\ fuel' = fuel /\ goal' = goal
      /\ goal = GoalOf(readyQ, IF running # None THEN 0 ELSE Reach(fuel))
  BY NoneAssumption DEF DriveSchedule, DriveInv
<1>2. /\ Head(readyQ) \in Task /\ Head(readyQ) # None /\ Len(readyQ) \in Nat
      /\ Len(readyQ) >= 1 /\ Len(Tail(readyQ)) = Len(readyQ) - 1
  <2>1. readyQ \in Seq(Task)
    BY DEF IInv, TypeOK
  <2>2. QED BY <1>1, <2>1, HeadTailProperties, EmptySeq, LenProperties, TaskListTypes,
              NoneAssumption DEF Task
<1>3. taskState[Head(readyQ)] \in Runnable
  <2>1. Head(readyQ) \in Elems(readyQ)
    BY <1>2 DEF Elems
  <2>2. QED BY <2>1 DEF IInv, QueueExact
<1>4. CASE Schedule
  <2>1. /\ running = None /\ running' = Head(readyQ) /\ readyQ' = Tail(readyQ)
        /\ taskState' = [taskState EXCEPT ![Head(readyQ)] = "running"]
    BY <1>4 DEF Schedule, Dispatch, CanDispatch
  <2>2. PICK n : n = Reach(fuel - 1)'
    OBVIOUS
  <2>3. n \in 0 .. Len(readyQ) - 1 /\ Reach(fuel) = n + 1
    <3>1. PICK l, f : l = Len(readyQ) /\ f = fuel
      OBVIOUS
    <3>2. Len(readyQ') = l - 1 /\ fuel' - 1 = f - 1
      BY <1>1, <1>2, <2>1, <3>1
    <3>3. n = IF f - 1 < l - 1 THEN f - 1 ELSE l - 1
      BY <2>2, <3>2 DEF Reach
    <3>4. l \in Nat /\ f \in Nat /\ f # 0 /\ l >= 1
      BY <1>1, <1>2, <3>1
    <3>5. n \in 0 .. l - 1 /\ (IF f < l THEN f ELSE l) = n + 1
      BY ONLY <3>3, <3>4
    <3>6. QED BY <3>1, <3>5 DEF Reach
  <2>4. PICK t : t = Head(readyQ)
    OBVIOUS
  <2>5. GoalOf(readyQ, n + 1) = GoalWith(t, readyQ, n)'
    BY <1>1, <2>1, <2>3, <2>4, HeadFirst
  <2>6. goal' = GoalWith(t, readyQ, n)'
    BY <1>1, <2>1, <2>3, <2>5
  <2>7. goal' = GoalWith(chosen, readyQ, Reach(fuel - 1))'
    <3>1. chosen' = t /\ Reach(fuel - 1)' = n
      BY <1>1, <2>2, <2>4
    <3>2. GoalWith(chosen, readyQ, Reach(fuel - 1))' = GoalWith(t, readyQ, n)'
      BY <3>1 DEF GoalWith, CompleteAll
    <3>3. QED BY <2>6, <3>2
  <2>8. /\ fuel' \in Nat /\ fuel' # None /\ fuel' # 0
        /\ chosen' \in Task /\ chosen' # None /\ running' = chosen'
    BY <1>1, <1>2, <2>1, NoneAssumption
  <2>9. QED BY ONLY <2>7, <2>8 DEF DriveInv
<1>5. CASE ~ CanDispatch(readyQ) /\ UNCHANGED vars
  <2>1. running # None
    BY <1>1, <1>3, <1>5 DEF CanDispatch
  <2>2. UNCHANGED << taskState, readyQ, running >>
    BY <1>5 DEF vars, scheduleVars
  <2>3. goal = [taskState |-> taskState, readyQ |-> readyQ]
    BY <1>1, <2>1, NobodyReached DEF IInv
  <2>4. running # Head(readyQ)
    <3>1. running = Head(readyQ) => taskState[Head(readyQ)] = "running"
      BY <1>2 DEF IInv, QueueExact
    <3>2. QED BY <1>3, <3>1 DEF Runnable
  <2>5. /\ fuel' \in Nat /\ fuel' # None /\ fuel' # 0
        /\ chosen' \in Task /\ chosen' # None /\ running' # None /\ running' # chosen'
    BY <1>1, <1>2, <2>1, <2>2, <2>4, NoneAssumption
  <2>6. goal' = [taskState |-> taskState', readyQ |-> readyQ']
    BY <1>1, <2>2, <2>3
  <2>7. QED BY ONLY <2>5, <2>6 DEF DriveInv
<1>6. QED BY <1>4, <1>5 DEF DriveSchedule

\* complete within a round: one task of the goal is done, or nothing changes.
LEMMA CompleteKeepsGoal ==
  ASSUME IInv, DriveInv, DriveComplete
  PROVE  DriveInv'
<1>1. /\ fuel \in Nat /\ fuel # 0 /\ chosen \in Task /\ chosen' = None
      /\ fuel' = fuel - 1 /\ fuel - 1 \in Nat /\ goal' = goal /\ running # None
      /\ running = chosen => goal = GoalWith(chosen, readyQ, Reach(fuel - 1))
      /\ running # chosen => goal = [taskState |-> taskState, readyQ |-> readyQ]
  BY DEF DriveComplete, DriveInv
<1>2. CASE Complete(chosen)
  <2>1. /\ running = chosen /\ running' = None /\ readyQ' = readyQ
        /\ taskState' = [taskState EXCEPT ![chosen] = "completed"]
        /\ taskState \in [Task -> TaskState \cup {None}]
    BY <1>2 DEF Complete, IsRunning, IInv, TypeOK
  <2>2. PICK c, n : c = chosen /\ n = Reach(fuel)'
    OBVIOUS
  <2>3. n = Reach(fuel - 1)
    BY <1>1, <2>1, <2>2 DEF Reach
  <2>4. ASSUME NEW p
        PROVE  CompleteAll(p)' = [CompleteAll(p) EXCEPT ![c] = "completed"]
    <3>1. "completed" \notin Runnable
      BY DEF Runnable
    <3>2. QED BY <1>1, <2>1, <2>2, <3>1 DEF CompleteAll
  <2>5. goal = GoalOf(readyQ, n)'
    <3>1. PICK q : q = readyQ
      OBVIOUS
    <3>2. GoalOf(readyQ, n)' =
            [taskState |-> CompleteAll(SubSeq(q, 1, n))', readyQ |-> SubSeq(q, n + 1, Len(q))]
      BY <2>1, <3>1 DEF GoalOf, CompleteAll
    <3>3. CompleteAll(SubSeq(q, 1, n))' = [CompleteAll(SubSeq(q, 1, n)) EXCEPT ![c] = "completed"]
      BY <2>4
    <3>4. QED BY <1>1, <2>1, <2>2, <2>3, <3>1, <3>2, <3>3 DEF GoalWith
  <2>6. goal' = GoalOf(readyQ, Reach(fuel))'
    BY <1>1, <2>2, <2>5 DEF GoalOf, CompleteAll
  <2>7. QED BY <1>1, <2>1, <2>6, NoneAssumption DEF DriveInv
<1>3. CASE ~ IsRunning(chosen) /\ UNCHANGED vars
  <2>1. UNCHANGED << taskState, readyQ, running >>
    BY <1>3 DEF vars, scheduleVars
  <2>2. running # chosen
    BY <1>1, <1>3 DEF IInv, QueueExact, IsRunning
  <2>3. goal = GoalOf(readyQ, 0)
    BY <1>1, <2>2, NobodyReached DEF IInv
  <2>4. goal' = GoalOf(readyQ, IF running # None THEN 0 ELSE Reach(fuel))'
    BY <1>1, <2>1, <2>3 DEF GoalOf, CompleteAll
  <2>5. QED BY <1>1, <2>1, <2>4, NoneAssumption DEF DriveInv
<1>4. QED BY <1>2, <1>3 DEF DriveComplete

\* When a call is over there is nobody left to reach.
LEMMA DoneMeetsGoal ==
  ASSUME IInv, DriveInv
  PROVE  DriveMeetsGoal
<1>1. SUFFICES ASSUME DriveDone PROVE taskState = goal.taskState /\ readyQ = goal.readyQ
  BY DEF DriveMeetsGoal
<1>2. /\ fuel \in Nat /\ (fuel = 0 \/ readyQ = << >>)
      /\ goal = GoalOf(readyQ, IF running # None THEN 0 ELSE Reach(fuel))
  BY <1>1 DEF DriveDone, DriveInv
<1>3. Reach(fuel) = 0
  <2>1. Len(readyQ) \in Nat /\ Len(<< >>) = 0
    BY LenProperties DEF IInv, TypeOK
  <2>2. QED BY <1>2, <2>1 DEF Reach
<1>4. QED BY <1>2, <1>3, NobodyReached DEF IInv

\* Taking the head out of a queue without duplicates leaves its tail.
LEMMA HeadTakenOut ==
  ASSUME NEW T, NEW q \in Seq(T), NoDup(q), q # << >>, NEW c \in Elems(q), c = Head(q)
  PROVE  Tail(q) = Without(q, {c})
<1>1. /\ Len(q) \in Nat /\ Len(q) >= 1 /\ q[1] = c
      /\ Tail(q) \in Seq(T) /\ Len(Tail(q)) = Len(q) - 1
      /\ \A i \in 1 .. Len(q) - 1 : Tail(q)[i] = q[i + 1]
  BY HeadTailProperties, EmptySeq, LenProperties
<1> DEFINE u == Tail(q)  v == RemoveFirst(q, {c})
<1>2. Without(q, {c}) = v
  BY WithoutOne
<1>3. PICK k \in 1 .. Len(q) :
        /\ q[k] = c
        /\ v \in Seq(T) /\ Len(v) = Len(q) - 1
        /\ \A i \in 1 .. Len(q) - 1 : v[i] = IF i < k THEN q[i] ELSE q[i + 1]
  <2>1. Elems(q) \cap {c} # {}
    OBVIOUS
  <2>2. QED BY <2>1, OneTakenOut
<1> HIDE DEF v
<1>4. k = 1
  BY <1>1, <1>3 DEF NoDup
<1>5. /\ u \in Seq(T) /\ v \in Seq(T) /\ Len(u) = Len(v)
      /\ \A i \in 1 .. Len(u) : u[i] = v[i]
  BY <1>1, <1>3, <1>4
<1> HIDE DEF u
<1>6. u = v
  BY <1>5, SeqEqual
<1>7. QED BY <1>2, <1>6 DEF u, v

-----------------------------------------------------------------------------
(* The native deque and the driver at its owner's end.                     *)

\* The function Cost(q) stands for, cut off after m tasks.
CostBody(q, m, f) ==
  [n \in 0 .. m |-> IF n = 0 THEN 0 ELSE f[n - 1] + q[n].fuel + 1]

\* The recursive definition of the cost has a solution on the first m tasks.
LEMMA CostExists ==
  ASSUME NEW q, NEW m \in Nat
  PROVE  \E f : f = CostBody(q, m, f)
<1> DEFINE Bad == {k \in Nat : ~ \E f : f = CostBody(q, k, f)}
<1>1. SUFFICES ASSUME Bad # {} PROVE FALSE
  OBVIOUS
<1>2. PICK k \in Bad : \A j \in Bad : k <= j
  BY <1>1, LeastNat
<1>3. k # 0
  <2> DEFINE g == [n \in 0 .. 0 |-> 0]
  <2>1. g = CostBody(q, 0, g)
    BY DEF CostBody
  <2>2. QED BY <2>1
<1>4. k - 1 \in Nat /\ ~ (k <= k - 1)
  BY <1>3
<1>5. PICK f : f = CostBody(q, k - 1, f)
  BY <1>2, <1>4
<1> DEFINE g == [n \in 0 .. k |-> IF n = k THEN f[k - 1] + q[k].fuel + 1 ELSE f[n]]
<1>6. ASSUME NEW n \in 0 .. k
      PROVE  g[n] = IF n = 0 THEN 0 ELSE g[n - 1] + q[n].fuel + 1
  <2>1. CASE n = k
    BY <1>3, <2>1
  <2>2. CASE n # k
    <3>1. n \in 0 .. k - 1
      BY <2>2
    <3>2. f[n] = IF n = 0 THEN 0 ELSE f[n - 1] + q[n].fuel + 1
      BY <1>5, <3>1 DEF CostBody
    <3>3. QED BY <3>1, <3>2
  <2>3. QED BY <2>1, <2>2
<1>7. g = CostBody(q, k, g)
  <2>1. g = [n \in 0 .. k |-> g[n]]
    OBVIOUS
  <2>2. QED BY <1>6, <2>1 DEF CostBody
<1>8. QED BY <1>7

\* What a deque holds.
Entry == [task : Nat, fuel : Nat]

\* The cost of one task more is its fuel and one.
LEMMA CostProperties ==
  ASSUME NEW q \in Seq(Entry)
  PROVE  /\ Cost(q)[0] = 0
         /\ \A n \in 1 .. Len(q) : Cost(q)[n] = Cost(q)[n - 1] + q[n].fuel + 1
         /\ \A n \in 0 .. Len(q) : Cost(q)[n] \in Nat
<1>1. Len(q) \in Nat
  BY LenProperties
<1>2. Cost(q) = CHOOSE f : f = CostBody(q, Len(q), f)
  BY Zenon DEF Cost, CostBody
<1>3. PICK f : f = Cost(q)
  OBVIOUS
<1>4. f = CostBody(q, Len(q), f)
  BY <1>1, <1>2, <1>3, CostExists
<1>5. \A n \in 0 .. Len(q) : f[n] = IF n = 0 THEN 0 ELSE f[n - 1] + q[n].fuel + 1
  BY <1>4, Zenon DEF CostBody
<1>6. f[0] = 0 /\ \A n \in 1 .. Len(q) : f[n] = f[n - 1] + q[n].fuel + 1
  <2>1. 0 \in 0 .. Len(q) /\ \A n \in 1 .. Len(q) : n \in 0 .. Len(q) /\ n # 0
    BY <1>1
  <2>2. QED BY <1>5, <2>1
<1> DEFINE Bad == {n \in Nat : n <= Len(q) /\ f[n] \notin Nat}
<1>7. Bad = {}
  <2>1. SUFFICES ASSUME Bad # {} PROVE FALSE
    OBVIOUS
  <2>2. PICK k \in Bad : \A j \in Bad : k <= j
    <3>1. Bad \in SUBSET Nat
      OBVIOUS
    <3>2. QED BY <2>1, <3>1, LeastNat
  <2>3. k # 0
    BY <1>6, <2>2
  <2>4. k - 1 \in Nat /\ k - 1 <= Len(q) /\ ~ (k <= k - 1) /\ k \in 1 .. Len(q)
    BY <1>1, <2>3
  <2>5. f[k - 1] \in Nat
    BY <2>2, <2>4
  <2>6. q[k].fuel \in Nat
    <3>1. q[k] \in Entry
      BY <2>4, ElementOfSeq
    <3>2. QED BY <3>1 DEF Entry
  <2>7. f[k] = f[k - 1] + q[k].fuel + 1
    BY <1>6, <2>4
  <2>8. QED BY <2>5, <2>6, <2>7
<1>8. \A n \in 0 .. Len(q) : f[n] \in Nat
  BY <1>1, <1>7
<1>9. QED BY <1>3, <1>6, <1>8

\* The calls of driveStackB.
Call == [running : BOOLEAN, given : Nat, view : Seq(Entry), budget : Nat,
         stack : Seq(Entry), done : Seq(Nat)]

\* Where a call stands: the first tasks of its view are done, the stack is the
\* rest of it, of which only the first may have spent fuel, and what the tasks
\* done cost, what this one spent and the budget that is left are what was given.
StackInv(c) ==
  LET n == Len(c.done)  l == Len(c.stack) IN
  /\ Len(c.view) = n + l
  /\ \A i \in 1 .. n : c.done[i] = c.view[i].task
  /\ \A i \in 2 .. l : c.stack[i] = c.view[n + i]
  /\ l = 0 => c.given = c.budget + Cost(c.view)[n]
  /\ l # 0 => /\ c.stack[1].task = c.view[n + 1].task
              /\ c.stack[1].fuel <= c.view[n + 1].fuel
              /\ c.given = c.budget + Cost(c.view)[n]
                             + (c.view[n + 1].fuel - c.stack[1].fuel)
  /\ ~ c.running => c.budget = 0 \/ l = 0

\* What a task costs that is not done, and those that are.
LEMMA StackFacts ==
  ASSUME NEW v \in Seq(Entry), NEW s \in Seq(Entry), NEW n \in Nat, NEW l \in Nat,
         Len(v) = n + l, Len(s) = l
  PROVE  /\ Cost(v)[n] \in Nat
         /\ l # 0 => /\ s[1] \in Entry /\ v[n + 1] \in Entry
                     /\ s[1].fuel \in Nat /\ v[n + 1].fuel \in Nat
                     /\ Cost(v)[n + 1] = Cost(v)[n] + v[n + 1].fuel + 1
<1>1. n \in 0 .. Len(v)
  OBVIOUS
<1>2. Cost(v)[n] \in Nat
  BY <1>1, CostProperties
<1>3. ASSUME l # 0
      PROVE  /\ s[1] \in Entry /\ v[n + 1] \in Entry
             /\ s[1].fuel \in Nat /\ v[n + 1].fuel \in Nat
             /\ Cost(v)[n + 1] = Cost(v)[n] + v[n + 1].fuel + 1
  <2>1. n + 1 \in 1 .. Len(v) /\ (n + 1) - 1 = n /\ 1 \in 1 .. Len(s)
    BY <1>3
  <2>2. s[1] \in Entry /\ v[n + 1] \in Entry
    BY <2>1, ElementOfSeq
  <2>3. \A e \in Entry : e.fuel \in Nat
    BY DEF Entry
  <2>4. Cost(v)[n + 1] = Cost(v)[(n + 1) - 1] + v[n + 1].fuel + 1
    BY <2>1, CostProperties
  <2>5. QED BY <2>1, <2>2, <2>3, <2>4
<1>4. QED BY <1>2, <1>3

\* A call that is over has met its goal.
LEMMA OverMeetsGoal ==
  ASSUME NEW c \in Call, StackInv(c), ~ c.running
  PROVE  LET n == Len(c.done) IN
         /\ n <= Len(c.view)
         /\ c.done = [i \in 1 .. n |-> c.view[i].task]
         /\ Cost(c.view)[n] <= c.given
         /\ n < Len(c.view) => Cost(c.view)[n + 1] > c.given
<1>1. PICK n, l, v, s, g, b :
        /\ n = Len(c.done) /\ l = Len(c.stack) /\ v = c.view /\ s = c.stack
        /\ g = c.given /\ b = c.budget
  OBVIOUS
<1>2. /\ v \in Seq(Entry) /\ s \in Seq(Entry) /\ c.done \in Seq(Nat)
      /\ g \in Nat /\ b \in Nat
  BY <1>1 DEF Call
<1>3. n \in Nat /\ l \in Nat
  BY <1>1, <1>2, LenProperties
<1>4. Len(v) = n + l /\ Len(s) = l
  BY <1>1 DEF StackInv
<1>5. /\ Cost(v)[n] \in Nat
      /\ l # 0 => /\ s[1].fuel \in Nat /\ v[n + 1].fuel \in Nat
                  /\ Cost(v)[n + 1] = Cost(v)[n] + v[n + 1].fuel + 1
  BY <1>2, <1>3, <1>4, StackFacts
<1>6. /\ l = 0 => g = b + Cost(v)[n]
      /\ l # 0 => s[1].fuel <= v[n + 1].fuel
      /\ l # 0 => g = b + Cost(v)[n] + (v[n + 1].fuel - s[1].fuel)
      /\ l # 0 => b = 0
  BY <1>1 DEF StackInv
<1>7. Cost(v)[n] <= g /\ (n < n + l => Cost(v)[n + 1] > g)
  <2>1. PICK p, q, e, f : p = Cost(v)[n] /\ q = Cost(v)[n + 1] /\ e = s[1].fuel /\ f = v[n + 1].fuel
    OBVIOUS
  <2>2. /\ b \in Nat /\ g \in Nat /\ p \in Nat /\ (l # 0 => e \in Nat /\ f \in Nat /\ q = p + f + 1)
        /\ (l = 0 => g = b + p) /\ (l # 0 => e <= f /\ b = 0 /\ g = b + p + (f - e))
    BY <1>2, <1>5, <1>6, <2>1
  <2>3. p <= g /\ (n < n + l => q > g)
    BY ONLY <1>3, <2>2
  <2>4. QED BY <2>1, <2>3
<1>8. c.done = [i \in 1 .. n |-> v[i].task]
  <2>1. c.done = [i \in 1 .. n |-> c.done[i]]
    BY <1>1, <1>2, LenProperties
  <2>2. \A i \in 1 .. n : c.done[i] = v[i].task
    BY <1>1 DEF StackInv
  <2>3. QED BY <2>1, <2>2
<1>9. QED BY <1>1, <1>3, <1>4, <1>7, <1>8

\* The first task has no fuel left and completes.
LEMMA CompleteFirstKeeps ==
  ASSUME NEW c \in Call, StackInv(c), c.running, c.budget # 0, c.stack # << >>,
         c.stack[1].fuel = 0, NEW d,
         d = [running |-> TRUE, given |-> c.given, view |-> c.view,
              budget |-> c.budget - 1, stack |-> Tail(c.stack),
              done |-> Append(c.done, c.stack[1].task)]
  PROVE  d \in Call /\ StackInv(d)
<1>1. PICK n, l, v, s, g, b :
        /\ n = Len(c.done) /\ l = Len(c.stack) /\ v = c.view /\ s = c.stack
        /\ g = c.given /\ b = c.budget
  OBVIOUS
<1>2. /\ v \in Seq(Entry) /\ s \in Seq(Entry) /\ c.done \in Seq(Nat)
      /\ g \in Nat /\ b \in Nat /\ b # 0 /\ s # << >>
  BY <1>1 DEF Call
<1>3. n \in Nat /\ l \in Nat /\ l # 0
  BY <1>1, <1>2, LenProperties, EmptySeq
<1>4. Len(v) = n + l /\ Len(s) = l
  BY <1>1 DEF StackInv
<1>5. /\ Cost(v)[n] \in Nat
      /\ s[1] \in Entry /\ v[n + 1].fuel \in Nat
      /\ Cost(v)[n + 1] = Cost(v)[n] + v[n + 1].fuel + 1
  <2>1. /\ Cost(v)[n] \in Nat
        /\ l # 0 => /\ s[1] \in Entry /\ v[n + 1] \in Entry
                    /\ s[1].fuel \in Nat /\ v[n + 1].fuel \in Nat
                    /\ Cost(v)[n + 1] = Cost(v)[n] + v[n + 1].fuel + 1
    BY ONLY <1>2, <1>3, <1>4, StackFacts
  <2>2. QED BY ONLY <1>3, <2>1
<1>6. /\ s[1].task = v[n + 1].task /\ s[1].fuel = 0
      /\ g = b + Cost(v)[n] + (v[n + 1].fuel - s[1].fuel)
      /\ \A i \in 1 .. n : c.done[i] = v[i].task
      /\ \A i \in 2 .. l : s[i] = v[n + i]
  BY <1>1, <1>3 DEF StackInv
<1>7. PICK done, r : done = Append(c.done, s[1].task) /\ r = Tail(s)
  OBVIOUS
<1>8. /\ done \in Seq(Nat) /\ Len(done) = n + 1 /\ done[n + 1] = s[1].task
      /\ \A i \in 1 .. n : done[i] = c.done[i]
  <2>1. s[1].task \in Nat
    BY <1>5 DEF Entry
  <2>2. QED BY <1>1, <1>2, <1>7, <2>1, AppendProperties
<1>9. /\ r \in Seq(Entry) /\ Len(r) = l - 1
      /\ \A i \in 1 .. l - 1 : r[i] = s[i + 1]
  BY <1>2, <1>4, <1>7, HeadTailProperties
<1>10. /\ d.running /\ d.given = g /\ d.view = v /\ d.budget = b - 1
       /\ d.stack = r /\ d.done = done
  BY <1>1, <1>7 DEF Call
<1>11. d \in Call
  <2>1. b - 1 \in Nat
    BY <1>2
  <2>2. d = [running |-> TRUE, given |-> g, view |-> v,
         budget |-> b - 1, stack |-> r, done |-> done]
    BY <1>1, <1>7 DEF Call
  <2>3. v \in Seq(Entry) /\ r \in Seq(Entry) /\ done \in Seq(Nat) /\ g \in Nat
    BY <1>2, <1>8, <1>9
  <2>4. QED BY ONLY <2>1, <2>2, <2>3 DEF Call
<1>12. \A i \in 1 .. n + 1 : done[i] = v[i].task
  BY <1>3, <1>6, <1>8
<1>13. \A i \in 2 .. l - 1 : r[i] = v[n + 1 + i]
  <2>1. ASSUME NEW i \in 2 .. l - 1 PROVE r[i] = v[n + 1 + i]
    <3>1. i \in 1 .. l - 1 /\ i + 1 \in 2 .. l /\ n + (i + 1) = n + 1 + i
      BY <1>3
    <3>2. QED BY <1>6, <1>9, <3>1
  <2>2. QED BY <2>1
<1>14. g = (b - 1) + Cost(v)[n + 1]
  BY ONLY <1>2, <1>5, <1>6
<1>15. ASSUME l - 1 # 0
       PROVE  r[1] = v[n + 1 + 1] /\ v[n + 1 + 1].fuel \in Nat
  <2>1. 1 \in 1 .. l - 1 /\ 2 \in 2 .. l /\ 1 + 1 = 2 /\ n + 2 = n + 1 + 1
        /\ n + 2 \in 1 .. Len(v)
    BY <1>3, <1>4, <1>15
  <2>2. v[n + 2] \in Entry
    BY <1>2, <2>1, ElementOfSeq
  <2>3. r[1] = s[1 + 1] /\ s[2] = v[n + 2]
    BY <1>6, <1>9, <2>1
  <2>4. v[n + 2].fuel \in Nat
    BY <2>2 DEF Entry
  <2>5. QED BY <2>1, <2>3, <2>4
<1>16. l - 1 # 0 => g = (b - 1) + Cost(v)[n + 1] + (v[n + 1 + 1].fuel - r[1].fuel)
  BY ONLY SMTT(30), <1>2, <1>5, <1>14, <1>15
<1>17. Len(v) = (n + 1) + (l - 1)
  BY <1>3, <1>4
<1>18. StackInv(d)
  <2>1. Len(d.done) = n + 1 /\ Len(d.stack) = l - 1
    BY <1>8, <1>9, <1>10
  <2>2. r[1] = v[n + 1 + 1] => r[1].task = v[n + 1 + 1].task
    OBVIOUS
  <2>3. l - 1 # 0 => r[1].fuel <= v[n + 1 + 1].fuel
    BY <1>15
  <2>4. d.running
    BY <1>10
  <2>5. QED BY ONLY <1>10, <1>12, <1>13, <1>14, <1>15, <1>16, <1>17, <2>1, <2>2, <2>3, <2>4
            DEF StackInv
<1>19. QED BY <1>11, <1>18

\* Putting a task in front of the others.
LEMMA PutInFront ==
  ASSUME NEW T, NEW x \in T, NEW t \in Seq(T)
  PROVE  /\ << x >> \o t \in Seq(T) /\ Len(<< x >> \o t) = Len(t) + 1
         /\ (<< x >> \o t)[1] = x
         /\ \A i \in 1 .. Len(t) : (<< x >> \o t)[i + 1] = t[i]
<1>1. << x >> \in Seq(T) /\ Len(<< x >>) = 1 /\ << x >>[1] = x /\ Len(t) \in Nat
  BY LenProperties
<1>2. QED BY <1>1, ConcatProperties

\* The first task runs for one unit of its fuel and stays the first.
LEMMA RunFirstKeeps ==
  ASSUME NEW c \in Call, StackInv(c), c.running, c.budget # 0, c.stack # << >>,
         c.stack[1].fuel > 0, NEW d,
         NEW e \in Entry, e.task = c.stack[1].task, e.fuel = c.stack[1].fuel - 1,
         d = [running |-> TRUE, given |-> c.given, view |-> c.view,
              budget |-> c.budget - 1, stack |-> << e >> \o Tail(c.stack), done |-> c.done]
  PROVE  d \in Call /\ StackInv(d)
<1>1. PICK n, l, v, s, g, b :
        /\ n = Len(c.done) /\ l = Len(c.stack) /\ v = c.view /\ s = c.stack
        /\ g = c.given /\ b = c.budget
  OBVIOUS
<1>2. /\ v \in Seq(Entry) /\ s \in Seq(Entry) /\ c.done \in Seq(Nat)
      /\ g \in Nat /\ b \in Nat /\ b # 0 /\ s # << >>
  BY <1>1 DEF Call
<1>3. n \in Nat /\ l \in Nat /\ l # 0
  BY <1>1, <1>2, LenProperties, EmptySeq
<1>4. Len(v) = n + l /\ Len(s) = l
  BY <1>1 DEF StackInv
<1>5. Cost(v)[n] \in Nat /\ s[1] \in Entry /\ v[n + 1].fuel \in Nat
  <2>1. /\ Cost(v)[n] \in Nat
        /\ l # 0 => /\ s[1] \in Entry /\ v[n + 1] \in Entry
                    /\ s[1].fuel \in Nat /\ v[n + 1].fuel \in Nat
                    /\ Cost(v)[n + 1] = Cost(v)[n] + v[n + 1].fuel + 1
    BY ONLY <1>2, <1>3, <1>4, StackFacts
  <2>2. QED BY ONLY <1>3, <2>1
<1>6. /\ s[1].task = v[n + 1].task /\ s[1].fuel <= v[n + 1].fuel
      /\ g = b + Cost(v)[n] + (v[n + 1].fuel - s[1].fuel)
      /\ \A i \in 1 .. n : c.done[i] = v[i].task
      /\ \A i \in 2 .. l : s[i] = v[n + i]
  BY <1>1, <1>3 DEF StackInv
<1>7. e \in Entry /\ e.task = s[1].task /\ e.fuel = s[1].fuel - 1
  BY <1>1
<1>8. PICK r : r = << e >> \o Tail(s)
  OBVIOUS
<1>9. r \in Seq(Entry) /\ Len(r) = l /\ r[1] = e /\ \A i \in 2 .. l : r[i] = s[i]
  <2>1. /\ Tail(s) \in Seq(Entry) /\ Len(Tail(s)) = l - 1
        /\ \A i \in 1 .. l - 1 : Tail(s)[i] = s[i + 1]
    BY <1>2, <1>4, HeadTailProperties
  <2>2. /\ r \in Seq(Entry) /\ Len(r) = Len(Tail(s)) + 1 /\ r[1] = e
        /\ \A i \in 1 .. Len(Tail(s)) : r[i + 1] = Tail(s)[i]
    BY <1>7, <1>8, <2>1, PutInFront
  <2>3. ASSUME NEW i \in 2 .. l PROVE r[i] = s[i]
    <3>1. i - 1 \in 1 .. l - 1 /\ (i - 1) + 1 = i
      BY <1>3
    <3>2. r[(i - 1) + 1] = Tail(s)[i - 1] /\ Tail(s)[i - 1] = s[(i - 1) + 1]
      BY <2>1, <2>2, <3>1
    <3>3. QED BY <3>1, <3>2
  <2>4. QED BY <1>3, <2>1, <2>2, <2>3
<1>10. /\ d.running /\ d.given = g /\ d.view = v /\ d.budget = b - 1
       /\ d.stack = r /\ d.done = c.done
  BY <1>1, <1>8 DEF Call
<1>11. d \in Call
  <2>1. b - 1 \in Nat
    BY <1>2
  <2>2. d = [running |-> TRUE, given |-> g, view |-> v,
         budget |-> b - 1, stack |-> r, done |-> c.done]
    BY <1>1, <1>8 DEF Call
  <2>3. v \in Seq(Entry) /\ r \in Seq(Entry) /\ c.done \in Seq(Nat) /\ g \in Nat
    BY <1>2, <1>9
  <2>4. QED BY ONLY <2>1, <2>2, <2>3 DEF Call
<1>12. g = (b - 1) + Cost(v)[n] + (v[n + 1].fuel - e.fuel) /\ e.fuel <= v[n + 1].fuel
  <2>1. PICK p, x, y : p = Cost(v)[n] /\ x = s[1].fuel /\ y = v[n + 1].fuel
    OBVIOUS
  <2>2. /\ p \in Nat /\ x \in Nat /\ y \in Nat /\ b \in Nat
        /\ x <= y /\ g = b + p + (y - x) /\ e.fuel = x - 1
    BY <1>2, <1>5, <1>6, <1>7, <2>1 DEF Entry
  <2>3. g = (b - 1) + p + (y - e.fuel) /\ e.fuel <= y
    BY ONLY <2>2
  <2>4. QED BY <2>1, <2>3
<1>13. StackInv(d)
  <2>1. Len(d.done) = n /\ Len(d.stack) = l
    BY <1>1, <1>9, <1>10
  <2>2. \A i \in 2 .. l : r[i] = v[n + i]
    BY <1>6, <1>9
  <2>3. \A i \in 1 .. n : c.done[i] = v[i].task
    BY <1>6
  <2>4. r[1].task = v[n + 1].task /\ r[1].fuel = e.fuel /\ d.running /\ l # 0
    BY <1>3, <1>6, <1>7, <1>9, <1>10
  <2>5. QED BY ONLY <1>4, <1>10, <1>12, <2>1, <2>2, <2>3, <2>4 DEF StackInv
<1>14. QED BY <1>11, <1>13

\* The types of the native scheduler.
NativeTypeOK ==
  /\ deque \in Seq(Entry)
  /\ pushed \in Nat
  /\ stolen \in Seq(Nat)
  /\ popped \in Seq(Nat)
  /\ call \in Call

\* Nobody is pushed twice: the deque is in order of the pushes.
InPushOrder ==
  \A i, j \in 1 .. Len(deque) : i < j => deque[i].task < deque[j].task

\* The inductive invariant of the native scheduler.
NativeInv == NativeTypeOK /\ DequeSharesTasks /\ InPushOrder /\ StackInv(call)

\* An empty deque and no call.
LEMMA NativeStart == NativeInit => NativeInv
<1> SUFFICES ASSUME NativeInit PROVE NativeInv
  OBVIOUS
<1>1. << >> \in Seq(Entry) /\ << >> \in Seq(Nat) /\ Len(<< >>) = 0
  BY EmptySeq
<1>2. NativeTypeOK
  BY <1>1 DEF NativeInit, NativeTypeOK, NoCall, Call
<1>3. DequeSharesTasks
  BY <1>1 DEF NativeInit, DequeSharesTasks, Elems
<1>4. InPushOrder
  BY <1>1 DEF NativeInit, InPushOrder
<1>5. Cost(<< >>)[0] = 0
  BY <1>1, CostProperties
<1>6. StackInv(call)
  BY <1>1, <1>5 DEF NativeInit, NoCall, StackInv
<1>7. QED BY <1>2, <1>3, <1>4, <1>6 DEF NativeInv

\* The steps of a call.
LEMMA CallKeeps ==
  ASSUME NativeInv, \/ \E budget \in 0 .. MaxBudget : CallStack(budget)
                    \/ CompleteFirst \/ RunFirst \/ ReturnStack
  PROVE  call' \in Call /\ StackInv(call') /\ UNCHANGED dequeVars
<1> USE DEF NativeInv, NativeTypeOK
<1>0. UNCHANGED dequeVars
  BY DEF CallStack, CompleteFirst, RunFirst, ReturnStack
<1> SUFFICES call' \in Call /\ StackInv(call')
  BY <1>0
<1>1. ASSUME NEW budget \in 0 .. MaxBudget, CallStack(budget)
      PROVE  call' \in Call /\ StackInv(call')
  <2>1. PICK v : v = OwnersView
    OBVIOUS
  <2>2. /\ Len(deque) \in Nat /\ \A i \in 1 .. Len(deque) : deque[i] \in Entry
        /\ budget \in Nat
    BY LenProperties, ElementOfSeq, NativeAssumption
  <2>3. v \in Seq(Entry)
    <3>1. \A i \in 1 .. Len(deque) : Len(deque) + 1 - i \in 1 .. Len(deque)
      BY <2>2
    <3>2. v \in [1 .. Len(deque) -> Entry]
      BY <2>1, <2>2, <3>1 DEF OwnersView
    <3>3. PICK k \in Nat : k = Len(deque)
      BY <2>2
    <3>4. \E m \in Nat : v \in [1 .. m -> Entry]
      BY <3>2, <3>3
    <3>5. QED BY <3>4, SeqDef
  <2>4. call' = [running |-> TRUE, given |-> budget, view |-> v, budget |-> budget,
                 stack |-> v, done |-> << >>]
    BY <1>1, <2>1 DEF CallStack
  <2>5. << >> \in Seq(Nat) /\ Len(<< >>) = 0 /\ Len(v) \in Nat
    BY <2>3, EmptySeq, LenProperties
  <2>6. call' \in Call
    BY <2>2, <2>3, <2>4, <2>5 DEF Call
  <2>7. Cost(v)[0] = 0
    BY <2>3, CostProperties
  <2>8. Len(v) # 0 => v[1].fuel \in Nat
    <3>1. Len(v) # 0 => v[1] \in Entry
      BY <2>3, <2>5, ElementOfSeq
    <3>2. QED BY <3>1 DEF Entry
  <2>9. StackInv(call')
    BY ONLY <2>2, <2>4, <2>5, <2>7, <2>8 DEF StackInv
  <2>10. QED BY <2>6, <2>9
<1>2. CASE CompleteFirst \/ RunFirst
  <2>1. PICK c, d : c = call /\ d = call'
    OBVIOUS
  <2>2. /\ c \in Call /\ StackInv(c) /\ c.running /\ c.budget # 0 /\ c.stack # << >>
    BY <1>2, <2>1 DEF CompleteFirst, RunFirst, Over
  <2>3. Head(c.stack) = c.stack[1]
    BY <2>2 DEF Call
  <2>4. CASE CompleteFirst
    <3>1. /\ c.stack[1].fuel = 0
          /\ d = [running |-> TRUE, given |-> c.given, view |-> c.view,
                  budget |-> c.budget - 1, stack |-> Tail(c.stack),
                  done |-> Append(c.done, c.stack[1].task)]
      <4>1. /\ Head(call.stack).fuel = 0
            /\ call' = [call EXCEPT !.budget = @ - 1, !.stack = Tail(@),
                                    !.done = Append(@, Head(call.stack).task)]
        BY <2>4 DEF CompleteFirst
      <4>2. /\ Head(c.stack).fuel = 0
            /\ d = [c EXCEPT !.budget = @ - 1, !.stack = Tail(@),
                             !.done = Append(@, Head(c.stack).task)]
        BY <2>1, <4>1
      <4>3. c \in Call /\ c.running
        BY <2>2
      <4>4. QED BY ONLY <2>3, <4>2, <4>3 DEF Call
    <3>2. d \in Call /\ StackInv(d)
      BY ONLY <2>2, <3>1, CompleteFirstKeeps
    <3>3. QED BY <2>1, <3>2
  <2>5. CASE RunFirst
    <3>1. PICK e \in Entry : /\ e = [c.stack[1] EXCEPT !.fuel = @ - 1]
                             /\ e.task = c.stack[1].task /\ e.fuel = c.stack[1].fuel - 1
      <4>1. Head(call.stack).fuel > 0
        BY <2>5 DEF RunFirst
      <4>2. c.stack[1].fuel > 0
        BY <2>1, <2>3, <4>1
      <4>3. c.stack[1] \in Entry
        BY <2>2, HeadTailProperties, <2>3 DEF Call
      <4>4. PICK x : x = c.stack[1]
        OBVIOUS
      <4>5. x = [task |-> x.task, fuel |-> x.fuel] /\ x.task \in Nat /\ x.fuel - 1 \in Nat
        BY ONLY <4>2, <4>3, <4>4 DEF Entry
      <4>6. PICK e : e = [task |-> x.task, fuel |-> x.fuel - 1]
        OBVIOUS
      <4>7. e \in Entry /\ e = [x EXCEPT !.fuel = @ - 1]
            /\ e.task = x.task /\ e.fuel = x.fuel - 1
        BY ONLY <4>5, <4>6 DEF Entry
      <4>8. QED BY <4>4, <4>7
    <3>2. /\ c.stack[1].fuel > 0
          /\ d = [running |-> TRUE, given |-> c.given, view |-> c.view,
                  budget |-> c.budget - 1, stack |-> << e >> \o Tail(c.stack),
                  done |-> c.done]
      <4>1. /\ Head(call.stack).fuel > 0
            /\ call' = [call EXCEPT !.budget = @ - 1,
                                    !.stack = << [Head(call.stack) EXCEPT !.fuel = @ - 1] >>
                                                \o Tail(@)]
        BY <2>5 DEF RunFirst, Spent
      <4>2. /\ Head(c.stack).fuel > 0
            /\ d = [c EXCEPT !.budget = @ - 1,
                             !.stack = << [Head(c.stack) EXCEPT !.fuel = @ - 1] >> \o Tail(@)]
        BY <2>1, <4>1
      <4>3. c \in Call /\ c.running
        BY <2>2
      <4>4. QED BY ONLY <2>3, <3>1, <4>2, <4>3 DEF Call
    <3>3. d \in Call /\ StackInv(d)
      BY ONLY <2>2, <3>1, <3>2, RunFirstKeeps
    <3>4. QED BY <2>1, <3>3
  <2>6. QED BY <1>2, <2>4, <2>5
<1>3. CASE ReturnStack
  <2>1. PICK c, d : c = call /\ d = call'
    OBVIOUS
  <2>2. /\ c \in Call /\ StackInv(c) /\ d = [c EXCEPT !.running = FALSE]
        /\ c.budget = 0 \/ c.stack = << >>
    BY <1>3, <2>1 DEF ReturnStack, Over
  <2>3. d \in Call
    BY <2>2 DEF Call
  <2>4. StackInv(d)
    <3>1. /\ d.given = c.given /\ d.view = c.view /\ d.budget = c.budget
          /\ d.stack = c.stack /\ d.done = c.done
      BY <2>2 DEF Call
    <3>2. Len(c.stack) = 0 \/ c.budget = 0
      BY <2>2, EmptySeq
    <3>3. StackInv(c)
      BY <2>2
    <3>4. ~ d.running => d.budget = 0 \/ Len(d.stack) = 0
      BY <3>1, <3>2
    <3>5. QED BY ONLY <3>1, <3>3, <3>4, Zenon DEF StackInv
  <2>5. QED BY <2>1, <2>3, <2>4
<1>4. QED BY <1>1, <1>2, <1>3

\* The promises about the deque, for any deque and any record of what was got.
Shares(q, s, p, n) ==
  LET left == {e.task : e \in Elems(q)} IN
  /\ Len(s) + Len(p) + Len(q) = n
  /\ Elems(s) \cup Elems(p) \cup left = 1 .. n
  /\ \A i \in Elems(s), t \in left : i < t

\* The deque is in order of the pushes.
Ordered(q) == \A i, j \in 1 .. Len(q) : i < j => q[i].task < q[j].task

\* A push.
LEMMA PushShares ==
  ASSUME NEW q \in Seq(Entry), NEW s \in Seq(Nat), NEW p \in Seq(Nat), NEW n \in Nat,
         Shares(q, s, p, n), Ordered(q), NEW e \in Entry, e.task = n + 1
  PROVE  /\ Shares(Append(q, e), s, p, n + 1)
         /\ Ordered(Append(q, e))
<1>1. PICK r : r = Append(q, e)
  OBVIOUS
<1>2. /\ Len(q) \in Nat /\ Len(s) \in Nat /\ Len(p) \in Nat /\ Len(r) = Len(q) + 1
      /\ \A i \in 1 .. Len(q) : r[i] = q[i]
      /\ r[Len(q) + 1] = e
  BY <1>1, AppendProperties, LenProperties
<1>3. Elems(r) = Elems(q) \cup {e}
  BY <1>1, AppendList
<1>4. {x.task : x \in Elems(r)} = {x.task : x \in Elems(q)} \cup {n + 1}
  BY <1>3
<1>5. /\ \A i \in Elems(s) : i \in 1 .. n
      /\ \A x \in Elems(q) : x.task \in 1 .. n
  BY DEF Shares
<1>6. \A i \in 1 .. Len(q) : q[i].task \in 1 .. n
  BY <1>5 DEF Elems
<1>7. 1 .. n + 1 = (1 .. n) \cup {n + 1}
  OBVIOUS
<1>8. Shares(r, s, p, n + 1)
  <2>1. PICK A, B, L, M : /\ A = Elems(s) /\ B = Elems(p)
                          /\ L = {x.task : x \in Elems(q)} /\ M = {x.task : x \in Elems(r)}
    OBVIOUS
  <2>2. /\ Len(s) + Len(p) + Len(q) = n /\ A \cup B \cup L = 1 .. n
        /\ \A i \in A, t \in L : i < t
    BY <2>1 DEF Shares
  <2>3. A \cup B \cup M = 1 .. n + 1
    BY <1>4, <1>7, <2>1, <2>2
  <2>4. \A i \in A, t \in M : i < t
    <3>1. \A i \in A : i < n + 1
      BY <2>2
    <3>2. QED BY <1>4, <2>1, <2>2, <3>1
  <2>5. Len(s) + Len(p) + Len(r) = n + 1
    <3>1. PICK a \in Nat, b \in Nat, k \in Nat : a = Len(s) /\ b = Len(p) /\ k = Len(q)
      BY <1>2
    <3>2. /\ a \in Nat /\ b \in Nat /\ k \in Nat /\ n \in Nat
          /\ a + b + k = n /\ Len(r) = k + 1
      BY <1>2, <2>2, <3>1
    <3>3. a + b + (k + 1) = n + 1
      BY ONLY <3>2
    <3>4. QED BY <3>1, <3>2, <3>3
  <2>6. QED BY <2>1, <2>3, <2>4, <2>5 DEF Shares
<1>9. Ordered(r)
  <2>1. ASSUME NEW i \in 1 .. Len(r), NEW j \in 1 .. Len(r), i < j
        PROVE  r[i].task < r[j].task
    <3>1. i \in 1 .. Len(q) /\ (j \in 1 .. Len(q) \/ j = Len(q) + 1)
      <4>1. PICK k \in Nat : k = Len(q) /\ Len(r) = k + 1
        BY <1>2
      <4>2. i \in 1 .. k + 1 /\ j \in 1 .. k + 1
        BY <4>1
      <4>3. i \in 1 .. k /\ (j \in 1 .. k \/ j = k + 1)
        BY <2>1, <4>2
      <4>4. QED BY <4>1, <4>3
    <3>2. r[i] = q[i] /\ q[i].task \in 1 .. n
      BY <1>2, <1>6, <3>1
    <3>3. CASE j \in 1 .. Len(q)
      BY <1>2, <2>1, <3>1, <3>2, <3>3 DEF Ordered
    <3>4. CASE j = Len(q) + 1
      <4>1. r[j].task = n + 1
        BY <1>2, <3>4
      <4>2. QED BY <3>2, <4>1
    <3>5. QED BY <3>1, <3>3, <3>4
  <2>2. QED BY <2>1 DEF Ordered
<1>10. QED BY <1>1, <1>8, <1>9

\* A steal: the thief gets the task that was pushed before all that are left.
LEMMA StealShares ==
  ASSUME NEW q \in Seq(Entry), NEW s \in Seq(Nat), NEW p \in Seq(Nat), NEW n \in Nat,
         Shares(q, s, p, n), Ordered(q), q # << >>
  PROVE  /\ Shares(Tail(q), Append(s, Head(q).task), p, n)
         /\ Ordered(Tail(q)) /\ Head(q).task \in Nat
<1>1. PICK r, h, u : r = Tail(q) /\ h = Head(q) /\ u = Append(s, h.task)
  OBVIOUS
<1>2. /\ Len(q) \in Nat /\ Len(s) \in Nat /\ Len(p) \in Nat /\ Len(q) >= 1
      /\ Len(r) = Len(q) - 1 /\ h = q[1] /\ h \in Entry
      /\ \A i \in 1 .. Len(q) - 1 : r[i] = q[i + 1]
  BY <1>1, HeadTailProperties, LenProperties, EmptySeq
<1>3. h.task \in Nat
  BY <1>2 DEF Entry
<1>4. Len(u) = Len(s) + 1 /\ Elems(u) = Elems(s) \cup {h.task}
  BY SMTT(30), <1>1, <1>3, AppendProperties, AppendList
<1>5. Elems(q) = Elems(r) \cup {h}
  <2>1. \A i \in 1 .. Len(q) : i = 1 \/ (i - 1 \in 1 .. Len(r) /\ (i - 1) + 1 = i)
    BY <1>2
  <2>2. \A i \in 1 .. Len(r) : i + 1 \in 1 .. Len(q)
    BY <1>2
  <2>3. Elems(q) \subseteq Elems(r) \cup {h}
    <3>1. ASSUME NEW i \in 1 .. Len(q), i # 1 PROVE q[i] \in Elems(r)
      <4>1. i - 1 \in 1 .. Len(r) /\ r[i - 1] = q[i]
        BY <1>2, <2>1, <3>1
      <4>2. QED BY <4>1 DEF Elems
    <3>2. QED BY <1>2, <3>1 DEF Elems
  <2>4. Elems(r) \cup {h} \subseteq Elems(q)
    BY <1>2, <2>2 DEF Elems
  <2>5. QED BY <2>3, <2>4
<1>6. \A x \in Elems(r) : h.task < x.task
  <2>1. ASSUME NEW i \in 1 .. Len(r) PROVE h.task < r[i].task
    <3>1. 1 \in 1 .. Len(q) /\ i + 1 \in 1 .. Len(q) /\ 1 < i + 1 /\ r[i] = q[i + 1]
      BY <1>2
    <3>2. QED BY <1>2, <3>1 DEF Ordered
  <2>2. QED BY <2>1 DEF Elems
<1>7. {x.task : x \in Elems(q)} = {x.task : x \in Elems(r)} \cup {h.task}
  BY <1>5
<1>8. Shares(r, u, p, n)
  <2>1. PICK A, B, L, M : /\ A = Elems(s) /\ B = Elems(p)
                          /\ L = {x.task : x \in Elems(q)} /\ M = {x.task : x \in Elems(r)}
    OBVIOUS
  <2>2. /\ Len(s) + Len(p) + Len(q) = n /\ A \cup B \cup L = 1 .. n
        /\ \A i \in A, t \in L : i < t
    BY <2>1 DEF Shares
  <2>3. Elems(u) \cup B \cup M = 1 .. n
    BY <1>4, <1>7, <2>1, <2>2
  <2>4. \A i \in Elems(u), t \in M : i < t
    <3>1. \A t \in M : h.task < t
      BY <1>6, <2>1
    <3>2. QED BY <1>4, <1>7, <2>1, <2>2, <3>1
  <2>5. Len(u) + Len(p) + Len(r) = n
    BY <1>2, <1>4, <2>2
  <2>6. QED BY <2>1, <2>3, <2>4, <2>5 DEF Shares
<1>9. Ordered(r)
  <2>1. ASSUME NEW i \in 1 .. Len(r), NEW j \in 1 .. Len(r), i < j
        PROVE  r[i].task < r[j].task
    <3>1. i + 1 \in 1 .. Len(q) /\ j + 1 \in 1 .. Len(q) /\ i + 1 < j + 1
          /\ r[i] = q[i + 1] /\ r[j] = q[j + 1]
      BY <1>2, <2>1
    <3>2. QED BY <3>1 DEF Ordered
  <2>2. QED BY <2>1 DEF Ordered
<1>10. QED BY <1>1, <1>3, <1>8, <1>9

\* A pop: the owner gets the latest.
LEMMA PopShares ==
  ASSUME NEW q \in Seq(Entry), NEW s \in Seq(Nat), NEW p \in Seq(Nat), NEW n \in Nat,
         Shares(q, s, p, n), Ordered(q), q # << >>
  PROVE  LET r == SubSeq(q, 1, Len(q) - 1) IN
         /\ Shares(r, s, Append(p, q[Len(q)].task), n)
         /\ Ordered(r) /\ q[Len(q)].task \in Nat /\ r \in Seq(Entry)
<1>1. PICK k : k = Len(q)
  OBVIOUS
<1>2. PICK r, h, u : r = SubSeq(q, 1, k - 1) /\ h = q[k] /\ u = Append(p, h.task)
  OBVIOUS
<1>3. /\ k \in Nat /\ k >= 1 /\ Len(s) \in Nat /\ Len(p) \in Nat /\ h \in Entry
      /\ \A i \in 1 .. k : q[i] \in Entry
  <2>1. k \in Nat /\ k >= 1 /\ \A i \in 1 .. k : q[i] \in Entry
    BY <1>1, LenProperties, EmptySeq, ElementOfSeq
  <2>2. QED BY <1>2, <2>1, LenProperties
<1>4. /\ r \in Seq(Entry) /\ Len(r) = k - 1
      /\ \A i \in 1 .. k - 1 : r[i] = q[i]
  <2>1. /\ k - 1 \in Int /\ 1 \in Int /\ \A i \in 1 .. k - 1 : q[i] \in Entry
        /\ (k - 1) - 1 + 1 = k - 1 /\ \A i \in 1 .. k - 1 : 1 + i - 1 = i
    BY <1>3
  <2>2. /\ r \in Seq(Entry) /\ Len(r) = IF 1 <= k - 1 THEN (k - 1) - 1 + 1 ELSE 0
        /\ \A i \in 1 .. (k - 1) - 1 + 1 : r[i] = q[1 + i - 1]
    BY <1>2, <2>1, SubSeqProperties
  <2>3. QED BY <1>3, <2>1, <2>2
<1>5. h.task \in Nat
  BY <1>3 DEF Entry
<1>6. Len(u) = Len(p) + 1 /\ Elems(u) = Elems(p) \cup {h.task}
  <2>1. PICK x \in Nat : x = h.task
    BY <1>5
  <2>2. Len(Append(p, x)) = Len(p) + 1 /\ Elems(Append(p, x)) = Elems(p) \cup {x}
    BY AppendProperties, AppendList
  <2>3. QED BY <1>2, <2>1, <2>2
<1>7. Elems(q) = Elems(r) \cup {h}
  <2>1. \A i \in 1 .. k : i = k \/ i \in 1 .. k - 1
    BY <1>3
  <2>2. k \in 1 .. k /\ \A i \in 1 .. k - 1 : i \in 1 .. k
    BY <1>3
  <2>3. QED BY <1>1, <1>2, <1>4, <2>1, <2>2 DEF Elems
<1>8. {x.task : x \in Elems(q)} = {x.task : x \in Elems(r)} \cup {h.task}
  BY <1>7
<1>9. Shares(r, s, u, n)
  <2>1. PICK A, B, L, M : /\ A = Elems(s) /\ B = Elems(p)
                          /\ L = {x.task : x \in Elems(q)} /\ M = {x.task : x \in Elems(r)}
    OBVIOUS
  <2>2. /\ Len(s) + Len(p) + Len(q) = n /\ A \cup B \cup L = 1 .. n
        /\ \A i \in A, t \in L : i < t
    BY <2>1 DEF Shares
  <2>3. A \cup Elems(u) \cup M = 1 .. n
    BY <1>6, <1>8, <2>1, <2>2
  <2>4. \A i \in A, t \in M : i < t
    BY <1>8, <2>1, <2>2
  <2>5. Len(s) + Len(u) + Len(r) = n
    <3>1. PICK a \in Nat, b \in Nat : a = Len(s) /\ b = Len(p)
      BY <1>3
    <3>2. /\ a \in Nat /\ b \in Nat /\ k \in Nat /\ n \in Nat
          /\ a + b + k = n /\ Len(u) = b + 1 /\ Len(r) = k - 1
      BY <1>1, <1>3, <1>4, <1>6, <2>2, <3>1
    <3>3. a + (b + 1) + (k - 1) = n
      BY ONLY <3>2
    <3>4. QED BY <3>1, <3>2, <3>3
  <2>6. QED BY <2>1, <2>3, <2>4, <2>5 DEF Shares
<1>10. Ordered(r)
  <2>1. \A i \in 1 .. k - 1 : i \in 1 .. k
    BY <1>3
  <2>2. QED BY <1>1, <1>4, <2>1 DEF Ordered
<1>11. QED BY <1>1, <1>2, <1>4, <1>5, <1>9, <1>10

\* Each step of the native scheduler.
LEMMA NativeKeeps ==
  ASSUME NativeInv, [NativeNext]_nativeVars
  PROVE  NativeInv'
<1>1. /\ deque \in Seq(Entry) /\ pushed \in Nat /\ stolen \in Seq(Nat) /\ popped \in Seq(Nat)
      /\ Shares(deque, stolen, popped, pushed) /\ Ordered(deque)
      /\ call \in Call /\ StackInv(call)
  BY DEF NativeInv, NativeTypeOK, DequeSharesTasks, Shares, InPushOrder, Ordered
<1> DEFINE Goal ==
  /\ deque' \in Seq(Entry) /\ pushed' \in Nat /\ stolen' \in Seq(Nat) /\ popped' \in Seq(Nat)
  /\ Shares(deque', stolen', popped', pushed') /\ Ordered(deque')
  /\ call' \in Call /\ StackInv(call')
<1>2. SUFFICES Goal
  BY DEF NativeInv, NativeTypeOK, DequeSharesTasks, Shares, InPushOrder, Ordered, StackInv
<1>3. ASSUME NEW given \in TaskFuel, PushBottom(given) PROVE Goal
  <2>1. PICK e : e = [task |-> pushed + 1, fuel |-> given]
    OBVIOUS
  <2>2. e \in Entry /\ e.task = pushed + 1
    <3>1. pushed + 1 \in Nat /\ given \in Nat
      <4>1. pushed + 1 \in Nat
        BY <1>1
      <4>2. given \in TaskFuel /\ TaskFuel \subseteq Nat
        BY NativeAssumption
      <4>3. given \in Nat
        BY <4>2, Zenon
      <4>4. QED BY <4>1, <4>3
    <3>2. QED BY <2>1, <3>1 DEF Entry
  <2>3. /\ deque' = Append(deque, e) /\ pushed' = pushed + 1
        /\ UNCHANGED << stolen, popped, call >>
    BY <1>3, <2>1 DEF PushBottom
  <2>4. deque' \in Seq(Entry) /\ pushed' \in Nat
    BY <1>1, <2>2, <2>3, AppendProperties
  <2>5. Shares(Append(deque, e), stolen, popped, pushed + 1) /\ Ordered(Append(deque, e))
    BY <1>1, <2>2, PushShares
  <2>6. QED BY <1>1, <2>3, <2>4, <2>5
<1>4. CASE StealTop
  <2>1. /\ deque # << >> /\ deque' = Tail(deque) /\ stolen' = Append(stolen, Head(deque).task)
        /\ UNCHANGED << pushed, popped, call >>
    BY <1>4 DEF StealTop
  <2>2. /\ Shares(Tail(deque), Append(stolen, Head(deque).task), popped, pushed)
        /\ Ordered(Tail(deque)) /\ Head(deque).task \in Nat
    BY <1>1, <2>1, StealShares
  <2>3. deque' \in Seq(Entry) /\ stolen' \in Seq(Nat)
    BY <1>1, <2>1, <2>2, HeadTailProperties, AppendProperties
  <2>4. QED BY <1>1, <2>1, <2>2, <2>3
<1>5. CASE PopBottom
  <2>1. PICK r : r = SubSeq(deque, 1, Len(deque) - 1)
    OBVIOUS
  <2>2. /\ deque # << >> /\ deque' = r
        /\ popped' = Append(popped, deque[Len(deque)].task)
        /\ UNCHANGED << pushed, stolen, call >>
    BY <1>5, <2>1 DEF PopBottom
  <2>3. /\ Shares(r, stolen, Append(popped, deque[Len(deque)].task), pushed)
        /\ Ordered(r) /\ deque[Len(deque)].task \in Nat /\ r \in Seq(Entry)
    BY <1>1, <2>1, <2>2, PopShares
  <2>4. popped' \in Seq(Nat)
    BY <1>1, <2>2, <2>3, AppendProperties
  <2>5. QED BY <1>1, <2>2, <2>3, <2>4
<1>6. CASE \/ \E budget \in 0 .. MaxBudget : CallStack(budget)
           \/ CompleteFirst \/ RunFirst \/ ReturnStack
  <2>1. call' \in Call /\ StackInv(call') /\ UNCHANGED dequeVars
    BY <1>6, CallKeeps
  <2>2. QED BY <1>1, <2>1 DEF dequeVars
<1>7. CASE UNCHANGED nativeVars
  BY <1>1, <1>7 DEF nativeVars, dequeVars
<1>8. QED BY <1>3, <1>4, <1>5, <1>6, <1>7 DEF NativeNext

-----------------------------------------------------------------------------
(* Behaviours of the two layers.                                           *)

layersVars == << vars, driverVars >>

\* Nothing is running, queued or under way when a program begins.
LEMMA LayersStart ==
  DriverInit => IInv /\ DriveInv
<1>1. Init => IInv
  BY InitTypes, InitExact DEF IInv
<1>2. QED BY <1>1 DEF DriverInit, DriveInv

\* Each step of a policy or a driver leaves the scheduling invariants in force
\* and a call's goal within reach.
LEMMA LayersKeep ==
  ASSUME IInv, DriveInv, [LayersNext]_layersVars
  PROVE  IInv' /\ DriveInv'
<1>1. CASE UNCHANGED layersVars
  <2>1. UNCHANGED vars /\ UNCHANGED driverVars
    BY <1>1 DEF layersVars
  <2>2. IInv'
    BY <2>1, FrameKeeps
  <2>3. DriveInv'
    BY <2>1 DEF DriveInv, driverVars, vars, scheduleVars, GoalOf, GoalWith, Reach, CompleteAll
  <2>4. QED BY <2>2, <2>3
<1>2. CASE fuel = None /\ PolicyNext /\ UNCHANGED driverVars
  <2>1. IInv'
    BY <1>2, PolicyKeeps
  <2>2. DriveInv'
    BY <1>2, NoneAssumption DEF DriveInv, driverVars
  <2>3. QED BY <2>1, <2>2
<1>3. CASE Drain
  <2>1. IInv'
    BY <1>3, DrainKeeps
  <2>2. fuel = None /\ UNCHANGED driverVars
    BY <1>3 DEF Drain
  <2>3. DriveInv'
    BY <2>2, NoneAssumption DEF DriveInv, driverVars
  <2>4. QED BY <2>1, <2>3
<1>4. CASE \E f \in 0 .. MaxFuel : StartDrive(f)
  <2>1. DriveInv'
    BY <1>4, StartKeepsGoal
  <2>2. UNCHANGED vars
    BY <1>4 DEF StartDrive
  <2>3. IInv'
    BY <2>2, FrameKeeps
  <2>4. QED BY <2>1, <2>3
<1>5. CASE DriveSchedule
  <2>1. DriveInv'
    BY <1>5, ScheduleKeepsGoal
  <2>2. Schedule \/ UNCHANGED vars
    BY <1>5 DEF DriveSchedule
  <2>3. Schedule => IInv'
    BY DispatchTypes, DispatchExact DEF Schedule, IInv, TypeOK, QueueExact
  <2>4. QED BY <2>1, <2>2, <2>3, FrameKeeps
<1>6. CASE DriveComplete
  <2>1. DriveInv'
    BY <1>6, CompleteKeepsGoal
  <2>2. Complete(chosen) \/ UNCHANGED vars
    BY <1>6 DEF DriveComplete
  <2>3. chosen \in Task
    BY <1>6 DEF DriveComplete, DriveInv
  <2>4. Complete(chosen) => IInv'
    BY <2>3, CompleteTypes, CompleteExact DEF IInv
  <2>5. QED BY <2>1, <2>2, <2>4, FrameKeeps
<1>7. CASE DriveDone /\ UNCHANGED << vars, driverVars >>
  BY <1>1, <1>7 DEF layersVars
<1>8. QED BY <1>1, <1>2, <1>3, <1>4, <1>5, <1>6, <1>7 DEF LayersNext, DriveNext

\* A drain empties the queue, and where there was somebody in it, completes him.
LEMMA DrainKeepsQueue ==
  ASSUME IInv, TypeOK', Drain
  PROVE  StepKeepsQueue
<1>1. readyQ' = << >> /\ UNCHANGED running /\ taskState' = CompleteAll(readyQ)
  BY DEF Drain
<1>2. readyQ \in Seq(Task) /\ Elems(readyQ) = {t \in Task : taskState[t] \in Runnable}
  BY DEF IInv, TypeOK, QueueExact
<1>3. Continues(readyQ, readyQ')
  BY <1>1, <1>2, EmptyContinues
<1>4. ASSUME readyQ # << >> PROVE taskState' # taskState
  <2>1. PICK c \in Task : c \in Elems(readyQ) /\ taskState[c] \in Runnable
    BY <1>2, <1>4, TailList
  <2>2. taskState'[c] = "completed"
    BY <1>1, <2>1 DEF CompleteAll
  <2>3. QED BY <2>1, <2>2 DEF Runnable
<1>5. QED BY <1>1, <1>3, <1>4, FifoKeepsQueue

\* Every step of a policy and of a driver treats the queue as it may. Only a policy
\* step and the schedule of a driver's round start a task.
LEMMA LayersLeave ==
  ASSUME IInv, DriveInv, [LayersNext]_layersVars
  PROVE  StepKeepsQueue
<1>0. TypeOK'
  BY LayersKeep DEF IInv
<1>1. UNCHANGED vars => StepKeepsQueue
  BY <1>0, SameQueue DEF vars, scheduleVars
<1>2. CASE UNCHANGED layersVars
  BY <1>1, <1>2 DEF layersVars
<1>3. CASE PolicyNext
  BY <1>0, <1>3, PolicyLeaves
<1>4. CASE Drain
  BY <1>0, <1>4, DrainKeepsQueue
<1>5. CASE \E f \in 0 .. MaxFuel : StartDrive(f)
  BY <1>1, <1>5 DEF StartDrive
<1>6. CASE DriveSchedule
  <2>1. CASE Schedule
    <3>1. /\ readyQ # << >> /\ Dispatch(readyQ)
          /\ readyQ \in Seq(Task) /\ NoDup(readyQ)
      BY <2>1 DEF Schedule, Dispatch, CanDispatch, IInv, TypeOK, QueueExact
    <3>2. Tail(readyQ) = Without(readyQ, {Head(readyQ)})
      BY <3>1, WithoutHead
    <3>3. QED BY <1>0, <3>1, <3>2, DispatchKeepsQueue
  <2>2. QED BY <1>1, <1>6, <2>1 DEF DriveSchedule
<1>7. CASE DriveComplete
  <2>1. Complete(chosen) => StepKeepsQueue
    BY <1>0, SameQueue DEF Complete
  <2>2. QED BY <1>1, <1>7, <2>1 DEF DriveComplete
<1>8. QED BY <1>1, <1>2, <1>3, <1>4, <1>5, <1>6, <1>7 DEF LayersNext, DriveNext, layersVars

\* The scheduling invariants hold under any policy and any driver, and a call of
\* driveOps keeps its goal within the reach of the fuel it has left.
THEOREM LayersInductive == LayersSpec => [](IInv /\ DriveInv)
<1>1. IInv /\ DriveInv /\ [LayersNext]_layersVars => (IInv /\ DriveInv)'
  BY LayersKeep
<1>2. QED BY <1>1, LayersStart, PTL DEF LayersSpec, layersVars

\* pickBy's single pass finds the oldest of the best in every state reached
\* under any policy and any driver.
THEOREM ChoiceIsTheOldestBest == LayersSpec => []ChoiceIsOldestBest
<1>1. IInv => ChoiceIsOldestBest
  BY ChoiceLemma DEF IInv
<1>2. QED BY <1>1, LayersInductive, PTL

\* A policy or a driver that starts a task takes that task out of the queue and
\* leaves the others in the order they had. A policy step that is refused, a
\* task being on the processor, changes nobody's state and brings at most one
\* task to the front of the queue, the others staying as they were. Every other
\* step that changes a task lets nobody overtake. So nothing reorder does, and
\* no sequence of accepted and refused steps, loses, doubles or swaps a task.
THEOREM QueueIsKept == LayersSpec => PolicyKeepsQueue
<1> DEFINE A == /\ running = None /\ running' # None => readyQ' = Without(readyQ, {running'})
                /\ UNCHANGED << taskState, running >> =>
                     readyQ' = readyQ \/ (running # None /\ BroughtForward)
                /\ ~ UNCHANGED << taskState, running >> =>
                     KeepsOrder(readyQ, readyQ') /\ NewcomersLast(readyQ, readyQ')
<1>1. IInv /\ DriveInv /\ [LayersNext]_layersVars => [A]_vars
  BY LayersLeave DEF StepKeepsQueue
<1>2. QED BY <1>1, LayersInductive, PTL DEF LayersSpec, layersVars, PolicyKeepsQueue

\* The two reference drivers agree: when driveOps ends, whatever state it was
\* called in, it has done to the tasks its fuel covers what drain does to all.
THEOREM DriversAgree == LayersSpec => []DriveMeetsGoal
<1>1. IInv /\ DriveInv => DriveMeetsGoal
  BY DoneMeetsGoal
<1>2. QED BY <1>1, LayersInductive, PTL

\* The whole of MCLayers starts and goes on under the three invariants.
THEOREM DriversInductive == MCSpec => [](IInv /\ DriveInv /\ NativeInv)
<1>1. MCInit => IInv /\ DriveInv /\ NativeInv
  BY LayersStart, NativeStart DEF MCInit
<1>2. IInv /\ DriveInv /\ NativeInv /\ [MCNext]_<< focus, vars, driverVars, nativeVars >>
        => (IInv /\ DriveInv /\ NativeInv)'
  <2> SUFFICES ASSUME IInv, DriveInv, NativeInv,
                      [MCNext]_<< focus, vars, driverVars, nativeVars >>
               PROVE  (IInv /\ DriveInv /\ NativeInv)'
    OBVIOUS
  <2>1. [LayersNext]_layersVars /\ [NativeNext]_nativeVars
    BY DEF MCNext, layersVars
  <2>2. QED BY <2>1, LayersKeep, NativeKeeps
<1>3. QED BY <1>1, <1>2, PTL DEF MCSpec

\* Every driver meets its goal, whatever state it is called in: driveOps does what
\* drain would for its fuel, driveStackB completes at the owner's end what its
\* budget covers and no more, and thieves and the owner share the deque out.
THEOREM GoalsAreMet == MCSpec => []DriversMeetGoals
<1>1. IInv /\ DriveInv /\ NativeInv => DriversMeetGoals
  <2> SUFFICES ASSUME IInv, DriveInv, NativeInv PROVE DriversMeetGoals
    OBVIOUS
  <2>1. DriveMeetsGoal
    BY DoneMeetsGoal
  <2>2. DequeSharesTasks /\ call \in Call /\ StackInv(call)
    BY DEF NativeInv, NativeTypeOK
  <2>3. StackDriveMeetsGoal
    BY <2>2, OverMeetsGoal DEF StackDriveMeetsGoal
  <2>4. QED BY <2>1, <2>2, <2>3 DEF DriversMeetGoals
<1>2. QED BY <1>1, DriversInductive, PTL

=============================================================================
