------------------------------ MODULE Policies ------------------------------
(***************************************************************************)
(* Scheduling policies (Henret/Scheduler/Policy.lean, MetaPolicy.lean): a  *)
(* layer above the runtime in which a policy moves the queued task it      *)
(* prefers to the head before the unchanged schedule operation runs.       *)
(***************************************************************************)
EXTENDS Runtime

\* The policies keyed by metadata, and all of them.
Keyed  == {"priority", "edf", "hybrid"}
Policy == Keyed \cup {"fifo", "lifo"}

PriorityOf(t) == MetaOf(t).priority
DeadlineOf(t) == MetaOf(t).deadline

\* deadlineLt: a missing deadline is the least urgent one.
DeadlineLt(d, e) == d # None /\ (e = None \/ d < e)

\* Should u be preferred to b, the best task so far?
Better(policy, b, u) ==
  \/ policy \in {"priority", "hybrid"} /\ PriorityOf(b) < PriorityOf(u)
  \/ policy = "edf" /\ DeadlineLt(DeadlineOf(u), DeadlineOf(b))
  \/ /\ policy = "hybrid"
     /\ PriorityOf(b) = PriorityOf(u)
     /\ DeadlineLt(DeadlineOf(u), DeadlineOf(b))

\* Fault: of two equally good tasks the later one is taken.
PickLatest(policy, q) ==
  LET best[i \in 1 .. Len(q)] ==
        IF i = 1 THEN q[1]
        ELSE IF Better(policy, q[i], best[i - 1]) THEN best[i - 1] ELSE q[i]
  IN  best[Len(q)]

\* pickBy: one pass over the queue, keeping the best task so far.
PickBy(policy, q) ==
  LET best[i \in 1 .. Len(q)] ==
        IF i = 1 THEN q[1]
        ELSE IF Better(policy, best[i - 1], q[i]) THEN q[i] ELSE best[i - 1]
  IN  best[Len(q)]

Choose(policy) ==
  CASE policy = "fifo" -> Head(readyQ)
    [] policy = "lifo" -> readyQ[Len(readyQ)]
    [] OTHER           -> PickBy(policy, readyQ)

\* Fault: the chosen task changes places with the head.
ReorderSwaps(policy) ==
  IF readyQ = << >> THEN readyQ
  ELSE [readyQ EXCEPT ![1] = Choose(policy),
                      ![FirstIn(readyQ, {Choose(policy)})] = Head(readyQ)]

\* reorder: the chosen task in front, the others in the order they had.
Reorder(policy) ==
  IF readyQ = << >> THEN readyQ
  ELSE << Choose(policy) >> \o RemoveFirst(readyQ, {Choose(policy)})

\* policyStep: schedule runs on the reordered state, and where it refuses (a
\* task is running) the reordered queue stays.
PolicyStep(policy) ==
  LET q == Reorder(policy)
  IN  \/ Dispatch(q)
      \/ /\ ~ CanDispatch(q)
         /\ readyQ' = q
         /\ UNCHANGED << taskState, identityVars, taskMeta, running, timeVars,
                         waiterVars, mailVars, statusVars, ledgerVars >>

PolicyNext ==
  \/ \E policy \in Policy : PolicyStep(policy)
  \/ \E t \in Task : Yield(t) \/ Complete(t) \/ Cancel(t)
  \/ \E a \in Actor : Spawn(a)
  \/ MetaNext

PolicySpec == Init /\ [][PolicyNext]_vars

-----------------------------------------------------------------------------

\* The task a keyed policy picks is queued, no queued task is preferred to it,
\* and it is preferred to every task that was queued before it: the single
\* pass finds the oldest of the best, whatever mixture of absent and present
\* deadlines the queue holds.
ChoiceIsOldestBest ==
  readyQ # << >> =>
    \A policy \in Keyed :
      LET t == Choose(policy)
      IN  \E i \in 1 .. Len(readyQ) :
            /\ readyQ[i] = t
            /\ \A j \in 1 .. Len(readyQ) : ~ Better(policy, t, readyQ[j])
            /\ \A j \in 1 .. i - 1 : Better(policy, readyQ[j], t)

\* One queued task is in front now, and the others are behind it as they were.
BroughtForward ==
  \E t \in Elems(readyQ) : readyQ' = << t >> \o Without(readyQ, {t})

\* What a policy or a driver may do to the queue. Where somebody is started, it
\* loses that task only and the others keep their order. Where a policy step is
\* refused because a task is running, nobody's state changes, yet one task may
\* have come to the front, the others staying as they were: an error result is
\* not an unchanged queue, and this is all it may do to it. Every other step
\* that changes a task or the processor is FIFO: nobody in the queue overtakes
\* anybody, and who joins it joins at its end.
PolicyKeepsQueue ==
  [][/\ running = None /\ running' # None => readyQ' = Without(readyQ, {running'})
     /\ UNCHANGED << taskState, running >> =>
          readyQ' = readyQ \/ (running # None /\ BroughtForward)
     /\ ~ UNCHANGED << taskState, running >> =>
          KeepsOrder(readyQ, readyQ') /\ NewcomersLast(readyQ, readyQ')]_vars

=============================================================================
