------------------------------- MODULE Queues -------------------------------
(***************************************************************************)
(* The list operations the runtime is built from: the FIFO lists of        *)
(* readyQ, of the mailboxes and of the waiter queues, and the timer queue  *)
(* kept sorted by deadline (Henret/Scheduler/Timer.lean).                  *)
(*                                                                         *)
(* Recursion is written with recursive functions only, so that the proof   *)
(* modules can reason about every operator of this module.                 *)
(***************************************************************************)
EXTENDS Integers, Sequences

\* The members of the list q.
Elems(q) == {q[i] : i \in 1 .. Len(q)}

\* No member occurs twice in q.
NoDup(q) == \A i, j \in 1 .. Len(q) : q[i] = q[j] => i = j

\* List.filter (. \notin S): the members of q outside S, in order.
Without(q, S) ==
  LET kept[i \in 0 .. Len(q)] ==
        IF i = 0 THEN << >>
        ELSE IF q[i] \in S THEN kept[i - 1] ELSE Append(kept[i - 1], q[i])
  IN  kept[Len(q)]

\* List.filter (. \in S).
Only(q, S) == Without(q, Elems(q) \ S)

-----------------------------------------------------------------------------
(* Timer queues: lists of [deadline, task] entries. *)

Sorted(q) == \A i, j \in 1 .. Len(q) : i < j => q[i].deadline <= q[j].deadline

\* The tasks of a list of timer entries, in queue order.
TasksOf(q) == [i \in 1 .. Len(q) |-> q[i].task]

\* Timer.insertSorted: e goes in front of the first entry whose deadline is
\* not smaller, so the newest of several equal deadlines comes first.
InsertSorted(e, q) ==
  LET slot == CHOOSE i \in 1 .. Len(q) + 1 :
                /\ \A j \in 1 .. i - 1 : q[j].deadline < e.deadline
                /\ i <= Len(q) => e.deadline <= q[i].deadline
  IN  SubSeq(q, 1, slot - 1) \o << e >> \o SubSeq(q, slot, Len(q))

\* Fault: an entry counts as expired one tick early.
ExpiredEarly(q, t) == Only(q, {e \in Elems(q) : e.deadline <= t + 1})

\* Fault: an entry that is due at t exactly counts as not expired.
ExpiredLate(q, t) == Only(q, {e \in Elems(q) : e.deadline < t})

Expired(q, t)   == Only(q, {e \in Elems(q) : e.deadline <= t})
Remaining(q, t) == Only(q, {e \in Elems(q) : t < e.deadline})

\* timers.filter (fun e => e.task \notin T)
WithoutTimersOf(q, T) == Without(q, {e \in Elems(q) : e.task \in T})

-----------------------------------------------------------------------------
(* Selective dequeue: Mailbox.listDequeueFirst removes the first member of  *)
(* q that is in S and keeps the order of the others.                        *)

FirstIn(q, S) ==
  CHOOSE i \in 1 .. Len(q) : q[i] \in S /\ \A j \in 1 .. i - 1 : q[j] \notin S

RemoveFirst(q, S) ==
  SubSeq(q, 1, FirstIn(q, S) - 1) \o SubSeq(q, FirstIn(q, S) + 1, Len(q))

=============================================================================
