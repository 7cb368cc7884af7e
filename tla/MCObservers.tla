---------------------------- MODULE MCObservers ----------------------------
(* A small instance of the runtime and its observers for TLC. *)
EXTENDS Observers, FiniteSets, TLC

CONSTANTS a1, w1, w2

OneSlot == [a \in Actor |-> 1]

\* Accepted repeats the guards of the actions: TLC compares them on its way. With
\* that the specification is ObserversSpec.
GuardsAgree(op) ==
  Assert(WithinBounds(op) => (Accepted(op) <=> ENABLED Step(op)),
         << "accepted is not enabled", op >>)

CheckedNext ==
  \/ \E op \in Operation : GuardsAgree(op) /\ Offer(op)
  \/ \E w \in Worker : OfferPop(w)
  \/ \E v, w \in Worker : Steal(v, w) /\ UNCHANGED << vars, replay >>

CheckedSpec == ObserversInit /\ [][CheckedNext]_observerVars

\* Bound: a program that acquires resources has one worker and at most one message.
LeaseOrMail == nextResourceId > 0 => nextMsgId <= 1 /\ Cardinality(workers) = 1

WorkerSymmetry == Permutations(Worker)

=============================================================================
