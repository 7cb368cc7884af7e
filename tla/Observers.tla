----------------------------- MODULE Observers -----------------------------
(***************************************************************************)
(* The runtime with the layers that watch it: every operation offered is   *)
(* carried out or refused, translated for the worker queues, and reported  *)
(* in the ledger, all three computed from the state the operation finds.   *)
(***************************************************************************)
EXTENDS Bridge, Trace

observerVars == << vars, workers, workerQ, replay >>

ObserversInit == Init /\ BridgeInit /\ TraceInit

Offer(op) ==
  /\ WithinBounds(op)
  /\ \/ Step(op) /\ Report(op)
     \/ Refused(op) /\ UNCHANGED << vars, replay >>
  /\ \E w \in workers : Follow(op, w)

\* The dispatch by one of several workers is reported like a schedule.
OfferPop(w) ==
  /\ PopAt(w)
  /\ replay' = Learn(replay, About("scheduled", Head(workerQ[w])))

ObserversNext ==
  \/ \E op \in Operation : Offer(op)
  \/ \E w \in Worker : OfferPop(w)
  \/ \E v, w \in Worker : Steal(v, w) /\ UNCHANGED << vars, replay >>

ObserversSpec == ObserversInit /\ [][ObserversNext]_observerVars

=============================================================================
