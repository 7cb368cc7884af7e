----------------------------- MODULE WorkerPool -----------------------------
(***************************************************************************)
(* The runtime used the way its Mesa contract asks for: the workers of an  *)
(* actor share its mailbox, and each loops on receive, serves what it got  *)
(* and receives again (docs/src/integration-contract.md, section 4). A     *)
(* delivery wakes one worker and hands nothing over, a woken worker may    *)
(* find the mailbox empty, and the runtime keeps no account of who owes    *)
(* whom a retry. This module is that account.                              *)
(***************************************************************************)
EXTENDS Runtime, FiniteSets

VARIABLE serving   \* the workers that hold a message they received

poolVars == << vars, serving >>

PoolInit == Init /\ serving = {}

\* Top of the loop: a plain or a timed receive, at the worker's choice.
Ask(t) ==
  /\ t \notin serving
  /\ Receive(t) \/ \E d \in Deadline : ReceiveUntil(t, d)
  /\ serving' = IF mailboxes' = mailboxes THEN serving ELSE serving \cup {t}

\* Work on the message held: pass messages on, then loop or retire.
Forward(t) ==
  /\ t \in serving
  /\ \E b \in Actor : Send(t, b)
  /\ UNCHANGED serving

Serve(t) ==
  /\ t \in serving
  /\ Yield(t) \/ Complete(t)
  /\ serving' = serving \ {t}

\* A worker may be ended while it is parked or serving. One that was woken and
\* has not received yet may not: its wakeup would be lost with it.
End(t) ==
  /\ t \in serving \/ taskState[t] \in Parked
  /\ Cancel(t) \/ Fail(t)
  /\ serving' = serving \ {t}

Environment ==
  /\ \/ \E a \in Actor : Spawn(a) \/ Inject(a) \/ CloseActor(a)
     \/ \E d \in Deadline : Tick(d)
     \/ Shutdown
  /\ UNCHANGED serving

Turn == Schedule /\ UNCHANGED serving

PoolNext ==
  \/ Turn
  \/ \E t \in Task : Ask(t) \/ Forward(t) \/ Serve(t) \/ End(t)
  \/ Environment

PoolFairness ==
  /\ WF_poolVars(Turn)
  /\ WF_poolVars(\E t \in Task : Ask(t) \/ Serve(t))

PoolSpec == PoolInit /\ [][PoolNext]_poolVars /\ PoolFairness

\* The workers of a that will look at its mailbox without being woken.
Askers(a) ==
  {t \in Task \ serving :
     taskOwner[t] = a /\ taskState[t] \in Runnable \cup {"running"}}

\* While a worker of a is parked, each message in the mailbox of a has a
\* worker on its way to it: no wakeup is lost between a delivery and the
\* retry, through timeouts, terminations, or a second delivery in between.
NoLostWakeup ==
  \A a \in Actor :
    Receivers(a) # {} => Len(mailboxes[a]) <= Cardinality(Askers(a))

\* Every message delivered is received, also after its actor was closed or the
\* runtime is shutting down, unless no worker of the actor is left.
MessageIsReceived ==
  \A m \in Message, a \in Actor :
    InMailbox(m, a) ~>
      \/ ~ InMailbox(m, a)
      \/ \A t \in Task : taskOwner[t] = a => ~ Live(t)

=============================================================================
