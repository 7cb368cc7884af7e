-------------------------- MODULE ObserverTheorems --------------------------
(***************************************************************************)
(* What the layers that watch the runtime are worth. From the events alone *)
(* a reader of the trace ledger knows the state of every task, the ready   *)
(* queue and the mailboxes, however many operations were carried out; and  *)
(* the queues of the native workers hold the ready tasks, whatever is      *)
(* offered, dispatched and stolen.                                         *)
(***************************************************************************)
EXTENDS RuntimeHistory, Observers

-----------------------------------------------------------------------------
(* Reading a list of events.                                               *)

LearnBody(r, events, n, f) ==
  [i \in 0 .. n |-> IF i = 0 THEN r ELSE Learn(f[i - 1], events[i])]

\* Reading the first n events, one by one, comes to an end.
LEMMA LearnExists ==
  ASSUME NEW r, NEW events, NEW n \in Nat
  PROVE  \E f : f = LearnBody(r, events, n, f)
<1> DEFINE Bad == {m \in Nat : ~ \E f : f = LearnBody(r, events, m, f)}
<1>1. SUFFICES ASSUME Bad # {} PROVE FALSE
  OBVIOUS
<1>2. PICK m \in Bad : \A k \in Bad : m <= k
  BY <1>1, LeastNat
<1>3. m # 0
  <2> DEFINE g == [i \in 0 .. 0 |-> r]
  <2>1. g = LearnBody(r, events, 0, g)
    BY DEF LearnBody
  <2>2. QED BY <2>1
<1>4. m - 1 \in Nat /\ ~ (m <= m - 1)
  BY <1>3
<1>5. PICK f : f = LearnBody(r, events, m - 1, f)
  BY <1>2, <1>4
<1> DEFINE last == Learn(f[m - 1], events[m])
           g    == [i \in 0 .. m |-> IF i = m THEN last ELSE f[i]]
<1>6. ASSUME NEW i \in 0 .. m
      PROVE  g[i] = IF i = 0 THEN r ELSE Learn(g[i - 1], events[i])
  <2>1. CASE i = m
    BY <2>1, <1>3
  <2>2. CASE i # m
    <3>1. i \in 0 .. m - 1
      BY <2>2
    <3>2. f[i] = IF i = 0 THEN r ELSE Learn(f[i - 1], events[i])
      BY <3>1, <1>5 DEF LearnBody
    <3>3. QED BY <3>1, <3>2
  <2>3. QED BY <2>1, <2>2
<1>7. g = LearnBody(r, events, m, g)
  <2>1. g = [i \in 0 .. m |-> g[i]]
    OBVIOUS
  <2>2. QED BY <1>6, <2>1 DEF LearnBody
<1>8. QED BY <1>7

\* What is known after a list of events is known event by event.
LEMMA LearnSteps ==
  ASSUME NEW r, NEW events, Len(events) \in Nat
  PROVE  \E f : /\ f[0] = r
                /\ \A i \in 1 .. Len(events) : f[i] = Learn(f[i - 1], events[i])
                /\ LearnAll(r, events) = f[Len(events)]
<1> DEFINE f == CHOOSE f : f = LearnBody(r, events, Len(events), f)
<1>1. f = LearnBody(r, events, Len(events), f)
  BY LearnExists
<1>2. LearnAll(r, events) = f[Len(events)]
  BY Zenon DEF LearnAll, LearnBody
<1> HIDE DEF f
<1>3. 0 \in 0 .. Len(events) /\ \A i \in 1 .. Len(events) : i \in 0 .. Len(events) /\ i # 0
  OBVIOUS
<1>4. \A i \in 0 .. Len(events) :
        f[i] = IF i = 0 THEN r ELSE Learn(f[i - 1], events[i])
  BY <1>1, Zenon DEF LearnBody
<1>5. f[0] = r /\ \A i \in 1 .. Len(events) : f[i] = Learn(f[i - 1], events[i])
  BY <1>3, <1>4, Zenon
<1>6. QED BY <1>2, <1>5, Zenon

\* One event.
LEMMA LearnOne ==
  ASSUME NEW r, NEW e
  PROVE  LearnAll(r, << e >>) = Learn(r, e)
<1> DEFINE s == << e >>
<1>1. Len(s) = 1 /\ 1 \in Nat /\ s[1] = e
  OBVIOUS
<1> HIDE DEF s
<1>2. PICK f : /\ f[0] = r
               /\ \A i \in 1 .. Len(s) : f[i] = Learn(f[i - 1], s[i])
               /\ LearnAll(r, s) = f[Len(s)]
  BY <1>1, LearnSteps
<1>3. f[1] = Learn(f[0], s[1])
  <2>1. 1 \in 1 .. Len(s) /\ 1 - 1 = 0
    BY <1>1
  <2>2. f[1] = Learn(f[1 - 1], s[1])
    BY <1>2, <2>1
  <2>3. QED BY <2>1, <2>2
<1>4. QED BY <1>1, <1>2, <1>3 DEF s

\* Two events.
LEMMA LearnTwo ==
  ASSUME NEW r, NEW e, NEW d
  PROVE  LearnAll(r, << e, d >>) = Learn(Learn(r, e), d)
<1> DEFINE s == << e, d >>
<1>1. Len(s) = 2 /\ Len(s) \in Nat /\ s[1] = e /\ s[2] = d
  OBVIOUS
<1> HIDE DEF s
<1>2. PICK f : /\ f[0] = r
               /\ \A i \in 1 .. Len(s) : f[i] = Learn(f[i - 1], s[i])
               /\ LearnAll(r, s) = f[Len(s)]
  BY <1>1, LearnSteps, SMTT(60)
<1>3. f[1] = Learn(f[0], s[1]) /\ f[2] = Learn(f[1], s[2])
  <2>1. 1 \in 1 .. Len(s) /\ 2 \in 1 .. Len(s) /\ 1 - 1 = 0 /\ 2 - 1 = 1
    BY <1>1
  <2>2. f[1] = Learn(f[1 - 1], s[1]) /\ f[2] = Learn(f[2 - 1], s[2])
    BY <1>2, <2>1
  <2>3. QED BY <2>1, <2>2
<1>4. QED BY <1>1, <1>2, <1>3 DEF s

\* What the events about one task tell.
LEMMA LearnKinds ==
  ASSUME NEW r, NEW t
  PROVE  /\ Learn(r, About("spawned", t)) = Entered(r, t, "queued", Append(r.queue, t))
         /\ Learn(r, About("yielded", t)) = Entered(r, t, "queued", Append(r.queue, t))
         /\ Learn(r, About("woken", t)) = Entered(r, t, "queued", Append(r.queue, t))
         /\ Learn(r, About("scheduled", t)) =
              Entered(r, t, "running", Without(r.queue, {t}))
         /\ Learn(r, About("sleeping", t)) = Entered(r, t, "sleeping", r.queue)
         /\ Learn(r, About("parked", t)) = Entered(r, t, "parked", r.queue)
  BY DEF Learn, About, Terminal

\* What the end of a task tells.
LEMMA LearnEnd ==
  ASSUME NEW r, NEW t, NEW kind \in Terminal
  PROVE  Learn(r, About(kind, t)) =
           IF r.phase[t] \in Terminal THEN r
           ELSE Entered(r, t, kind, Without(r.queue, {t}))
  BY DEF Learn, About, Terminal

\* These events tell nothing.
LEMMA LearnNothing ==
  ASSUME NEW r, NEW kind \in {"invalid", "noEffect", "status", "actorClosed"}
  PROVE  Learn(r, [kind |-> kind]) = r
  BY DEF Learn, Terminal

\* What the events about a mailbox tell.
LEMMA LearnDelivered ==
  ASSUME NEW r, NEW a, NEW id
  PROVE  Learn(r, [kind |-> "delivered", actor |-> a, occurrence |-> id]) =
           Holding(r, a, Append(r.mail[a], id))
  BY DEF Learn, Terminal

\* Receiving a message takes its id out.
LEMMA LearnReceived ==
  ASSUME NEW r, NEW a, NEW id
  PROVE  Learn(r, [kind |-> "received", actor |-> a, occurrence |-> id]) =
           Holding(r, a, Without(r.mail[a], {id}))
  BY DEF Learn, Terminal

\* What is known of the tasks in general: their phases, the queue, the mail.
Knowledge(P, q, m) == [phase |-> P, queue |-> q, mail |-> m]

\* A list that continues another one member by member is the two joined.
LEMMA JoinedIs ==
  ASSUME NEW T, NEW q \in Seq(T), NEW w \in Seq(T), NEW u \in Seq(T),
         Len(u) = Len(q) + Len(w),
         \A i \in 1 .. Len(q) : u[i] = q[i],
         \A i \in 1 .. Len(w) : u[Len(q) + i] = w[i]
  PROVE  u = q \o w
<1>1. PICK m, n \in Nat : Len(q) = m /\ Len(w) = n
  BY LenProperties
<1>2. /\ q \o w \in Seq(T) /\ Len(q \o w) = m + n
      /\ \A i \in 1 .. m + n : (q \o w)[i] = IF i <= m THEN q[i] ELSE w[i - m]
  BY <1>1, ConcatProperties
<1>3. ASSUME NEW i \in 1 .. m + n PROVE u[i] = (q \o w)[i]
  <2>1. CASE i <= m
    BY <1>1, <1>2, <2>1
  <2>2. CASE ~ (i <= m)
    <3>1. i - m \in 1 .. n /\ m + (i - m) = i
      BY <1>1, <2>2
    <3>2. u[m + (i - m)] = w[i - m]
      BY <1>1, <3>1
    <3>3. QED BY <1>2, <2>2, <3>1, <3>2
  <2>3. QED BY <2>1, <2>2
<1>4. QED BY <1>1, <1>2, <1>3, SeqEqual

\* A reader of the first n of the waking events of w.
Woke(P, q, m, w, n, x) ==
  \E p \in [Task -> TaskState \cup {"queued", "parked", None}], u \in Seq(Task) :
    /\ x = Knowledge(p, u, m)
    /\ \A t \in Task : p[t] = IF \E i \in 1 .. n : w[i] = t THEN "queued" ELSE P[t]
    /\ Len(u) = Len(q) + n
    /\ \A i \in 1 .. Len(q) : u[i] = q[i]
    /\ \A i \in 1 .. n : u[Len(q) + i] = w[i]

\* One waking event more.
LEMMA WokeOneMore ==
  ASSUME NEW P, NEW q \in Seq(Task), NEW m, NEW w \in Seq(Task),
         NEW n \in Nat, n + 1 <= Len(w), NEW x, Woke(P, q, m, w, n, x)
  PROVE  Woke(P, q, m, w, n + 1, Learn(x, About("woken", w[n + 1])))
<1> DEFINE K     == [Task -> TaskState \cup {"queued", "parked", None}]
           t     == w[n + 1]
<1>1. PICK p \in K, u \in Seq(Task) :
        /\ x = Knowledge(p, u, m)
        /\ \A v \in Task : p[v] = IF \E i \in 1 .. n : w[i] = v THEN "queued" ELSE P[v]
        /\ Len(u) = Len(q) + n
        /\ \A i \in 1 .. Len(q) : u[i] = q[i]
        /\ \A i \in 1 .. n : u[Len(q) + i] = w[i]
  BY DEF Woke
<1>2. PICK k \in Nat : Len(q) = k
  BY LenProperties
<1>3. t \in Task /\ n + 1 \in 1 .. Len(w)
  BY LenProperties, ElementOfSeq
<1> DEFINE r == [p EXCEPT ![t] = "queued"]
           v == Append(u, t)
<1>4. Learn(x, About("woken", t)) = Knowledge(r, v, m)
  <2>1. Learn(x, About("woken", t)) = Entered(x, t, "queued", Append(x.queue, t))
    BY LearnKinds
  <2>2. x.phase = p /\ x.queue = u /\ x.mail = m
    BY <1>1 DEF Knowledge
  <2>3. QED BY <2>1, <2>2 DEF Entered, Knowledge
<1>5. r \in K
  BY <1>1
<1>6. /\ v \in Seq(Task) /\ Len(v) = k + n + 1
      /\ \A i \in 1 .. k + n : v[i] = u[i]
      /\ v[k + n + 1] = t
  <2>1. Len(u) = k + n
    BY <1>1, <1>2
  <2>2. QED BY <1>1, <1>3, <2>1, AppendProperties
<1>7. \A z \in Task : r[z] = IF \E i \in 1 .. n + 1 : w[i] = z THEN "queued" ELSE P[z]
  <2>1. ASSUME NEW z \in Task
        PROVE  r[z] = IF \E i \in 1 .. n + 1 : w[i] = z THEN "queued" ELSE P[z]
    <3>1. CASE z = t
      <4>1. n + 1 \in 1 .. n + 1 /\ r[z] = "queued"
        BY <1>1, <1>3, <3>1
      <4>2. QED BY <4>1, <3>1
    <3>2. CASE z # t
      <4>1. r[z] = p[z]
        BY <1>1, <3>2
      <4>2. (\E i \in 1 .. n + 1 : w[i] = z) <=> \E i \in 1 .. n : w[i] = z
        BY <3>2
      <4>3. QED BY <1>1, <4>1, <4>2
    <3>3. QED BY <3>1, <3>2
  <2>2. QED BY <2>1
<1> HIDE DEF r, v, t
<1>8. \A i \in 1 .. k : v[i] = q[i]
  BY <1>1, <1>2, <1>6
<1>9. \A i \in 1 .. n + 1 : v[k + i] = w[i]
  <2>1. ASSUME NEW i \in 1 .. n + 1 PROVE v[k + i] = w[i]
    <3>1. CASE i = n + 1
      BY <1>2, <1>6, <3>1 DEF t
    <3>2. CASE i # n + 1
      <4>1. i \in 1 .. n /\ k + i \in 1 .. k + n
        BY <1>2, <3>2
      <4>2. QED BY <1>1, <1>2, <1>6, <4>1
    <3>3. QED BY <3>1, <3>2
  <2>2. QED BY <2>1
<1>10. /\ Len(v) = Len(q) + (n + 1)
       /\ \A i \in 1 .. Len(q) : v[i] = q[i]
       /\ \A i \in 1 .. n + 1 : v[Len(q) + i] = w[i]
  BY <1>2, <1>6, <1>8, <1>9
<1>11. Woke(P, q, m, w, n + 1, Knowledge(r, v, m))
  <2> DEFINE Fits(p1, u1) ==
               /\ Knowledge(r, v, m) = Knowledge(p1, u1, m)
               /\ \A z \in Task : p1[z] = IF \E i \in 1 .. n + 1 : w[i] = z THEN "queued" ELSE P[z]
               /\ Len(u1) = Len(q) + (n + 1)
               /\ \A i \in 1 .. Len(q) : u1[i] = q[i]
               /\ \A i \in 1 .. n + 1 : u1[Len(q) + i] = w[i]
  <2>1. r \in [Task -> TaskState \cup {"queued", "parked", None}] /\ v \in Seq(Task)
    BY <1>5, <1>6
  <2>2. Fits(r, v)
    BY <1>7, <1>10
  <2>3. (\E p1 \in [Task -> TaskState \cup {"queued", "parked", None}], u1 \in Seq(Task) :
           Fits(p1, u1))
        => Woke(P, q, m, w, n + 1, Knowledge(r, v, m))
    BY DEF Woke
  <2> HIDE DEF Fits
  <2>4. QED BY <2>1, <2>2, <2>3
<1>12. Learn(x, About("woken", w[n + 1])) = Knowledge(r, v, m)
  BY <1>4 DEF t
<1>13. QED BY <1>11, <1>12

\* Reading that the tasks of w were woken: they are queued, in that order.
LEMMA LearnWoken ==
  ASSUME NEW P \in [Task -> TaskState \cup {"queued", "parked", None}],
         NEW q \in Seq(Task), NEW m, NEW w \in Seq(Task)
  PROVE  LearnAll(Knowledge(P, q, m), [i \in DOMAIN w |-> About("woken", w[i])]) =
           Knowledge([t \in Task |-> IF t \in Elems(w) THEN "queued" ELSE P[t]], q \o w, m)
<1> DEFINE s == [i \in DOMAIN w |-> About("woken", w[i])]
           r == Knowledge(P, q, m)
<1>1. PICK k \in Nat : Len(w) = k /\ DOMAIN w = 1 .. k
  BY LenProperties
<1>2. Len(s) = k /\ \A i \in 1 .. k : s[i] = About("woken", w[i])
  BY <1>1
<1> HIDE DEF s
<1>3. PICK f : /\ f[0] = r
               /\ \A i \in 1 .. k : f[i] = Learn(f[i - 1], s[i])
               /\ LearnAll(r, s) = f[k]
  <2>1. Len(s) \in Nat
    BY <1>2
  <2>2. PICK f : /\ f[0] = r
                 /\ \A i \in 1 .. Len(s) : f[i] = Learn(f[i - 1], s[i])
                 /\ LearnAll(r, s) = f[Len(s)]
    BY <2>1, LearnSteps
  <2>3. QED BY <1>2, <2>2
<1> DEFINE Bad == {n \in Nat : n <= k /\ ~ Woke(P, q, m, w, n, f[n])}
<1>4. Bad = {}
  <2>1. SUFFICES ASSUME Bad # {} PROVE FALSE
    OBVIOUS
  <2>2. PICK n \in Bad : \A j \in Bad : n <= j
    <3>1. Bad \in SUBSET Nat
      OBVIOUS
    <3>2. QED BY <2>1, <3>1, LeastNat
  <2>3. n \in Nat /\ n <= k
    BY <2>2
  <2>4. CASE n = 0
    <3>1. Woke(P, q, m, w, 0, r)
      <4>1. PICK j \in Nat : Len(q) = j
        BY LenProperties
      <4>2. ~ \E i \in 1 .. 0 : TRUE
        OBVIOUS
      <4>3. \A t \in Task : P[t] = IF \E i \in 1 .. 0 : w[i] = t THEN "queued" ELSE P[t]
        BY <4>2
      <4>4. Len(q) = Len(q) + 0
        BY <4>1
      <4>5. QED BY <4>2, <4>3, <4>4 DEF Woke
    <3>2. QED BY <1>3, <2>2, <2>4, <3>1
  <2>5. CASE n # 0
    <3>1. n - 1 \in Nat /\ ~ (n <= n - 1) /\ n \in 1 .. k /\ n - 1 <= k /\ n - 1 + 1 = n
      BY <2>3, <2>5
    <3>2. Woke(P, q, m, w, n - 1, f[n - 1])
      BY <2>2, <3>1
    <3>3. PICK j \in Nat : j = n - 1
      BY <3>1
    <3>4. Woke(P, q, m, w, j + 1, Learn(f[j], About("woken", w[j + 1])))
      <4>1. j + 1 <= Len(w) /\ Woke(P, q, m, w, j, f[j])
        BY <1>1, <2>3, <3>1, <3>2, <3>3
      <4>2. QED BY <4>1, WokeOneMore
    <3>5. f[n] = Learn(f[j], About("woken", w[n])) /\ j + 1 = n
      BY <1>2, <1>3, <3>1, <3>3
    <3>6. Woke(P, q, m, w, n, f[n])
      BY <3>4, <3>5
    <3>7. QED BY <2>2, <3>6
  <2>6. QED BY <2>4, <2>5
<1>5. Woke(P, q, m, w, k, f[k])
  BY <1>4
<1>6. PICK p \in [Task -> TaskState \cup {"queued", "parked", None}], u \in Seq(Task) :
        /\ f[k] = Knowledge(p, u, m)
        /\ \A t \in Task : p[t] = IF \E i \in 1 .. k : w[i] = t THEN "queued" ELSE P[t]
        /\ Len(u) = Len(q) + k
        /\ \A i \in 1 .. Len(q) : u[i] = q[i]
        /\ \A i \in 1 .. k : u[Len(q) + i] = w[i]
  BY <1>5 DEF Woke
<1>7. u = q \o w
  BY <1>1, <1>6, JoinedIs
<1>8. p = [t \in Task |-> IF t \in Elems(w) THEN "queued" ELSE P[t]]
  <2>1. \A t \in Task : t \in Elems(w) <=> \E i \in 1 .. k : w[i] = t
    BY <1>1 DEF Elems
  <2>2. QED BY <1>6, <2>1
<1>9. QED BY <1>3, <1>6, <1>7, <1>8 DEF s

\* What is known once the tasks of S have been reported as cancelled: those
\* that had ended before stay as they ended.
Cancelled(P, q, m, S) ==
  Knowledge([t \in Task |-> IF t \in S /\ P[t] \notin Terminal THEN "cancelled" ELSE P[t]],
            Without(q, {t \in S : P[t] \notin Terminal}), m)

\* One cancellation more.
LEMMA CancelledOneMore ==
  ASSUME NEW P, NEW q \in Seq(Task), NEW m, NEW S \in SUBSET Task, NEW t \in Task
  PROVE  Learn(Cancelled(P, q, m, S), About("cancelled", t)) = Cancelled(P, q, m, S \cup {t})
<1> DEFINE E(R) == [u \in Task |-> IF u \in R /\ P[u] \notin Terminal THEN "cancelled" ELSE P[u]]
           F(R) == {u \in R : P[u] \notin Terminal}
           x    == Cancelled(P, q, m, S)
           y    == Cancelled(P, q, m, S \cup {t})
<1>0. SUFFICES Learn(x, About("cancelled", t)) = y
  OBVIOUS
<1>1. /\ x.phase = E(S) /\ x.queue = Without(q, F(S)) /\ x.mail = m
      /\ y = [phase |-> E(S \cup {t}), queue |-> Without(q, F(S \cup {t})), mail |-> m]
      /\ x = [phase |-> E(S), queue |-> Without(q, F(S)), mail |-> m]
  BY DEF Cancelled, Knowledge
<1>2. Learn(x, About("cancelled", t)) =
        IF x.phase[t] \in Terminal THEN x
        ELSE Entered(x, t, "cancelled", Without(x.queue, {t}))
  <2>1. "cancelled" \in Terminal
    BY DEF Terminal
  <2>2. QED BY <2>1, LearnEnd
<1> HIDE DEF x, y
<1>3. E(S)[t] = IF t \in S /\ P[t] \notin Terminal THEN "cancelled" ELSE P[t]
  OBVIOUS
<1>4. CASE E(S)[t] \in Terminal
  <2>1. t \in S \/ P[t] \in Terminal
    BY <1>3, <1>4
  <2>2. E(S \cup {t}) = E(S) /\ F(S \cup {t}) = F(S)
    BY <2>1
  <2> HIDE DEF E, F
  <2>3. QED BY <1>1, <1>2, <1>4, <2>2
<1>5. CASE E(S)[t] \notin Terminal
  <2>1. t \notin S /\ P[t] \notin Terminal
    BY <1>3, <1>5 DEF Terminal
  <2>2. E(S \cup {t}) = [E(S) EXCEPT ![t] = "cancelled"]
    BY <2>1
  <2>3. F(S \cup {t}) = F(S) \cup {t}
    BY <2>1
  <2>4. Without(Without(q, F(S)), {t}) = Without(q, F(S) \cup {t})
    BY WithoutTwice
  <2> HIDE DEF E, F
  <2>5. Entered(x, t, "cancelled", Without(x.queue, {t})) =
          [phase |-> [x.phase EXCEPT ![t] = "cancelled"],
           queue |-> Without(x.queue, {t}), mail |-> x.mail]
    BY DEF Entered
  <2>6. QED BY <1>1, <1>2, <1>5, <2>2, <2>3, <2>4, <2>5
<1>6. QED BY <1>4, <1>5

\* Reading that the tasks of w were cancelled, of which some may have ended.
LEMMA LearnCancelled ==
  ASSUME NEW P \in [Task -> TaskState \cup {"queued", "parked", None}],
         NEW q \in Seq(Task), NEW m, NEW w \in Seq(Task)
  PROVE  LearnAll(Knowledge(P, q, m), [i \in DOMAIN w |-> About("cancelled", w[i])]) =
           Cancelled(P, q, m, Elems(w))
<1> DEFINE s == [i \in DOMAIN w |-> About("cancelled", w[i])]
           r == Knowledge(P, q, m)
           Upto(n) == {w[i] : i \in 1 .. n}
<1>1. PICK k \in Nat : Len(w) = k /\ DOMAIN w = 1 .. k /\ \A i \in 1 .. k : w[i] \in Task
  BY LenProperties, ElementOfSeq
<1>2. Len(s) = k /\ \A i \in 1 .. k : s[i] = About("cancelled", w[i])
  BY <1>1
<1> HIDE DEF s
<1>3. PICK f : /\ f[0] = r
               /\ \A i \in 1 .. k : f[i] = Learn(f[i - 1], s[i])
               /\ LearnAll(r, s) = f[k]
  <2>1. Len(s) \in Nat
    BY <1>2
  <2>2. PICK f : /\ f[0] = r
                 /\ \A i \in 1 .. Len(s) : f[i] = Learn(f[i - 1], s[i])
                 /\ LearnAll(r, s) = f[Len(s)]
    BY <2>1, LearnSteps
  <2>3. QED BY <1>2, <2>2
<1> DEFINE Bad == {n \in Nat : n <= k /\ f[n] # Cancelled(P, q, m, Upto(n))}
<1>4. Bad = {}
  <2>1. SUFFICES ASSUME Bad # {} PROVE FALSE
    OBVIOUS
  <2>2. PICK n \in Bad : \A j \in Bad : n <= j
    <3>1. Bad \in SUBSET Nat
      OBVIOUS
    <3>2. QED BY <2>1, <3>1, LeastNat
  <2>3. n \in Nat /\ n <= k
    BY <2>2
  <2>4. CASE n = 0
    <3>1. Upto(0) = {}
      OBVIOUS
    <3>2. Without(q, {}) = q
      BY WithoutNone
    <3>3. Cancelled(P, q, m, {}) = r
      <4>1. /\ {t \in {} : P[t] \notin Terminal} = {}
            /\ [t \in Task |-> IF t \in {} /\ P[t] \notin Terminal THEN "cancelled" ELSE P[t]] = P
        OBVIOUS
      <4>2. QED BY <3>2, <4>1 DEF Cancelled
    <3>4. QED BY <1>3, <2>2, <2>4, <3>1, <3>3
  <2>5. CASE n # 0
    <3>1. n - 1 \in Nat /\ ~ (n <= n - 1) /\ n \in 1 .. k /\ n - 1 <= k
      BY <2>3, <2>5
    <3>2. f[n - 1] = Cancelled(P, q, m, Upto(n - 1))
      BY <2>2, <3>1
    <3>3. Upto(n - 1) \in SUBSET Task /\ w[n] \in Task /\ Upto(n) = Upto(n - 1) \cup {w[n]}
      <4>1. \A i \in 1 .. n : i \in 1 .. n - 1 \/ i = n
        BY <3>1
      <4>2. \A i \in 1 .. n - 1 : i \in 1 .. n /\ i \in 1 .. k
        BY <3>1, <2>3
      <4>3. n \in 1 .. n
        BY <3>1
      <4>4. QED BY <1>1, <3>1, <4>1, <4>2, <4>3
    <3> HIDE DEF Upto
    <3>4. f[n] = Learn(Cancelled(P, q, m, Upto(n - 1)), About("cancelled", w[n]))
      BY <1>2, <1>3, <3>1, <3>2
    <3>5. f[n] = Cancelled(P, q, m, Upto(n))
      BY <3>3, <3>4, CancelledOneMore
    <3>6. QED BY <2>2, <3>5
  <2>6. QED BY <2>4, <2>5
<1>5. f[k] = Cancelled(P, q, m, Upto(k))
  <2> HIDE DEF Upto
  <2>1. k \notin Bad /\ k <= k
    BY <1>4
  <2>2. QED BY <2>1
<1>6. Upto(k) = Elems(w)
  BY <1>1 DEF Elems
<1>7. QED BY <1>3, <1>5, <1>6 DEF s

-----------------------------------------------------------------------------
(* What is to be known in a state. *)

\* The phase of a task that is in the state st.
PhaseOf(st) ==
  CASE st \in Runnable                    -> "queued"
    [] st \in {"waiting", "waitingTimed"} -> "parked"
    [] OTHER                              -> st

PhasesNow == [t \in Task |-> PhaseOf(taskState[t])]
IdsOf(mb) == IF mb = None THEN << >> ELSE [i \in DOMAIN mb |-> mb[i].occurrence]
IdsNow    == [a \in Actor |-> IdsOf(mailboxes[a])]
Told      == Knowledge(PhasesNow, readyQ, IdsNow)

\* A reader who is told has the ledger right.
LEMMA ToldReplays ==
  ASSUME replay = Told
  PROVE  LedgerReplays
<1>1. /\ replay.phase = PhasesNow /\ replay.queue = readyQ /\ replay.mail = IdsNow
  BY DEF Told, Knowledge
<1>2. \A t \in Task : PhasesNow[t] = Phase(t)
  BY DEF PhasesNow, PhaseOf, Phase
<1>3. \A a \in Actor : mailboxes[a] # None =>
        IdsNow[a] = [i \in DOMAIN mailboxes[a] |-> mailboxes[a][i].occurrence]
  BY DEF IdsNow, IdsOf
<1>4. QED BY <1>1, <1>2, <1>3 DEF LedgerReplays

\* The names of the phases.
LEMMA PhaseNames ==
  /\ \A st \in Runnable : PhaseOf(st) = "queued"
  /\ \A st \in Terminal \cup {"running", "sleeping"} : PhaseOf(st) = st
  /\ PhaseOf("waiting") = "parked" /\ PhaseOf("waitingTimed") = "parked"
  BY DEF PhaseOf, Runnable, Terminal

\* Types of what is known.
LEMMA ToldTypes ==
  ASSUME TypeOK
  PROVE  PhasesNow \in [Task -> TaskState \cup {"queued", "parked", None}]
  BY DEF TypeOK, PhasesNow, PhaseOf

\* One task moves, the queue is q, no mailbox changes its messages.
LEMMA ToldOne ==
  ASSUME TypeOK, NEW t \in Task, NEW st, taskState' = [taskState EXCEPT ![t] = st],
         IdsNow' = IdsNow
  PROVE  Told' = Entered(Told, t, PhaseOf(st), readyQ')
<1>1. PhasesNow' = [PhasesNow EXCEPT ![t] = PhaseOf(st)]
  <2>1. \A u \in Task : taskState'[u] = IF u = t THEN st ELSE taskState[u]
    BY DEF TypeOK
  <2>2. PhasesNow' = [u \in Task |-> PhaseOf(taskState'[u])]
    BY DEF PhasesNow
  <2>3. \A u \in Task : PhasesNow[u] = PhaseOf(taskState[u])
    BY DEF PhasesNow
  <2>4. PhasesNow = [u \in Task |-> PhasesNow[u]]
    BY DEF PhasesNow
  <2>5. [PhasesNow EXCEPT ![t] = PhaseOf(st)] =
          [u \in Task |-> IF u = t THEN PhaseOf(st) ELSE PhasesNow[u]]
    BY <2>4
  <2>6. QED BY <2>1, <2>2, <2>3, <2>5
<1>2. QED BY <1>1 DEF Told, Knowledge, Entered

\* The messages in the mailboxes are the same.
LEMMA SameIds ==
  ASSUME UNCHANGED mailboxes
  PROVE  IdsNow' = IdsNow
  BY DEF IdsNow

-----------------------------------------------------------------------------
(* What each operation reports, and what that tells. *)

\* The operands of the operations (RuntimeOp, Op.lean).
LEMMA Operands ==
  ASSUME NEW op \in Operation
  PROVE  /\ op.kind \in {"yield", "complete", "cancel", "cancelTree", "fail", "wake",
                         "receive", "acquire", "receiveFrom", "receiveByOccurrence",
                         "receiveUntil", "spawnChild", "send", "sleep", "restartOne",
                         "release"} => op.task \in Task
         /\ op.kind \in {"spawn", "spawnChild", "restartOne", "send", "inject",
                         "receiveFrom", "closeActor", "acquireActor", "releaseActor"}
              => op.actor \in Actor
         /\ op.kind = "tick" => op.time \in Deadline
         /\ op.kind = "restartOne" => op.failed \in Task
         /\ op.kind \in {"sleep", "receiveUntil"} => op.deadline \in Deadline
         /\ op.kind = "receiveByOccurrence" => op.occurrence \in Message
         /\ op.kind \in {"release", "releaseActor", "finalize"} => op.resource \in Resource
  BY DEF Operation

\* spawn, spawnChild and restartOne: the new task is queued.
LEMMA CreationTold ==
  ASSUME TypeOK, NEW op \in Operation, op.kind \in {"spawn", "spawnChild", "restartOne"},
         Step(op)
  PROVE  LearnAll(Told, TraceEvents(op)) = Told'
<1>1. /\ TraceGuard(op)
      /\ op.actor \in Actor
      /\ \E p, r : NewTask(op.actor, p, r)
  <2>1. CASE op.kind = "spawn"
    <3>1. Spawn(op.actor)
      BY <2>1 DEF Step
    <3>2. NewTask(op.actor, None, None)
      BY <3>1 DEF Spawn
    <3>3. TraceGuard(op)
      BY <2>1, <3>2 DEF TraceGuard, NewTask
    <3>4. QED BY <2>1, <3>2, <3>3, Operands
  <2>2. CASE op.kind = "spawnChild"
    <3>1. SpawnChild(op.task, op.actor)
      BY <2>2 DEF Step
    <3>2. NewTask(op.actor, op.task, None)
      BY <3>1 DEF SpawnChild
    <3>3. TraceGuard(op)
      BY <2>2, <3>1, <3>2 DEF TraceGuard, NewTask, SpawnChild
    <3>4. QED BY <2>2, <3>2, <3>3, Operands
  <2>3. CASE op.kind = "restartOne"
    <3>1. RestartOne(op.task, op.failed, op.actor)
      BY <2>3 DEF Step
    <3>2. NewTask(op.actor, op.task, op.failed)
      BY <3>1 DEF RestartOne
    <3>3. TraceGuard(op)
      BY <2>3, <3>1, <3>2 DEF TraceGuard, NewTask, RestartOne, RestartGuard
    <3>4. QED BY <2>3, <3>2, <3>3, Operands
  <2>4. QED BY <2>1, <2>2, <2>3
<1>2. /\ nextId \in Task /\ taskState' = [taskState EXCEPT ![nextId] = "new"]
      /\ readyQ' = Append(readyQ, nextId) /\ mailboxes' = WithMailbox(op.actor)
  BY <1>1, BoundsAssumption DEF NewTask, TypeOK, Task
<1>3. IdsNow' = IdsNow
  <2>1. \A a \in Actor : mailboxes'[a] = mailboxes[a] \/ (mailboxes[a] = None /\ mailboxes'[a] = << >>)
    BY <1>1, <1>2 DEF WithMailbox, TypeOK
  <2>2. IdsOf(None) = << >> /\ IdsOf(<< >>) = << >>
    BY DEF IdsOf
  <2>3. \A a \in Actor : IdsOf(mailboxes'[a]) = IdsOf(mailboxes[a])
    BY <2>1, <2>2
  <2>4. QED BY <2>3 DEF IdsNow
<1>4. TraceEvents(op) = << About("spawned", nextId) >>
  BY <1>1 DEF TraceEvents
<1>5. LearnAll(Told, TraceEvents(op)) = Entered(Told, nextId, "queued", Append(readyQ, nextId))
  <2>1. Told.queue = readyQ
    BY DEF Told, Knowledge
  <2>2. Learn(Told, About("spawned", nextId)) = Entered(Told, nextId, "queued", Append(readyQ, nextId))
    BY <2>1, LearnKinds
  <2>3. QED BY <1>4, <2>2, LearnOne
<1>6. PhaseOf("new") = "queued"
  BY PhaseNames DEF Runnable
<1>7. Told' = Entered(Told, nextId, PhaseOf("new"), readyQ')
  BY <1>2, <1>3, ToldOne
<1>8. QED BY <1>2, <1>5, <1>6, <1>7

\* schedule: the head leaves the queue, where it was once.
LEMMA ScheduleTold ==
  ASSUME IInv, NEW op \in Operation, op.kind = "schedule", Step(op)
  PROVE  LearnAll(Told, TraceEvents(op)) = Told'
<1> DEFINE t == Head(readyQ)
<1>1. Schedule
  BY DEF Step
<1>2. /\ TraceGuard(op) /\ t \in Task /\ UNCHANGED mailboxes
      /\ taskState' = [taskState EXCEPT ![t] = "running"] /\ readyQ' = Without(readyQ, {t})
  <2>1. /\ CanDispatch(readyQ) /\ readyQ' = Tail(readyQ) /\ readyQ # << >>
        /\ taskState' = [taskState EXCEPT ![t] = "running"] /\ UNCHANGED mailboxes
    BY <1>1 DEF Schedule, Dispatch, CanDispatch, mailVars
  <2>2. Without(readyQ, {t}) = Tail(readyQ)
    BY <2>1, WithoutHead DEF IInv, TypeOK, QueueExact
  <2>3. t \in Task
    BY <2>1, HeadIsRunnable
  <2>4. TraceGuard(op)
    BY <2>1 DEF TraceGuard
  <2>5. QED BY <2>1, <2>2, <2>3, <2>4
<1>3. TraceEvents(op) = << About("scheduled", t) >>
  BY <1>2 DEF TraceEvents
<1> HIDE DEF t
<1>4. LearnAll(Told, TraceEvents(op)) = Entered(Told, t, "running", Without(readyQ, {t}))
  <2>1. Told.queue = readyQ
    BY DEF Told, Knowledge
  <2>2. Learn(Told, About("scheduled", t)) = Entered(Told, t, "running", Without(readyQ, {t}))
    BY <2>1, LearnKinds
  <2>3. QED BY <1>3, <2>2, LearnOne
<1>5. TypeOK /\ PhaseOf("running") = "running"
  BY PhaseNames DEF IInv
<1>6. Told' = Entered(Told, t, PhaseOf("running"), readyQ')
  BY <1>2, <1>5, SameIds, ToldOne
<1>7. QED BY <1>2, <1>4, <1>5, <1>6

\* yield and wake: the task is queued again.
LEMMA QueuedTold ==
  ASSUME IInv, NEW op \in Operation, op.kind \in {"yield", "wake"}, Step(op)
  PROVE  LearnAll(Told, TraceEvents(op)) = Told'
<1> DEFINE t == op.task
<1>1. t \in Task
  BY Operands
<1>2. PICK st \in Runnable, kind \in {"yielded", "woken"} :
        /\ TraceEvents(op) = << About(kind, t) >> /\ UNCHANGED mailboxes
        /\ taskState' = [taskState EXCEPT ![t] = st] /\ readyQ' = Append(readyQ, t)
  <2>1. CASE op.kind = "yield"
    <3>1. Yield(t)
      BY <2>1 DEF Step
    <3>2. TraceEvents(op) = << About("yielded", t) >>
      BY <2>1, <3>1 DEF TraceEvents, TraceGuard, Yield
    <3>3. QED BY <3>1, <3>2 DEF Yield, mailVars, Runnable
  <2>2. CASE op.kind = "wake"
    <3>1. Wake(t)
      BY <2>2 DEF Step
    <3>2. TraceEvents(op) = << About("woken", t) >>
      BY <2>2, <3>1 DEF TraceEvents, TraceGuard, Wake
    <3>3. QED BY <3>1, <3>2 DEF Wake, mailVars, Runnable
  <2>3. QED BY <2>1, <2>2
<1> HIDE DEF t
<1>3. LearnAll(Told, TraceEvents(op)) = Entered(Told, t, "queued", Append(readyQ, t))
  <2>1. Told.queue = readyQ
    BY DEF Told, Knowledge
  <2>2. Learn(Told, About(kind, t)) = Entered(Told, t, "queued", Append(readyQ, t))
    BY <2>1, LearnKinds
  <2>3. QED BY <1>2, <2>2, LearnOne
<1>4. TypeOK /\ PhaseOf(st) = "queued"
  BY PhaseNames DEF IInv
<1>5. Told' = Entered(Told, t, PhaseOf(st), readyQ')
  BY <1>1, <1>2, <1>4, SameIds, ToldOne
<1>6. QED BY <1>2, <1>3, <1>4, <1>5

\* sleep: the task leaves the processor, and was in no queue.
LEMMA SleepTold ==
  ASSUME IInv, NEW op \in Operation, op.kind = "sleep", Step(op)
  PROVE  LearnAll(Told, TraceEvents(op)) = Told'
<1> DEFINE t == op.task
<1>1. t \in Task /\ Sleep(t, op.deadline)
  BY Operands DEF Step
<1>2. TraceEvents(op) = << About("sleeping", t) >>
  BY <1>1 DEF TraceEvents, TraceGuard, Sleep
<1>3. /\ taskState' = [taskState EXCEPT ![t] = "sleeping"] /\ readyQ' = readyQ
      /\ UNCHANGED mailboxes
  BY <1>1 DEF Sleep, mailVars
<1> HIDE DEF t
<1>4. LearnAll(Told, TraceEvents(op)) = Entered(Told, t, "sleeping", readyQ)
  <2>1. Told.queue = readyQ
    BY DEF Told, Knowledge
  <2>2. Learn(Told, About("sleeping", t)) = Entered(Told, t, "sleeping", readyQ)
    BY <2>1, LearnKinds
  <2>3. QED BY <1>2, <2>2, LearnOne
<1>5. TypeOK /\ PhaseOf("sleeping") = "sleeping"
  BY PhaseNames DEF IInv
<1>6. Told' = Entered(Told, t, PhaseOf("sleeping"), readyQ')
  BY <1>1, <1>3, <1>5, SameIds, ToldOne
<1>7. QED BY <1>3, <1>4, <1>5, <1>6

\* The tasks that have ended are known to have ended, and are in no queue.
LEMMA EndedKnown ==
  ASSUME IInv
  PROVE  /\ \A t \in Task : PhasesNow[t] \in Terminal <=> taskState[t] \in Terminal
         /\ \A t \in Elems(readyQ) : t \in Task /\ taskState[t] \in Runnable
         /\ readyQ \in Seq(Task) /\ TypeOK
<1>1. \A t \in Task : taskState[t] \in TaskState \cup {None}
  BY DEF IInv, TypeOK
<1>2. None \notin Terminal
  BY AbsentAssumption DEF TaskState
<1>3. \A st \in TaskState \cup {None} : PhaseOf(st) \in Terminal <=> st \in Terminal
  BY <1>2 DEF PhaseOf, Terminal, Runnable, Parked, TaskState
<1>4. \A t \in Task : PhasesNow[t] = PhaseOf(taskState[t])
  BY DEF PhasesNow
<1>5. QED BY <1>1, <1>3, <1>4 DEF IInv, QueueExact, TypeOK

\* complete and fail: the task ends and is in no queue any more.
LEMMA EndTold ==
  ASSUME IInv, NEW op \in Operation, op.kind \in {"complete", "fail"}, Step(op)
  PROVE  LearnAll(Told, TraceEvents(op)) = Told'
<1> DEFINE t == op.task
<1>1. t \in Task
  BY Operands
<1>2. PICK st \in Terminal :
        /\ TraceEvents(op) = << About(st, t) >> /\ UNCHANGED mailboxes
        /\ taskState' = [taskState EXCEPT ![t] = st] /\ readyQ' = Without(readyQ, {t})
        /\ taskState[t] \notin Terminal
  <2>1. CASE op.kind = "complete"
    <3>1. Complete(t)
      BY <2>1 DEF Step
    <3>2. TraceEvents(op) = << About("completed", t) >>
      BY <2>1, <3>1 DEF TraceEvents, TraceGuard, Complete
    <3>3. taskState[t] = "running"
      BY <3>1 DEF Complete, IsRunning
    <3>4. Without(readyQ, {t}) = readyQ
      <4>1. t \notin Elems(readyQ)
        BY <3>3, EndedKnown DEF Runnable
      <4>2. Elems(readyQ) \cap {t} = {}
        BY <4>1
      <4>3. QED BY <4>2, EndedKnown, WithoutNone
    <3>5. QED BY <3>1, <3>2, <3>3, <3>4 DEF Complete, mailVars, Terminal
  <2>2. CASE op.kind = "fail"
    <3>1. Terminate(t, "failed")
      BY <2>2 DEF Step, Fail
    <3>2. TraceEvents(op) = << About("failed", t) >>
      BY <2>2, <3>1 DEF TraceEvents, TraceGuard, Terminate
    <3>3. taskState[t] \notin Terminal
      BY <3>1 DEF Terminate, Live
    <3>4. "failed" \in Terminal
      BY DEF Terminal
    <3>5. QED BY <3>1, <3>2, <3>3, <3>4 DEF Terminate, mailVars
  <2>3. QED BY <2>1, <2>2
<1> HIDE DEF t
<1>3. LearnAll(Told, TraceEvents(op)) = Entered(Told, t, st, Without(readyQ, {t}))
  <2>1. Told.queue = readyQ /\ Told.phase = PhasesNow
    BY DEF Told, Knowledge
  <2>2. Told.phase[t] \notin Terminal
    BY <1>1, <1>2, <2>1, EndedKnown
  <2>3. Learn(Told, About(st, t)) = Entered(Told, t, st, Without(readyQ, {t}))
    BY <2>1, <2>2, LearnEnd
  <2>4. QED BY <1>2, <2>3, LearnOne
<1>4. TypeOK /\ PhaseOf(st) = st
  BY PhaseNames DEF IInv
<1>5. Told' = Entered(Told, t, PhaseOf(st), readyQ')
  BY <1>1, <1>2, <1>4, SameIds, ToldOne
<1>6. QED BY <1>2, <1>3, <1>4, <1>5

\* The tasks that cancel and cancelTree report, and what becomes of them.
LEMMA CancelReports ==
  ASSUME IInv, NEW op \in Operation, op.kind \in {"cancel", "cancelTree"}, Step(op)
  PROVE  /\ TasksToEnd(op) \in Seq(Task)
         /\ TraceEvents(op) = [i \in DOMAIN TasksToEnd(op) |-> About("cancelled", TasksToEnd(op)[i])]
         /\ \A t \in Task : taskState'[t] =
              IF t \in Elems(TasksToEnd(op)) /\ taskState[t] \notin Terminal
              THEN "cancelled" ELSE taskState[t]
         /\ readyQ' = Without(readyQ, Elems(TasksToEnd(op)))
         /\ UNCHANGED mailboxes
<1>0. op.task \in Task
  BY Operands
<1>1. CASE op.kind = "cancel"
  <2>1. Terminate(op.task, "cancelled")
    BY <1>1 DEF Step, Cancel
  <2>2. TasksToEnd(op) = << op.task >> /\ Elems(<< op.task >>) = {op.task}
    BY <1>1 DEF TasksToEnd, Elems
  <2>3. TraceEvents(op) = [i \in DOMAIN TasksToEnd(op) |-> About("cancelled", TasksToEnd(op)[i])]
    BY <1>1, <2>1 DEF TraceEvents, TraceGuard, Terminate
  <2>4. \A t \in Task : taskState'[t] =
          IF t \in {op.task} /\ taskState[t] \notin Terminal THEN "cancelled" ELSE taskState[t]
    BY <1>0, <2>1 DEF Terminate, Live, IInv, TypeOK
  <2>5. readyQ' = Without(readyQ, {op.task}) /\ UNCHANGED mailboxes
    BY <2>1 DEF Terminate, mailVars
  <2>6. << op.task >> \in Seq(Task)
    BY <1>0
  <2>7. QED BY <2>2, <2>3, <2>4, <2>5, <2>6
<1>2. CASE op.kind = "cancelTree"
  <2> DEFINE D   == DescendantsOf(op.task)
             ids == [i \in 1 .. nextId |-> i - 1]
  <2>1. CancelTree(op.task)
    BY <1>2 DEF Step
  <2>2. TasksToEnd(op) = Only(ids, D)
    BY <1>2 DEF TasksToEnd
  <2>3. TraceEvents(op) = [i \in DOMAIN TasksToEnd(op) |-> About("cancelled", TasksToEnd(op)[i])]
    BY <1>2 DEF TraceEvents, TraceGuard
  <2>4. D \subseteq {t \in Task : t < nextId /\ taskState[t] # None}
    BY DEF DescendantsOf
  <2>5. /\ readyQ' = Without(readyQ, D) /\ UNCHANGED mailboxes
        /\ \A t \in Task : taskState'[t] =
             IF t \in D /\ Live(t) THEN "cancelled" ELSE taskState[t]
    BY <2>1 DEF CancelTree, mailVars
  <2> HIDE DEF D
  <2>6. PICK n \in Nat : n = nextId /\ n <= MaxTask
    BY BoundsAssumption DEF IInv, TypeOK
  <2>7. ids \in Seq(Task) /\ Len(ids) = n
    BY <2>6, BoundsAssumption DEF Task
  <2>8. D \subseteq Elems(ids)
    <3>1. ASSUME NEW t \in D PROVE t \in Elems(ids)
      <4>1. t \in Nat /\ t < n
        BY <2>4, <2>6, BoundsAssumption DEF Task
      <4>2. t + 1 \in 1 .. Len(ids) /\ ids[t + 1] = t
        BY <2>6, <2>7, <4>1
      <4>3. QED BY <4>2 DEF Elems
    <3>2. QED BY <3>1
  <2> HIDE DEF ids
  <2>9. Only(ids, D) \in Seq(Task) /\ Elems(Only(ids, D)) = D
    <3>1. Only(ids, D) \in Seq(Task) /\ Elems(Only(ids, D)) = Elems(ids) \cap D
      BY <2>7, OnlyProperties
    <3>2. QED BY <2>8, <3>1
  <2>10. \A t \in D : Live(t) <=> taskState[t] \notin Terminal
    BY <2>4 DEF Live
  <2>11. \A t \in Task : taskState'[t] =
             IF t \in D /\ taskState[t] \notin Terminal THEN "cancelled" ELSE taskState[t]
    BY <2>5, <2>10
  <2>12. QED BY <2>2, <2>3, <2>5, <2>9, <2>11
<1>3. QED BY <1>1, <1>2

\* cancel and cancelTree: of the tasks that are reported some may have ended before.
LEMMA CancelTold ==
  ASSUME IInv, NEW op \in Operation, op.kind \in {"cancel", "cancelTree"}, Step(op)
  PROVE  LearnAll(Told, TraceEvents(op)) = Told'
<1> DEFINE w == TasksToEnd(op)
           S == Elems(w)
<1>1. /\ w \in Seq(Task)
      /\ TraceEvents(op) = [i \in DOMAIN w |-> About("cancelled", w[i])]
      /\ \A t \in Task : taskState'[t] =
           IF t \in S /\ taskState[t] \notin Terminal THEN "cancelled" ELSE taskState[t]
      /\ readyQ' = Without(readyQ, S)
      /\ UNCHANGED mailboxes
  BY CancelReports
<1> HIDE DEF w
<1>2. LearnAll(Told, TraceEvents(op)) = Cancelled(PhasesNow, readyQ, IdsNow, S)
  BY <1>1, LearnCancelled, ToldTypes, EndedKnown DEF Told
<1>3. {t \in S : PhasesNow[t] \notin Terminal} \cap Elems(readyQ) = S \cap Elems(readyQ)
  <2>1. Terminal \cap Runnable = {}
    BY DEF Terminal, Runnable
  <2>2. QED BY <2>1, EndedKnown
<1>4. Without(readyQ, {t \in S : PhasesNow[t] \notin Terminal}) = Without(readyQ, S)
  BY <1>3, EndedKnown, WithoutSame
<1>5. PhasesNow' =
        [t \in Task |-> IF t \in S /\ PhasesNow[t] \notin Terminal
                        THEN "cancelled" ELSE PhasesNow[t]]
  <2>1. PhasesNow' = [t \in Task |-> PhaseOf(taskState'[t])]
    BY DEF PhasesNow
  <2>2. \A t \in Task : PhasesNow[t] = PhaseOf(taskState[t])
    BY DEF PhasesNow
  <2>3. PhaseOf("cancelled") = "cancelled"
    BY PhaseNames DEF Terminal
  <2>4. \A t \in Task : PhaseOf(taskState'[t]) =
          IF t \in S /\ PhasesNow[t] \notin Terminal THEN "cancelled" ELSE PhasesNow[t]
    BY <1>1, <2>2, <2>3, EndedKnown
  <2>5. QED BY <2>1, <2>4
<1>6. IdsNow' = IdsNow
  BY <1>1, SameIds
<1>7. Told' = Knowledge(PhasesNow', Without(readyQ, S), IdsNow)
  BY <1>1, <1>6 DEF Told
<1>8. QED BY <1>2, <1>4, <1>5, <1>7 DEF Cancelled

\* tick: the tasks whose timers are due are queued, in the order of the report.
LEMMA TickTold ==
  ASSUME IInv, NEW op \in Operation, op.kind = "tick", Step(op)
  PROVE  LearnAll(Told, TraceEvents(op)) = Told'
<1> DEFINE w       == TasksToWake(op.time)
           expired == TasksOf(Expired(timers, op.time))
<1>1. op.time \in Deadline /\ Tick(op.time)
  BY Operands DEF Step
<1>2. TraceEvents(op) = [i \in DOMAIN w |-> About("woken", w[i])]
  BY <1>1 DEF TraceEvents, TraceGuard, Tick
<1>3. w \in Seq(Task)
  <2>1. expired \in Seq(Task)
    BY TimerListTypes DEF IInv, TypeOK
  <2> HIDE DEF expired
  <2>2. \A R : Only(expired, R) \in Seq(Task)
    BY <2>1, TaskListTypes
  <2>3. w = Only(expired, {u \in Task : taskState[u] = "sleeping"})
              \o Only(expired, {u \in Task : taskState[u] = "waitingTimed"})
    BY DEF TasksToWake, expired
  <2>4. QED BY <2>2, <2>3, ConcatProperties
<1>4. /\ taskState' = [u \in Task |-> IF u \in Elems(w) THEN "ready" ELSE taskState[u]]
      /\ readyQ' = readyQ \o w
      /\ UNCHANGED mailboxes
  BY <1>1 DEF Tick, TasksToWake, mailVars
<1> HIDE DEF w, expired
<1>5. LearnAll(Told, TraceEvents(op)) =
        Knowledge([t \in Task |-> IF t \in Elems(w) THEN "queued" ELSE PhasesNow[t]],
                  readyQ \o w, IdsNow)
  <2>1. /\ PhasesNow \in [Task -> TaskState \cup {"queued", "parked", None}]
        /\ readyQ \in Seq(Task)
    BY EndedKnown, ToldTypes
  <2>2. LearnAll(Knowledge(PhasesNow, readyQ, IdsNow), [i \in DOMAIN w |-> About("woken", w[i])]) =
          Knowledge([t \in Task |-> IF t \in Elems(w) THEN "queued" ELSE PhasesNow[t]],
                    readyQ \o w, IdsNow)
    BY <1>3, <2>1, LearnWoken
  <2>3. QED BY <1>2, <2>2 DEF Told
<1>6. PhasesNow' = [t \in Task |-> IF t \in Elems(w) THEN "queued" ELSE PhasesNow[t]]
  <2>1. PhasesNow' = [t \in Task |-> PhaseOf(taskState'[t])]
    BY DEF PhasesNow
  <2>2. \A t \in Task : PhasesNow[t] = PhaseOf(taskState[t])
    BY DEF PhasesNow
  <2>3. PhaseOf("ready") = "queued"
    BY PhaseNames DEF Runnable
  <2>4. QED BY <1>4, <2>1, <2>2, <2>3
<1>7. IdsNow' = IdsNow
  BY <1>4, SameIds
<1>8. Told' = Knowledge(PhasesNow', readyQ \o w, IdsNow)
  BY <1>4, <1>7 DEF Told
<1>9. QED BY <1>5, <1>6, <1>8

-----------------------------------------------------------------------------
(* Messages. *)

\* The waiter a delivery wakes is the one the report names (wakeOne and
\* traceEvents look at the same queues).
LEMMA WaiterIs ==
  ASSUME TypeOK, NEW b \in Actor
  PROVE  WaiterToWake(b) =
           IF mailboxWaiters[b] # << >> THEN << Head(mailboxWaiters[b]) >>
           ELSE IF timedMailboxWaiters[b] # << >> THEN << Head(timedMailboxWaiters[b]) >>
           ELSE << >>
<1> DEFINE m == mailboxWaiters[b]
           t == timedMailboxWaiters[b]
           u == m \o t
<1>1. m \in Seq(Task) /\ t \in Seq(Task)
  BY DEF TypeOK
<1>2. WaiterToWake(b) = SubSeq(u, 1, IF u = << >> THEN 0 ELSE 1)
  BY DEF WaiterToWake
<1> HIDE DEF m, t
<1>3. PICK i, j \in Nat : Len(m) = i /\ Len(t) = j
  BY <1>1, LenProperties
<1>4. /\ u \in Seq(Task) /\ Len(u) = i + j
      /\ \A k \in 1 .. i + j : u[k] = IF k <= i THEN m[k] ELSE t[k - i]
  BY <1>1, <1>3, ConcatProperties
<1>5. /\ (m # << >> <=> i > 0) /\ (t # << >> <=> j > 0) /\ (u # << >> <=> i + j > 0)
      /\ (m # << >> => Head(m) = m[1]) /\ (t # << >> => Head(t) = t[1])
  BY <1>1, <1>3, <1>4, EmptySeq, HeadTailProperties
<1> HIDE DEF u
<1>6. CASE u = << >>
  <2>1. SubSeq(u, 1, 0) = << >>
    BY <1>6
  <2>2. m = << >> /\ t = << >>
    BY <1>5, <1>6
  <2>3. QED BY <1>2, <1>6, <2>1, <2>2 DEF m, t
<1>7. CASE u # << >>
  <2>1. SubSeq(u, 1, 1) = << u[1] >>
    <3>1. 1 \in 1 .. Len(u) /\ u[1] \in Task
      BY <1>4, <1>5, <1>7, ElementOfSeq
    <3>2. SubSeq(u, 1, 1) \in Seq(Task) /\ Len(SubSeq(u, 1, 1)) = 1 /\ SubSeq(u, 1, 1)[1] = u[1]
      <4>1. \A k \in 1 .. 1 : u[k] \in Task
        BY <3>1
      <4>2. /\ SubSeq(u, 1, 1) \in Seq(Task) /\ Len(SubSeq(u, 1, 1)) = 1
            /\ \A k \in 1 .. 1 : SubSeq(u, 1, 1)[k] = u[1 + k - 1]
        BY <4>1, SubSeqProperties
      <4>3. QED BY <4>2
    <3>3. << u[1] >> \in Seq(Task) /\ Len(<< u[1] >>) = 1 /\ << u[1] >>[1] = u[1]
      BY <3>1
    <3>4. \A k \in 1 .. Len(SubSeq(u, 1, 1)) : SubSeq(u, 1, 1)[k] = << u[1] >>[k]
      BY <3>2, <3>3
    <3>5. QED BY <3>2, <3>3, <3>4, SeqEqual
  <2>2. CASE m # << >>
    <3>1. u[1] = Head(m)
      BY <1>4, <1>5, <2>2
    <3>2. QED BY <1>2, <1>7, <2>1, <2>2, <3>1 DEF m
  <2>3. CASE m = << >>
    <3>1. t # << >> /\ u[1] = Head(t)
      BY <1>4, <1>5, <1>7, <2>3
    <3>2. QED BY <1>2, <1>7, <2>1, <2>3, <3>1 DEF m, t
  <2>4. QED BY <2>2, <2>3
<1>8. QED BY <1>6, <1>7

\* The ids of the messages of a mailbox.
LEMMA IdsOfMailbox ==
  ASSUME NEW mb \in Seq(Envelope)
  PROVE  /\ IdsOf(mb) \in Seq(Message) /\ Len(IdsOf(mb)) = Len(mb)
         /\ \A i \in 1 .. Len(mb) : IdsOf(mb)[i] = mb[i].occurrence
<1>1. mb # None
  BY AbsentAssumption
<1>2. PICK n \in Nat : Len(mb) = n /\ DOMAIN mb = 1 .. n /\ \A i \in 1 .. n : mb[i] \in Envelope
  BY LenProperties, ElementOfSeq
<1>3. IdsOf(mb) = [i \in 1 .. n |-> mb[i].occurrence]
  BY <1>1, <1>2 DEF IdsOf
<1>4. \A i \in 1 .. n : mb[i].occurrence \in Message
  BY <1>2 DEF Envelope
<1>5. QED BY <1>2, <1>3, <1>4

\* One more message, one more id.
LEMMA IdsAppended ==
  ASSUME NEW mb \in Seq(Envelope), NEW e \in Envelope
  PROVE  IdsOf(Append(mb, e)) = Append(IdsOf(mb), e.occurrence)
<1>1. PICK n \in Nat : Len(mb) = n
  BY LenProperties
<1>2. /\ Append(mb, e) \in Seq(Envelope) /\ Len(Append(mb, e)) = n + 1
      /\ \A i \in 1 .. n : Append(mb, e)[i] = mb[i]
      /\ Append(mb, e)[n + 1] = e
  BY <1>1, AppendProperties
<1>3. e.occurrence \in Message
  BY DEF Envelope
<1> DEFINE v == Append(mb, e)
           x == IdsOf(mb)
           o == e.occurrence
<1>4. /\ IdsOf(v) \in Seq(Message) /\ Len(IdsOf(v)) = n + 1
      /\ \A i \in 1 .. n + 1 : IdsOf(v)[i] = v[i].occurrence
  BY <1>2, IdsOfMailbox
<1>5. x \in Seq(Message) /\ Len(x) = n /\ \A i \in 1 .. n : x[i] = mb[i].occurrence
  BY <1>1, IdsOfMailbox
<1> HIDE DEF v, x, o
<1>6. /\ Append(x, o) \in Seq(Message) /\ Len(Append(x, o)) = n + 1
      /\ \A i \in 1 .. n : Append(x, o)[i] = x[i]
      /\ Append(x, o)[n + 1] = o
  BY <1>3, <1>5, AppendProperties DEF o
<1>7. ASSUME NEW i \in 1 .. n + 1 PROVE IdsOf(v)[i] = Append(x, o)[i]
  <2>1. CASE i \in 1 .. n
    BY <1>2, <1>4, <1>5, <1>6, <2>1 DEF v
  <2>2. CASE i = n + 1
    <3>1. IdsOf(v)[n + 1] = v[n + 1].occurrence
      BY <1>4
    <3>2. v[n + 1] = e
      BY <1>2 DEF v
    <3>3. IdsOf(v)[n + 1] = o
      BY <3>1, <3>2 DEF o
    <3>4. QED BY <1>6, <2>2, <3>3
  <2>3. i \in 1 .. n \/ i = n + 1
    OBVIOUS
  <2>4. QED BY <2>1, <2>2, <2>3
<1>8. IdsOf(v) = Append(x, o)
  BY <1>4, <1>6, <1>7, SeqEqual
<1>9. QED BY <1>8 DEF v, x, o

\* The place of the first wanted message is the one it is taken from.
LEMMA FirstInIs ==
  ASSUME NEW T, NEW q \in Seq(T), NEW S, NEW k \in 1 .. Len(q), q[k] \in S,
         \A j \in 1 .. k - 1 : q[j] \notin S
  PROVE  FirstIn(q, S) = k
<1> DEFINE i == FirstIn(q, S)
<1>1. i \in 1 .. Len(q) /\ q[i] \in S /\ \A j \in 1 .. i - 1 : q[j] \notin S
  BY DEF FirstIn
<1> HIDE DEF i
<1>2. PICK n \in Nat : Len(q) = n
  BY LenProperties
<1>3. ~ (i < k)
  BY <1>1, <1>2
<1>4. ~ (k < i)
  BY <1>1, <1>2
<1>5. i = k
  BY <1>1, <1>2, <1>3, <1>4
<1>6. QED BY <1>5 DEF i

\* Taking a message out filters its id.
LEMMA IdsTaken ==
  ASSUME NEW mb \in Seq(Envelope), Ordered(mb), NEW wanted, Elems(mb) \cap wanted # {}
  PROVE  /\ mb[FirstIn(mb, wanted)] \in Envelope
         /\ IdsOf(RemoveFirst(mb, wanted)) =
              Without(IdsOf(mb), {mb[FirstIn(mb, wanted)].occurrence})
<1> DEFINE v == RemoveFirst(mb, wanted)
           x == IdsOf(mb)
<1>1. PICK n \in Nat : Len(mb) = n
  BY LenProperties
<1>2. PICK k \in 1 .. Len(mb) :
        /\ mb[k] \in wanted /\ \A j \in 1 .. k - 1 : mb[j] \notin wanted
        /\ v \in Seq(Envelope) /\ Len(v) = Len(mb) - 1
        /\ \A i \in 1 .. Len(mb) - 1 : v[i] = IF i < k THEN mb[i] ELSE mb[i + 1]
  BY RemoveFirstProperties
<1>3. FirstIn(mb, wanted) = k /\ mb[k] \in Envelope
  BY <1>1, <1>2, FirstInIs, ElementOfSeq
<1> HIDE DEF v, x
<1>4. x \in Seq(Message) /\ Len(x) = n /\ \A i \in 1 .. n : x[i] = mb[i].occurrence
  BY <1>1, IdsOfMailbox DEF x
<1>5. /\ IdsOf(v) \in Seq(Message) /\ Len(IdsOf(v)) = n - 1
      /\ \A i \in 1 .. n - 1 : IdsOf(v)[i] = v[i].occurrence
  BY <1>1, <1>2, IdsOfMailbox
<1>6. NoDup(x)
  <2>1. \A i \in 1 .. n : x[i] \in Int
    BY <1>4, StateAssumption, ElementOfSeq DEF Message
  <2>2. \A i, j \in 1 .. n : i < j => x[i] < x[j]
    BY <1>1, <1>4 DEF Ordered
  <2>3. QED BY <1>4, <2>1, <2>2 DEF NoDup
<1>7. \A i \in 1 .. n - 1 : IdsOf(v)[i] = IF i < k THEN x[i] ELSE x[i + 1]
  <2>1. ASSUME NEW i \in 1 .. n - 1
        PROVE  IdsOf(v)[i] = IF i < k THEN x[i] ELSE x[i + 1]
    <3>1. i \in 1 .. n /\ i + 1 \in 1 .. n
      OBVIOUS
    <3>2. QED BY <1>1, <1>2, <1>4, <1>5, <3>1
  <2>2. QED BY <2>1
<1>8. Without(x, {x[k]}) = IdsOf(v)
  <2>1. k \in 1 .. Len(x) /\ Len(IdsOf(v)) = Len(x) - 1
    BY <1>1, <1>4, <1>5
  <2>2. \A i \in 1 .. Len(x) - 1 : IdsOf(v)[i] = IF i < k THEN x[i] ELSE x[i + 1]
    BY <1>4, <1>7
  <2>3. PICK y \in Seq(Message) : y = IdsOf(v)
    BY <1>5
  <2>4. Without(x, {x[k]}) = y
    BY <1>4, <1>6, <2>1, <2>2, <2>3, WithoutGap
  <2>5. QED BY <2>3, <2>4
<1>9. x[k] = mb[k].occurrence
  BY <1>1, <1>4
<1>10. QED BY <1>3, <1>8, <1>9 DEF v, x

\* Two events reported one after the other.
LEMMA TwoEvents ==
  ASSUME NEW d, NEW e
  PROVE  /\ << d >> \o << e >> = << d, e >>
         /\ << d >> \o << >> = << d >>
<1> DEFINE T == {d, e}
           v == << d >>
           w == << e >>
           u == << d, e >>
<1>1. v \in Seq(T) /\ Len(v) = 1 /\ v[1] = d
  OBVIOUS
<1>2. w \in Seq(T) /\ Len(w) = 1 /\ w[1] = e
  OBVIOUS
<1>3. u \in Seq(T) /\ Len(u) = 2 /\ u[1] = d /\ u[2] = e
  OBVIOUS
<1> HIDE DEF T, u, v, w
<1>4. v \o w \in Seq(T) /\ Len(v \o w) = 2 /\ (v \o w)[1] = d /\ (v \o w)[2] = e
  BY <1>1, <1>2, ConcatProperties
<1>5. v \o w = u
  BY <1>3, <1>4, SeqEqual
<1>6. v \o << >> = v
  BY <1>1, ConcatEmptySeq
<1>7. QED BY <1>5, <1>6 DEF u, v, w

\* send and inject: the message, and the one task that is woken for it.
LEMMA DeliveryTold ==
  ASSUME IInv, NEW op \in Operation, op.kind \in {"send", "inject"}, Step(op)
  PROVE  LearnAll(Told, TraceEvents(op)) = Told'
<1> DEFINE b == op.actor
           W == WaiterToWake(b)
           d == [kind |-> "delivered", actor |-> b, occurrence |-> nextMsgId]
           mid == Knowledge(PhasesNow, readyQ, IdsNow')
<1>0. TypeOK
  BY DEF IInv
<1>1. PICK src \in Actor \cup {None} : TraceEvents(op) = DeliveryEvents(b) /\ Deliver(b, src)
  <2>1. CASE op.kind = "send"
    <3>1. Send(op.task, b) /\ op.task \in Task
      BY <2>1, Operands DEF Step
    <3>2. TraceEvents(op) = DeliveryEvents(b)
      BY <2>1, <3>1 DEF TraceEvents, TraceGuard, Send, Deliver
    <3>3. QED BY <1>0, <3>1, <3>2 DEF Send, TypeOK
  <2>2. CASE op.kind = "inject"
    <3>1. Inject(b)
      BY <2>2 DEF Step
    <3>2. TraceEvents(op) = DeliveryEvents(b)
      BY <2>2, <3>1 DEF TraceEvents, TraceGuard, Inject, Deliver
    <3>3. QED BY <3>1, <3>2 DEF Inject
  <2>3. QED BY <2>1, <2>2
<1>2. b \in Actor
  BY Operands
<1>3. DeliveryEvents(b) = << d >> \o [i \in DOMAIN W |-> About("woken", W[i])]
  BY DEF DeliveryEvents
<1> HIDE DEF b
<1>4. IdsNow' = [IdsNow EXCEPT ![b] = Append(IdsNow[b], nextMsgId)]
  <2> DEFINE e == [occurrence |-> nextMsgId, source |-> src]
  <2>1. /\ mailboxes[b] \in Seq(Envelope) /\ e \in Envelope
        /\ mailboxes'[b] = Append(mailboxes[b], e)
        /\ \A a \in Actor \ {b} : mailboxes'[a] = mailboxes[a]
    BY <1>0, <1>1, <1>2, DeliveredMailbox
  <2>2. e.occurrence = nextMsgId
    OBVIOUS
  <2> HIDE DEF e
  <2>3. IdsOf(mailboxes'[b]) = Append(IdsOf(mailboxes[b]), nextMsgId)
    BY <2>1, <2>2, IdsAppended
  <2>4. \A a \in Actor : IdsNow[a] = IdsOf(mailboxes[a])
    BY DEF IdsNow
  <2>5. IdsNow' = [a \in Actor |-> IdsOf(mailboxes'[a])]
    BY DEF IdsNow
  <2>6. IdsNow = [a \in Actor |-> IdsNow[a]]
    BY DEF IdsNow
  <2>7. [IdsNow EXCEPT ![b] = Append(IdsNow[b], nextMsgId)] =
          [a \in Actor |-> IF a = b THEN Append(IdsNow[b], nextMsgId) ELSE IdsNow[a]]
    BY <2>6
  <2>8. QED BY <1>2, <2>1, <2>3, <2>4, <2>5, <2>7
<1>5. Learn(Told, d) = mid
  <2>1. Learn(Told, d) = Holding(Told, b, Append(Told.mail[b], nextMsgId))
    BY LearnDelivered
  <2>2. Told.phase = PhasesNow /\ Told.queue = readyQ /\ Told.mail = IdsNow
    BY DEF Told, Knowledge
  <2>3. Holding(Told, b, Append(Told.mail[b], nextMsgId)) =
          [phase |-> PhasesNow, queue |-> readyQ,
           mail |-> [IdsNow EXCEPT ![b] = Append(IdsNow[b], nextMsgId)]]
    BY <2>2 DEF Holding
  <2>4. mid = [phase |-> PhasesNow, queue |-> readyQ, mail |-> IdsNow']
    BY DEF Knowledge
  <2> HIDE DEF mid, d
  <2>5. QED BY <1>4, <2>1, <2>3, <2>4 DEF d
<1>6. mid.phase = PhasesNow /\ mid.queue = readyQ /\ mid.mail = IdsNow'
  BY DEF Knowledge
<1>7. Told' = Knowledge(PhasesNow', readyQ', IdsNow')
  BY DEF Told
<1>8. ASSUME NEW w \in Task, W = << w >>, taskState' = [taskState EXCEPT ![w] = "ready"],
             readyQ' = Append(readyQ, w)
      PROVE  LearnAll(Told, TraceEvents(op)) = Told'
  <2>1. [i \in DOMAIN W |-> About("woken", W[i])] = << About("woken", w) >>
    BY <1>8
  <2>2. TraceEvents(op) = << d, About("woken", w) >>
    <3> HIDE DEF d, W
    <3>1. << d >> \o << About("woken", w) >> = << d, About("woken", w) >>
      BY TwoEvents
    <3>2. QED BY <1>1, <1>3, <2>1, <3>1
  <2> HIDE DEF d, mid
  <2>3. LearnAll(Told, TraceEvents(op)) = Learn(mid, About("woken", w))
    <3>1. LearnAll(Told, << d, About("woken", w) >>) = Learn(Learn(Told, d), About("woken", w))
      BY LearnTwo
    <3>2. QED BY <1>5, <2>2, <3>1
  <2>4. Learn(mid, About("woken", w)) = Entered(mid, w, "queued", Append(readyQ, w))
    BY <1>6, LearnKinds
  <2>5. PhasesNow' = [PhasesNow EXCEPT ![w] = "queued"]
    <3>1. PhasesNow' = [u \in Task |-> PhaseOf(taskState'[u])]
      BY DEF PhasesNow
    <3>2. PhasesNow = [u \in Task |-> PhasesNow[u]] /\ \A u \in Task : PhasesNow[u] = PhaseOf(taskState[u])
      BY DEF PhasesNow
    <3>3. PhaseOf("ready") = "queued"
      BY PhaseNames DEF Runnable
    <3>4. \A u \in Task : taskState'[u] = IF u = w THEN "ready" ELSE taskState[u]
      BY <1>0, <1>8 DEF TypeOK
    <3>5. [PhasesNow EXCEPT ![w] = "queued"] =
            [u \in Task |-> IF u = w THEN "queued" ELSE PhasesNow[u]]
      BY <3>2
    <3>6. QED BY <3>1, <3>2, <3>3, <3>4, <3>5
  <2>6. QED BY <1>6, <1>7, <1>8, <2>3, <2>4, <2>5 DEF Entered, Knowledge
<1>9. WakeOneOf(b)
  BY <1>1 DEF Deliver
<1>10. CASE mailboxWaiters[b] # << >>
  <2> DEFINE w == Head(mailboxWaiters[b])
  <2>1. W = << w >> /\ w \in Task /\ WakeWaiter(w)
    BY <1>0, <1>2, <1>9, <1>10, WaiterIs, HeadIsReceiver DEF WakeOneOf
  <2> HIDE DEF w, W
  <2>2. QED BY <1>8, <2>1 DEF WakeWaiter
<1>11. CASE mailboxWaiters[b] = << >> /\ timedMailboxWaiters[b] # << >>
  <2> DEFINE w == Head(timedMailboxWaiters[b])
  <2>1. W = << w >> /\ w \in Task /\ WakeWaiter(w)
    BY <1>0, <1>2, <1>9, <1>11, WaiterIs, HeadIsReceiver DEF WakeOneOf
  <2> HIDE DEF w, W
  <2>2. QED BY <1>8, <2>1 DEF WakeWaiter
<1>12. CASE mailboxWaiters[b] = << >> /\ timedMailboxWaiters[b] = << >>
  <2>1. W = << >>
    BY <1>0, <1>2, <1>12, WaiterIs
  <2>2. UNCHANGED << taskState, readyQ >>
    BY <1>9, <1>12 DEF WakeOneOf
  <2>3. [i \in DOMAIN W |-> About("woken", W[i])] = << >>
    BY <2>1
  <2>4. TraceEvents(op) = << d >>
    <3> HIDE DEF d, W
    <3>1. << d >> \o << >> = << d >>
      BY TwoEvents
    <3>2. QED BY <1>1, <1>3, <2>3, <3>1
  <2> HIDE DEF d
  <2>5. LearnAll(Told, TraceEvents(op)) = mid
    BY <1>5, <2>4, LearnOne
  <2>6. PhasesNow' = PhasesNow
    BY <2>2 DEF PhasesNow
  <2>7. QED BY <1>7, <2>2, <2>5, <2>6
<1>13. QED BY <1>10, <1>11, <1>12

Receives == {"receive", "receiveFrom", "receiveByOccurrence", "receiveUntil"}

\* The four receives: the first message that is wanted, or the task parks.
LEMMA ReceiveReports ==
  ASSUME IInv, NEW op \in Operation, op.kind \in Receives, Step(op)
  PROVE  /\ op.task \in Task /\ CanReceive(op.task)
         /\ TraceEvents(op) = << ReceiveEvent(op) >>
         /\ \/ TakeFirst(op.task, Wanted(op))
            \/ /\ ReceiveEvent(op) = About("parked", op.task)
               /\ \E st \in {"waiting", "waitingTimed"} :
                    taskState' = [taskState EXCEPT ![op.task] = st]
               /\ UNCHANGED << readyQ, mailboxes >>
<1> DEFINE t  == op.task
           mb == mailboxes[taskOwner[t]]
<1>1. t \in Task
  BY Operands DEF Receives
<1>2. /\ CanReceive(t)
      /\ \/ TakeFirst(t, Wanted(op))
         \/ /\ Elems(mb) \cap Wanted(op) = {}
            /\ \/ op.kind # "receiveUntil" /\ Park(t)
               \/ /\ op.kind = "receiveUntil" /\ ~ (op.deadline <= now)
                  /\ taskState' = [taskState EXCEPT ![t] = "waitingTimed"]
                  /\ UNCHANGED << readyQ, mailboxes >>
  <2>1. ASSUME op.kind # "receiveUntil", ReceiveWanted(t, Wanted(op))
        PROVE  /\ CanReceive(t)
               /\ \/ TakeFirst(t, Wanted(op))
                  \/ Elems(mb) \cap Wanted(op) = {} /\ op.kind # "receiveUntil" /\ Park(t)
    BY <2>1, Zenon DEF ReceiveWanted
  <2>2. CASE op.kind = "receive"
    <3>1. ReceiveWanted(t, Wanted(op))
      BY <2>2 DEF Step, Receive, Wanted
    <3>2. QED BY <2>1, <2>2, <3>1
  <2>3. CASE op.kind = "receiveFrom"
    <3>1. ReceiveWanted(t, Wanted(op))
      BY <2>3 DEF Step, ReceiveFrom, Wanted
    <3>2. QED BY <2>1, <2>3, <3>1
  <2>4. CASE op.kind = "receiveByOccurrence"
    <3>1. ReceiveWanted(t, Wanted(op))
      BY <2>4 DEF Step, ReceiveByOccurrence, Wanted
    <3>2. QED BY <2>1, <2>4, <3>1
  <2>5. CASE op.kind = "receiveUntil"
    <3>1. ReceiveUntil(t, op.deadline) /\ Wanted(op) = Envelope
      BY <2>5 DEF Step, Wanted
    <3>2. now \in Nat /\ op.deadline \in Nat
      BY <2>5, Operands, StateAssumption DEF IInv, TypeOK, Deadline
    <3>3. Elems(<< >>) = {}
      BY DEF Elems
    <3>4. CASE TakeFirst(t, Envelope)
      BY <3>1, <3>4 DEF ReceiveUntil
    <3>5. CASE ~ TakeFirst(t, Envelope)
      <4>1. /\ CanReceive(t) /\ mb = << >> /\ now < op.deadline
            /\ taskState' = [taskState EXCEPT ![t] = "waitingTimed"]
            /\ UNCHANGED << readyQ, mailboxes >>
        BY <3>1, <3>5 DEF ReceiveUntil, mailVars
      <4>2. ~ (op.deadline <= now) /\ Elems(mb) \cap Wanted(op) = {}
        BY <3>2, <3>3, <4>1
      <4>3. QED BY <2>5, <4>1, <4>2
    <3>6. QED BY <3>4, <3>5
  <2>6. QED BY <2>2, <2>3, <2>4, <2>5 DEF Receives
<1>3. TraceEvents(op) = << ReceiveEvent(op) >>
  <2>1. TraceGuard(op)
    BY <1>2 DEF TraceGuard, CanReceive, Receives
  <2>2. QED BY <2>1 DEF TraceEvents, Receives
<1>4. ASSUME Elems(mb) \cap Wanted(op) = {}, op.kind = "receiveUntil" => ~ (op.deadline <= now)
      PROVE  ReceiveEvent(op) = About("parked", t)
  BY <1>4 DEF ReceiveEvent
<1>5. Park(t) => /\ taskState' = [taskState EXCEPT ![t] = "waiting"]
                 /\ UNCHANGED << readyQ, mailboxes >>
  BY DEF Park, mailVars
<1>6. QED BY <1>1, <1>2, <1>3, <1>4, <1>5

\* A receive that takes a message, and one that parks.
LEMMA ReceiveTold ==
  ASSUME IInv, MailboxesExact, NEW op \in Operation, op.kind \in Receives, Step(op)
  PROVE  LearnAll(Told, TraceEvents(op)) = Told'
<1> DEFINE t == op.task
<1>0. TypeOK
  BY DEF IInv
<1>1. /\ t \in Task /\ CanReceive(t)
      /\ TraceEvents(op) = << ReceiveEvent(op) >>
      /\ \/ TakeFirst(t, Wanted(op))
         \/ /\ ReceiveEvent(op) = About("parked", t)
            /\ \E st \in {"waiting", "waitingTimed"} : taskState' = [taskState EXCEPT ![t] = st]
            /\ UNCHANGED << readyQ, mailboxes >>
  BY ReceiveReports
<1> HIDE DEF t
<1>2. Told.phase = PhasesNow /\ Told.queue = readyQ /\ Told.mail = IdsNow
  BY DEF Told, Knowledge
<1>3. CASE ~ TakeFirst(t, Wanted(op))
  <2>1. PICK st \in {"waiting", "waitingTimed"} : taskState' = [taskState EXCEPT ![t] = st]
    BY <1>1, <1>3
  <2>2. LearnAll(Told, TraceEvents(op)) = Entered(Told, t, "parked", readyQ)
    <3>1. Learn(Told, About("parked", t)) = Entered(Told, t, "parked", readyQ)
      BY <1>2, LearnKinds
    <3>2. TraceEvents(op) = << About("parked", t) >>
      BY <1>1, <1>3
    <3>3. QED BY <3>1, <3>2, LearnOne
  <2>3. Told' = Entered(Told, t, PhaseOf(st), readyQ')
    BY <1>0, <1>1, <1>3, <2>1, SameIds, ToldOne
  <2>4. PhaseOf(st) = "parked"
    BY PhaseNames
  <2>5. QED BY <1>1, <1>3, <2>2, <2>3, <2>4
<1>4. CASE TakeFirst(t, Wanted(op))
  <2> DEFINE a  == taskOwner[t]
             mb == mailboxes[a]
             id == mb[FirstIn(mb, Wanted(op))].occurrence
  <2>1. /\ a \in Actor /\ mb \in Seq(Envelope) /\ mb # None
        /\ mailboxes'[a] = RemoveFirst(mb, Wanted(op))
        /\ Elems(mb) \cap Wanted(op) # {}
        /\ \A c \in Actor \ {a} : mailboxes'[c] = mailboxes[c]
    BY <1>0, <1>1, <1>4, TakenMailbox, AbsentAssumption
  <2>2. UNCHANGED << taskState, readyQ >>
    BY <1>4 DEF TakeFirst, scheduleVars
  <2>3. ReceiveEvent(op) = [kind |-> "received", actor |-> a, occurrence |-> id]
    BY <2>1 DEF ReceiveEvent, t
  <2>4. IdsOf(RemoveFirst(mb, Wanted(op))) = Without(IdsOf(mb), {id})
    <3>1. Ordered(mb)
      BY <2>1, MailboxParts
    <3>2. QED BY <2>1, <3>1, IdsTaken
  <2> HIDE DEF id, mb
  <2>5. IdsNow' = [IdsNow EXCEPT ![a] = Without(IdsNow[a], {id})]
    <3>1. \A c \in Actor : IdsNow[c] = IdsOf(mailboxes[c])
      BY DEF IdsNow
    <3>2. IdsNow' = [c \in Actor |-> IdsOf(mailboxes'[c])]
      BY DEF IdsNow
    <3>3. IdsNow = [c \in Actor |-> IdsNow[c]]
      BY DEF IdsNow
    <3>4. [IdsNow EXCEPT ![a] = Without(IdsNow[a], {id})] =
            [c \in Actor |-> IF c = a THEN Without(IdsNow[a], {id}) ELSE IdsNow[c]]
      BY <3>3
    <3>5. IdsNow[a] = IdsOf(mb)
      BY <2>1, <3>1 DEF mb
    <3>6. QED BY <2>1, <2>4, <3>1, <3>2, <3>4, <3>5
  <2>6. LearnAll(Told, TraceEvents(op)) = Holding(Told, a, Without(IdsNow[a], {id}))
    <3>1. Learn(Told, [kind |-> "received", actor |-> a, occurrence |-> id]) =
            Holding(Told, a, Without(IdsNow[a], {id}))
      BY <1>2, LearnReceived
    <3>2. LearnAll(Told, << ReceiveEvent(op) >>) = Learn(Told, ReceiveEvent(op))
      BY LearnOne
    <3>3. QED BY <1>1, <2>3, <3>1, <3>2
  <2>7. PhasesNow' = PhasesNow
    BY <2>2 DEF PhasesNow
  <2>8. Told' = Knowledge(PhasesNow, readyQ, IdsNow')
    BY <2>2, <2>7 DEF Told
  <2>9. QED BY <1>2, <2>5, <2>6, <2>8 DEF Holding, Knowledge
<1>5. QED BY <1>3, <1>4

Quiet == {"shutdown", "stopWhenIdle", "stopWhenDrained", "closeActor", "acquire",
          "acquireActor", "release", "releaseActor", "finalize"}

\* The operations on admission and resources leave the tasks alone.
LEMMA QuietFrame ==
  ASSUME NEW op \in Operation, op.kind \in Quiet, Step(op)
  PROVE  UNCHANGED taskVars
<1>1. CASE op.kind = "shutdown"
  BY <1>1 DEF Step, Shutdown
<1>2. CASE op.kind = "stopWhenIdle"
  BY <1>2 DEF Step, StopWhenIdle, Stop
<1>3. CASE op.kind = "stopWhenDrained"
  BY <1>3 DEF Step, StopWhenDrained, Stop
<1>4. CASE op.kind = "closeActor"
  BY <1>4 DEF Step, CloseActor
<1>5. CASE op.kind = "acquire"
  BY <1>5 DEF Step, Acquire, ledgerOnly
<1>6. CASE op.kind = "acquireActor"
  BY <1>6 DEF Step, AcquireActor, ledgerOnly
<1>7. CASE op.kind = "release"
  BY <1>7 DEF Step, Release, ledgerOnly
<1>8. CASE op.kind = "releaseActor"
  BY <1>8 DEF Step, ReleaseActor, ledgerOnly
<1>9. CASE op.kind = "finalize"
  BY <1>9 DEF Step, Finalize, ledgerOnly
<1>10. QED BY <1>1, <1>2, <1>3, <1>4, <1>5, <1>6, <1>7, <1>8, <1>9 DEF Quiet

\* Nothing is told of them, and what the ledger is about does not change.
LEMMA QuietTold ==
  ASSUME NEW op \in Operation, op.kind \in Quiet, Step(op)
  PROVE  LearnAll(Told, TraceEvents(op)) = Told'
<1>1. UNCHANGED << taskState, readyQ, mailboxes >>
  BY QuietFrame DEF taskVars, scheduleVars, mailVars
<1>2. PICK kind \in {"invalid", "noEffect", "status", "actorClosed"} :
        TraceEvents(op) = << [kind |-> kind] >>
  BY DEF TraceEvents, Invalid, NoEffect, Quiet
<1>3. LearnAll(Told, TraceEvents(op)) = Told
  <2>1. LearnAll(Told, << [kind |-> kind] >>) = Learn(Told, [kind |-> kind])
    BY LearnOne
  <2>2. QED BY <1>2, <2>1, LearnNothing
<1>4. Told' = Told
  BY <1>1 DEF Told, PhasesNow, IdsNow
<1>5. QED BY <1>3, <1>4

\* Whatever is carried out, the events of its report tell what it did.
LEMMA StepTold ==
  ASSUME IInv, MailboxesExact, NEW op \in Operation, Step(op)
  PROVE  LearnAll(Told, TraceEvents(op)) = Told'
<1>1. \/ op.kind \in {"spawn", "spawnChild", "restartOne"} \/ op.kind = "schedule"
      \/ op.kind \in {"yield", "wake"} \/ op.kind = "sleep"
      \/ op.kind \in {"complete", "fail"} \/ op.kind \in {"cancel", "cancelTree"}
      \/ op.kind = "tick" \/ op.kind \in {"send", "inject"}
      \/ op.kind \in Receives \/ op.kind \in Quiet
  BY DEF Operation, Receives, Quiet
<1>2. TypeOK
  BY DEF IInv
<1>3. QED BY <1>1, <1>2, CreationTold, ScheduleTold, QueuedTold, SleepTold, EndTold,
             CancelTold, TickTold, DeliveryTold, ReceiveTold, QuietTold

\* An operation that is carried out is a step of the runtime.
LEMMA StepIsNext ==
  ASSUME NEW op \in Operation, Step(op)
  PROVE  Next
<1>1. CASE op.kind = "schedule"
  BY <1>1 DEF Step, Next, SchedulerNext
<1>2. CASE op.kind \in {"yield", "complete", "cancel", "fail", "cancelTree"}
  <2>1. op.task \in Task
    BY <1>2, Operands
  <2>2. \/ Yield(op.task) \/ Complete(op.task) \/ Cancel(op.task) \/ Fail(op.task)
        \/ CancelTree(op.task)
    BY <1>2 DEF Step
  <2>3. QED BY <2>1, <2>2 DEF Next, SchedulerNext
<1>3. CASE op.kind = "spawn"
  BY <1>3, Operands DEF Step, Next, CreationNext
<1>4. CASE op.kind = "spawnChild"
  BY <1>4, Operands DEF Step, Next, CreationNext
<1>5. CASE op.kind = "restartOne"
  BY <1>5, Operands DEF Step, Next, CreationNext
<1>6. CASE op.kind = "sleep"
  BY <1>6, Operands DEF Step, Next, TimeNext
<1>7. CASE op.kind = "tick"
  BY <1>7, Operands DEF Step, Next, TimeNext
<1>8. CASE op.kind = "wake"
  BY <1>8, Operands DEF Step, Next, TimeNext
<1>9. CASE op.kind = "inject"
  BY <1>9, Operands DEF Step, Next, MessageNext
<1>10. CASE op.kind \in {"send", "receiveFrom"}
  <2>1. op.task \in Task /\ op.actor \in Actor
    BY <1>10, Operands
  <2>2. Send(op.task, op.actor) \/ ReceiveFrom(op.task, op.actor)
    BY <1>10 DEF Step
  <2>3. QED BY <2>1, <2>2 DEF Next, MessageNext
<1>11. CASE op.kind = "receive"
  BY <1>11, Operands DEF Step, Next, MessageNext
<1>12. CASE op.kind = "receiveUntil"
  BY <1>12, Operands DEF Step, Next, MessageNext
<1>13. CASE op.kind = "receiveByOccurrence"
  BY <1>13, Operands DEF Step, Next, MessageNext
<1>14. CASE op.kind = "closeActor"
  BY <1>14, Operands DEF Step, Next, AdmissionNext
<1>15. CASE op.kind \in {"shutdown", "stopWhenIdle", "stopWhenDrained"}
  <2>1. Shutdown \/ StopWhenIdle \/ StopWhenDrained
    BY <1>15 DEF Step
  <2>2. QED BY <2>1 DEF Next, AdmissionNext
<1>16. CASE op.kind = "acquire"
  BY <1>16, Operands DEF Step, Next, ResourceNext
<1>17. CASE op.kind = "acquireActor"
  BY <1>17, Operands DEF Step, Next, ResourceNext
<1>18. CASE op.kind = "release"
  BY <1>18, Operands DEF Step, Next, ResourceNext
<1>19. CASE op.kind = "releaseActor"
  BY <1>19, Operands DEF Step, Next, ResourceNext
<1>20. CASE op.kind = "finalize"
  BY <1>20, Operands DEF Step, Next, ResourceNext
<1>21. op.kind \in {"schedule", "yield", "complete", "cancel", "fail", "cancelTree", "spawn",
                    "spawnChild", "restartOne", "sleep", "tick", "wake", "inject", "send",
                    "receiveFrom", "receive", "receiveUntil", "receiveByOccurrence",
                    "closeActor", "shutdown", "stopWhenIdle", "stopWhenDrained", "acquire",
                    "acquireActor", "release", "releaseActor", "finalize"}
  BY DEF Operation
<1>22. QED BY <1>1, <1>2, <1>3, <1>4, <1>5, <1>6, <1>7, <1>8, <1>9, <1>10, <1>11, <1>12,
              <1>13, <1>14, <1>15, <1>16, <1>17, <1>18, <1>19, <1>20, <1>21

\* The dispatch by one of several workers is reported like a schedule.
LEMMA PopTold ==
  ASSUME IInv, NEW w \in Worker, PopAt(w)
  PROVE  /\ Learn(Told, About("scheduled", Head(workerQ[w]))) = Told'
         /\ TypeOK' /\ QueueExact' /\ WaitersExact' /\ TimersExact'
         /\ UNCHANGED mailVars
<1> DEFINE t == Head(workerQ[w])
           q == << t >> \o RemoveFirst(readyQ, {t})
<1>1. t \in Elems(readyQ) /\ Dispatch(q)
  BY DEF PopAt
<1> HIDE DEF t
<1>2. readyQ \in Seq(Task) /\ NoDup(readyQ) /\ TypeOK
  BY DEF IInv, QueueExact, TypeOK
<1>3. /\ q \in Seq(Task) /\ NoDup(q) /\ Elems(q) = Elems(readyQ)
      /\ Head(q) = t /\ Tail(q) = Without(readyQ, {t})
  BY <1>1, <1>2, PutFirst
<1> HIDE DEF q
<1>4. TypeOK' /\ QueueExact' /\ WaitersExact' /\ TimersExact'
  BY <1>1, <1>2, <1>3, DispatchTypes, DispatchExact
<1>5. /\ t \in Task /\ taskState' = [taskState EXCEPT ![t] = "running"]
      /\ readyQ' = Without(readyQ, {t}) /\ UNCHANGED mailVars
  BY <1>1, <1>3, EndedKnown DEF Dispatch
<1>6. Learn(Told, About("scheduled", t)) = Entered(Told, t, "running", Without(readyQ, {t}))
  <2>1. Told.queue = readyQ
    BY DEF Told, Knowledge
  <2>2. QED BY <2>1, LearnKinds
<1>7. PhaseOf("running") = "running" /\ UNCHANGED mailboxes
  BY <1>5, PhaseNames DEF mailVars
<1>8. Told' = Entered(Told, t, PhaseOf("running"), readyQ')
  BY <1>2, <1>5, <1>7, SameIds, ToldOne
<1>9. Learn(Told, About("scheduled", t)) = Told'
  BY <1>5, <1>6, <1>7, <1>8
<1>10. QED BY <1>4, <1>5, <1>9 DEF t

-----------------------------------------------------------------------------

\* The reader is told.
ReaderInv == IInv /\ MailboxesExact /\ replay = Told

\* Nothing has happened yet and nothing is known.
LEMMA ReaderInit ==
  ASSUME ObserversInit
  PROVE  ReaderInv
<1>1. IInv
  BY InitTypes, InitExact DEF ObserversInit, IInv
<1>2. MailboxesExact
  BY DEF ObserversInit, Init, MailboxesExact
<1>3. replay = Told
  <2>1. PhaseOf(None) = None
    BY AbsentAssumption DEF PhaseOf, TaskState, Runnable, Parked
  <2>2. PhasesNow = [t \in Task |-> None]
    BY <2>1 DEF ObserversInit, Init, PhasesNow
  <2>3. IdsNow = [a \in Actor |-> << >>]
    BY DEF ObserversInit, Init, IdsNow, IdsOf
  <2>4. QED BY <2>2, <2>3 DEF ObserversInit, Init, TraceInit, Told, Knowledge
<1>4. QED BY <1>1, <1>2, <1>3 DEF ReaderInv

\* What no variable of the runtime changes does not disturb.
LEMMA ReaderFrame ==
  ASSUME ReaderInv, UNCHANGED << vars, replay >>
  PROVE  ReaderInv'
<1>1. IInv'
  BY NextTypes, NextExact DEF ReaderInv, IInv
<1>2. MailboxesExact'
  BY MailboxesStep DEF ReaderInv, IInv
<1>3. Told' = Told
  BY DEF vars, scheduleVars, mailVars, Told, PhasesNow, IdsNow
<1>4. QED BY <1>1, <1>2, <1>3 DEF ReaderInv

\* Every step of the observers keeps the reader informed.
LEMMA ReaderStep ==
  ASSUME ReaderInv, [ObserversNext]_observerVars
  PROVE  ReaderInv'
<1>0. IInv /\ MailboxesExact /\ replay = Told
  BY DEF ReaderInv
<1>1. ASSUME NEW op \in Operation, Offer(op) PROVE ReaderInv'
  <2>1. CASE Step(op) /\ Report(op)
    <3>1. Next
      BY <2>1, StepIsNext
    <3>2. IInv' /\ MailboxesExact'
      BY <1>0, <3>1, NextTypes, NextExact, MailboxesStep DEF IInv
    <3>3. replay' = LearnAll(Told, TraceEvents(op))
      BY <1>0, <2>1 DEF Report
    <3>4. LearnAll(Told, TraceEvents(op)) = Told'
      BY <1>0, <2>1, StepTold
    <3>5. QED BY <3>2, <3>3, <3>4 DEF ReaderInv
  <2>2. CASE Refused(op) /\ UNCHANGED << vars, replay >>
    BY <2>2, ReaderFrame
  <2>3. QED BY <1>1, <2>1, <2>2 DEF Offer
<1>2. ASSUME NEW w \in Worker, OfferPop(w) PROVE ReaderInv'
  <2>1. PopAt(w) /\ replay' = Learn(Told, About("scheduled", Head(workerQ[w])))
    BY <1>0, <1>2 DEF OfferPop
  <2>2. /\ Learn(Told, About("scheduled", Head(workerQ[w]))) = Told'
        /\ IInv' /\ UNCHANGED mailVars
    BY <1>0, <2>1, PopTold DEF IInv
  <2>3. MailboxesExact'
    BY <1>0, <2>2 DEF mailVars, MailboxesExact
  <2>4. QED BY <2>1, <2>2, <2>3 DEF ReaderInv
<1>3. CASE UNCHANGED << vars, replay >>
  BY <1>3, ReaderFrame
<1>4. UNCHANGED observerVars => UNCHANGED << vars, replay >>
  BY DEF observerVars
<1>5. QED BY <1>1, <1>2, <1>3, <1>4 DEF ObserversNext

\* From the events of the operations carried out, alone, a reader knows the
\* phase of every task, the ready queue in its order and the messages in every
\* mailbox, whatever the operations and however many (Event.lean, Run.lean).
THEOREM LedgerTellsAll == ObserversSpec => []LedgerReplays
<1>1. ObserversInit => ReaderInv
  BY ReaderInit
<1>2. ReaderInv /\ [ObserversNext]_observerVars => ReaderInv'
  BY ReaderStep
<1>3. ReaderInv => LedgerReplays
  BY ToldReplays DEF ReaderInv
<1>4. QED BY <1>1, <1>2, <1>3, PTL DEF ObserversSpec

-----------------------------------------------------------------------------
(* Following with the workers' queues.                                      *)

\* The queues Q of the workers in W hold what is in q.
Matches(W, Q, q) ==
  /\ Q \in [Worker -> Seq(Task)]
  /\ \A v \in Worker : NoDup(Q[v]) /\ Elems(Q[v]) \subseteq Elems(q)
  /\ \A t \in Elems(q) : \E v \in Worker : t \in Elems(Q[v])
  /\ \A u, v \in Worker : u # v => Elems(Q[u]) \cap Elems(Q[v]) = {}
  /\ \A w \in W : W = {w} => Q[w] = q

\* Queues that hold what is ready are as the bridge wants them.
LEMMA MatchesExact ==
  ASSUME Matches(workers, workerQ, readyQ)
  PROVE  BridgesExact
BY DEF Matches, BridgesExact

\* A task behind a list is the list joined with it.
LEMMA AppendIsJoin ==
  ASSUME NEW T, NEW q \in Seq(T), NEW t \in T
  PROVE  Append(q, t) = q \o << t >>
<1> DEFINE u == Append(q, t)
           w == << t >>
<1>1. PICK n \in Nat : Len(q) = n
  BY LenProperties
<1>2. u \in Seq(T) /\ Len(u) = n + 1 /\ u[n + 1] = t /\ \A i \in 1 .. n : u[i] = q[i]
  BY <1>1, AppendProperties
<1>3. w \in Seq(T) /\ Len(w) = 1 /\ w[1] = t
  OBVIOUS
<1> HIDE DEF u, w
<1>4. Len(u) = Len(q) + Len(w) /\ \A i \in 1 .. Len(q) : u[i] = q[i]
  BY <1>1, <1>2, <1>3
<1>5. \A i \in 1 .. Len(w) : u[Len(q) + i] = w[i]
  BY <1>1, <1>2, <1>3
<1>6. u = q \o w
  BY <1>2, <1>3, <1>4, <1>5, JoinedIs
<1>7. QED BY <1>6 DEF u, w

\* What the three queue operations do to the queue of each worker.
LEMMA OnePush ==
  ASSUME NEW Q, NEW t, NEW w \in Worker, NEW v \in Worker
  PROVE  ApplyMQOp(Q, Push(t), w)[v] = IF v = w THEN Append(Q[v], t) ELSE Q[v]
BY DEF ApplyMQOp, ApplyQOp, Push

\* A filter goes through the queue of the holder, and so through every queue.
LEMMA OneDiscard ==
  ASSUME NEW Q \in [Worker -> Seq(Task)], NEW t, NEW w \in Worker, NEW v \in Worker
  PROVE  ApplyMQOp(Q, Discard(t), w)[v] = Without(Q[v], {t})
<1>1. ApplyMQOp(Q, Discard(t), w)[v] =
        IF t \in Elems(Q[v]) THEN Without(Q[v], {t}) ELSE Q[v]
  BY DEF ApplyMQOp, ApplyQOp, Discard
<1>2. ASSUME t \notin Elems(Q[v]) PROVE Without(Q[v], {t}) = Q[v]
  <2>1. Q[v] \in Seq(Task) /\ Elems(Q[v]) \cap {t} = {}
    BY <1>2
  <2>2. QED BY <2>1, WithoutNone
<1>3. QED BY <1>1, <1>2

\* A pop takes out the head of a queue.
LEMMA OnePop ==
  ASSUME NEW Q, NEW w \in Worker, NEW v \in Worker
  PROVE  ApplyMQOp(Q, Pop, w)[v] = IF v = w /\ Q[v] # << >> THEN Tail(Q[v]) ELSE Q[v]
BY DEF ApplyMQOp, ApplyQOp, Pop

\* Only the queues of workers are there.
LEMMA StillQueues ==
  ASSUME NEW Q, NEW qop, NEW w, NEW S,
         \A v \in Worker : ApplyMQOp(Q, qop, w)[v] \in S
  PROVE  ApplyMQOp(Q, qop, w) \in [Worker -> S]
BY DEF ApplyMQOp

\* A new task is pushed to one worker.
LEMMA PushMatches ==
  ASSUME NEW W \in SUBSET Worker, NEW Q, NEW q \in Seq(Task), Matches(W, Q, q),
         NEW t \in Task, t \notin Elems(q), NEW w \in W
  PROVE  Matches(W, ApplyMQOp(Q, Push(t), w), Append(q, t))
<1> DEFINE R == ApplyMQOp(Q, Push(t), w)
           u == Append(q, t)
<1>0. w \in Worker
  OBVIOUS
<1>1. \A v \in Worker : R[v] = IF v = w THEN Append(Q[v], t) ELSE Q[v]
  BY <1>0, OnePush
<1>2. /\ \A v \in Worker : Q[v] \in Seq(Task) /\ NoDup(Q[v]) /\ Elems(Q[v]) \subseteq Elems(q)
      /\ \A x \in Elems(q) : \E v \in Worker : x \in Elems(Q[v])
      /\ \A y, v \in Worker : y # v => Elems(Q[y]) \cap Elems(Q[v]) = {}
      /\ W = {w} => Q[w] = q
  BY DEF Matches
<1>3. Elems(u) = Elems(q) \cup {t}
  <2> HIDE DEF R
  <2>1. Elems(Append(q, t)) = Elems(q) \cup {t}
    BY AppendList
  <2>2. QED BY <2>1
<1>4. /\ R[w] = Append(Q[w], t) /\ R[w] \in Seq(Task)
      /\ Elems(R[w]) = Elems(Q[w]) \cup {t} /\ NoDup(R[w])
  <2>1. Q[w] \in Seq(Task) /\ NoDup(Q[w]) /\ t \notin Elems(Q[w])
    BY <1>0, <1>2
  <2>2. R[w] = Append(Q[w], t)
    BY <1>0, <1>1
  <2> HIDE DEF R
  <2>3. PICK p : p = Q[w]
    OBVIOUS
  <2>4. p \in Seq(Task) /\ NoDup(p) /\ t \notin Elems(p)
    BY <2>1, <2>3
  <2>5. /\ Append(p, t) \in Seq(Task) /\ Elems(Append(p, t)) = Elems(p) \cup {t}
        /\ NoDup(Append(p, t))
    BY <2>4, AppendList, AppendProperties
  <2>6. QED BY <2>2, <2>3, <2>5
<1>5. \A v \in Worker \ {w} : R[v] = Q[v]
  BY <1>1
<1>6. R \in [Worker -> Seq(Task)]
  <2>1. \A v \in Worker : R[v] \in Seq(Task)
    BY <1>2, <1>4, <1>5
  <2>2. QED BY <2>1, StillQueues
<1> HIDE DEF R, u
<1>7. \A v \in Worker : NoDup(R[v]) /\ Elems(R[v]) \subseteq Elems(u)
  BY <1>2, <1>3, <1>4, <1>5
<1>8. \A x \in Elems(u) : \E v \in Worker : x \in Elems(R[v])
  BY <1>0, <1>2, <1>3, <1>4, <1>5
<1>9. \A y, v \in Worker : y # v => Elems(R[y]) \cap Elems(R[v]) = {}
  <2>1. \A v \in Worker : v # w => R[v] = Q[v] /\ t \notin Elems(Q[v])
    BY <1>2, <1>5
  <2>2. ASSUME NEW y \in Worker, NEW v \in Worker, y # v PROVE Elems(R[y]) \cap Elems(R[v]) = {}
    <3>1. Elems(Q[y]) \cap Elems(Q[v]) = {}
      BY <1>2, <2>2
    <3>2. CASE y = w
      BY <1>4, <2>1, <2>2, <3>1, <3>2
    <3>3. CASE v = w
      BY <1>4, <2>1, <2>2, <3>1, <3>3
    <3>4. CASE y # w /\ v # w
      BY <2>1, <3>1, <3>4
    <3>5. QED BY <3>2, <3>3, <3>4
  <2>3. QED BY <2>2
<1>10. ASSUME NEW x \in W, W = {x} PROVE R[x] = u
  <2>1. x = w
    BY <1>10
  <2>2. QED BY <1>2, <1>4, <1>10, <2>1 DEF u
<1>11. QED BY <1>6, <1>7, <1>8, <1>9, <1>10 DEF Matches, R, u

\* A task is filtered out.
LEMMA DiscardMatches ==
  ASSUME NEW W \in SUBSET Worker, NEW Q, NEW q \in Seq(Task), Matches(W, Q, q),
         NEW t, NEW w \in Worker
  PROVE  Matches(W, ApplyMQOp(Q, Discard(t), w), Without(q, {t}))
<1> DEFINE R == ApplyMQOp(Q, Discard(t), w)
           u == Without(q, {t})
<1>1. Q \in [Worker -> Seq(Task)]
  BY DEF Matches
<1>2. \A v \in Worker : R[v] = Without(Q[v], {t})
  BY <1>1, OneDiscard
<1>3. /\ \A v \in Worker : Q[v] \in Seq(Task) /\ NoDup(Q[v]) /\ Elems(Q[v]) \subseteq Elems(q)
      /\ \A x \in Elems(q) : \E v \in Worker : x \in Elems(Q[v])
      /\ \A y, v \in Worker : y # v => Elems(Q[y]) \cap Elems(Q[v]) = {}
      /\ \A x \in W : W = {x} => Q[x] = q
  BY DEF Matches
<1>4. Elems(u) = Elems(q) \ {t}
  BY WithoutProperties
<1>5. ASSUME NEW v \in Worker
      PROVE  R[v] \in Seq(Task) /\ Elems(R[v]) = Elems(Q[v]) \ {t} /\ NoDup(R[v])
  <2>1. /\ Without(Q[v], {t}) \in Seq(Task) /\ Elems(Without(Q[v], {t})) = Elems(Q[v]) \ {t}
        /\ NoDup(Q[v]) => NoDup(Without(Q[v], {t}))
    <3>1. Q[v] \in Seq(Task)
      BY <1>3
    <3>2. QED BY <3>1, WithoutProperties
  <2>2. QED BY <1>2, <1>3, <2>1
<1>6. R \in [Worker -> Seq(Task)]
  BY <1>5, StillQueues
<1>7. \A x \in W : W = {x} => R[x] = u
  BY <1>2, <1>3
<1> HIDE DEF R, u
<1>8. ASSUME NEW v \in Worker PROVE NoDup(R[v]) /\ Elems(R[v]) \subseteq Elems(u)
  <2>1. Elems(Q[v]) \subseteq Elems(q)
    BY <1>3
  <2>2. Elems(R[v]) = Elems(Q[v]) \ {t} /\ NoDup(R[v])
    BY <1>5
  <2>3. QED BY <1>4, <2>1, <2>2
<1>9. ASSUME NEW x \in Elems(u) PROVE \E v \in Worker : x \in Elems(R[v])
  <2>1. x \in Elems(q) /\ x # t
    BY <1>4
  <2>2. PICK v \in Worker : x \in Elems(Q[v])
    BY <1>3, <2>1
  <2>3. x \in Elems(R[v])
    BY <1>5, <2>1, <2>2
  <2>4. QED BY <2>3
<1>10. ASSUME NEW y \in Worker, NEW v \in Worker, y # v
       PROVE  Elems(R[y]) \cap Elems(R[v]) = {}
  <2>1. Elems(Q[y]) \cap Elems(Q[v]) = {}
    BY <1>3, <1>10
  <2>2. Elems(R[y]) = Elems(Q[y]) \ {t} /\ Elems(R[v]) = Elems(Q[v]) \ {t}
    BY <1>5
  <2>3. QED BY <2>1, <2>2
<1>11. QED BY <1>6, <1>7, <1>8, <1>9, <1>10 DEF Matches, R, u

\* A worker takes the task at its head, which is as if it were filtered out.
LEMMA PopMatches ==
  ASSUME NEW W \in SUBSET Worker, NEW Q, NEW q \in Seq(Task), Matches(W, Q, q),
         NEW w \in Worker, Q[w] # << >>
  PROVE  Matches(W, ApplyMQOp(Q, Pop, w), Without(q, {Head(Q[w])}))
<1> DEFINE t == Head(Q[w])
<1>1. /\ Q \in [Worker -> Seq(Task)]
      /\ \A v \in Worker : Q[v] \in Seq(Task) /\ NoDup(Q[v])
      /\ \A y, v \in Worker : y # v => Elems(Q[y]) \cap Elems(Q[v]) = {}
  BY DEF Matches
<1>2. t \in Elems(Q[w])
  <2>1. Q[w] \in Seq(Task)
    BY <1>1
  <2>2. 1 \in 1 .. Len(Q[w]) /\ t = Q[w][1]
    BY <2>1, LenProperties, EmptySeq, HeadTailProperties
  <2>3. QED BY <2>2 DEF Elems
<1>3. Without(Q[w], {t}) = Tail(Q[w])
  <2>1. Q[w] \in Seq(Task) /\ NoDup(Q[w])
    BY <1>1
  <2>2. QED BY <2>1, WithoutHead
<1> HIDE DEF t
<1>4. ASSUME NEW v \in Worker
      PROVE  ApplyMQOp(Q, Pop, w)[v] = ApplyMQOp(Q, Discard(t), w)[v]
  <2>1. ApplyMQOp(Q, Discard(t), w)[v] = Without(Q[v], {t})
    BY <1>1, OneDiscard
  <2>2. CASE v = w
    BY <1>3, <2>1, <2>2, OnePop
  <2>3. CASE v # w
    <3>1. Q[v] \in Seq(Task) /\ Elems(Q[v]) \cap {t} = {}
      BY <1>1, <1>2, <2>3
    <3>2. Without(Q[v], {t}) = Q[v]
      BY <3>1, WithoutNone
    <3>3. QED BY <2>1, <2>3, <3>2, OnePop
  <2>4. QED BY <2>2, <2>3
<1>5. ApplyMQOp(Q, Pop, w) = ApplyMQOp(Q, Discard(t), w)
  <2>1. /\ ApplyMQOp(Q, Pop, w) = [v \in Worker |-> ApplyMQOp(Q, Pop, w)[v]]
        /\ ApplyMQOp(Q, Discard(t), w) = [v \in Worker |-> ApplyMQOp(Q, Discard(t), w)[v]]
    BY DEF ApplyMQOp
  <2>2. QED BY <1>4, <2>1
<1>6. Matches(W, ApplyMQOp(Q, Discard(t), w), Without(q, {t}))
  BY DiscardMatches
<1>7. QED BY <1>5, <1>6 DEF t

-----------------------------------------------------------------------------
(* Lists of queue operations. *)

MOpsBody(Q, qops, w, n, f) ==
  [i \in 0 .. n |-> IF i = 0 THEN Q ELSE ApplyMQOp(f[i - 1], qops[i], w)]

\* Applying the first n queue operations, one by one, comes to an end.
LEMMA MOpsExist ==
  ASSUME NEW Q, NEW qops, NEW w, NEW n \in Nat
  PROVE  \E f : f = MOpsBody(Q, qops, w, n, f)
<1> DEFINE Bad == {m \in Nat : ~ \E f : f = MOpsBody(Q, qops, w, m, f)}
<1>1. SUFFICES ASSUME Bad # {} PROVE FALSE
  OBVIOUS
<1>2. PICK m \in Bad : \A k \in Bad : m <= k
  BY <1>1, LeastNat
<1>3. m # 0
  <2> DEFINE g == [i \in 0 .. 0 |-> Q]
  <2>1. g = MOpsBody(Q, qops, w, 0, g)
    BY DEF MOpsBody
  <2>2. QED BY <2>1
<1>4. m - 1 \in Nat /\ ~ (m <= m - 1)
  BY <1>3
<1>5. PICK f : f = MOpsBody(Q, qops, w, m - 1, f)
  BY <1>2, <1>4
<1> DEFINE last == ApplyMQOp(f[m - 1], qops[m], w)
           g    == [i \in 0 .. m |-> IF i = m THEN last ELSE f[i]]
<1>6. ASSUME NEW i \in 0 .. m
      PROVE  g[i] = IF i = 0 THEN Q ELSE ApplyMQOp(g[i - 1], qops[i], w)
  <2>1. CASE i = m
    BY <2>1, <1>3
  <2>2. CASE i # m
    <3>1. i \in 0 .. m - 1
      BY <2>2
    <3>2. f[i] = IF i = 0 THEN Q ELSE ApplyMQOp(f[i - 1], qops[i], w)
      BY <3>1, <1>5 DEF MOpsBody
    <3>3. QED BY <3>1, <3>2
  <2>3. QED BY <2>1, <2>2
<1>7. g = MOpsBody(Q, qops, w, m, g)
  <2>1. g = [i \in 0 .. m |-> g[i]]
    OBVIOUS
  <2>2. QED BY <1>6, <2>1 DEF MOpsBody
<1>8. QED BY <1>7

\* The workers' queues after a list of queue operations are reached one operation at a time.
LEMMA TransferSteps ==
  ASSUME NEW qops, Len(qops) \in Nat, NEW w, Transfer(qops, w)
  PROVE  \E f : /\ f[0] = workerQ
                /\ \A i \in 1 .. Len(qops) : f[i] = ApplyMQOp(f[i - 1], qops[i], w)
                /\ workerQ' = f[Len(qops)]
<1> DEFINE f == CHOOSE f : f = MOpsBody(workerQ, qops, w, Len(qops), f)
<1>1. f = MOpsBody(workerQ, qops, w, Len(qops), f)
  BY MOpsExist
<1>2. workerQ' = f[Len(qops)]
  BY Zenon DEF Transfer, MOpsBody
<1> HIDE DEF f
<1>3. 0 \in 0 .. Len(qops) /\ \A i \in 1 .. Len(qops) : i \in 0 .. Len(qops) /\ i # 0
  OBVIOUS
<1>4. \A i \in 0 .. Len(qops) :
        f[i] = IF i = 0 THEN workerQ ELSE ApplyMQOp(f[i - 1], qops[i], w)
  BY <1>1, Zenon DEF MOpsBody
<1>5. f[0] = workerQ /\ \A i \in 1 .. Len(qops) : f[i] = ApplyMQOp(f[i - 1], qops[i], w)
  BY <1>3, <1>4, Zenon
<1>6. QED BY <1>2, <1>5, Zenon

\* No queue operation, no change.
LEMMA TransferNone ==
  ASSUME NEW w, Transfer(<< >>, w)
  PROVE  workerQ' = workerQ
<1> DEFINE s == << >>
<1>1. Len(s) = 0
  OBVIOUS
<1> HIDE DEF s
<1>2. \E f : /\ f[0] = workerQ
             /\ \A i \in 1 .. Len(s) : f[i] = ApplyMQOp(f[i - 1], s[i], w)
             /\ workerQ' = f[Len(s)]
  BY <1>1, TransferSteps DEF s
<1>3. QED BY <1>1, <1>2

\* One queue operation.
LEMMA TransferOne ==
  ASSUME NEW qop, NEW w, Transfer(<< qop >>, w)
  PROVE  workerQ' = ApplyMQOp(workerQ, qop, w)
<1> DEFINE s == << qop >>
<1>1. Len(s) = 1 /\ s[1] = qop
  OBVIOUS
<1> HIDE DEF s
<1>2. PICK f : /\ f[0] = workerQ
               /\ \A i \in 1 .. Len(s) : f[i] = ApplyMQOp(f[i - 1], s[i], w)
               /\ workerQ' = f[Len(s)]
  BY <1>1, TransferSteps DEF s
<1>3. 1 \in 1 .. Len(s) /\ 1 - 1 = 0
  BY <1>1
<1>4. f[1] = ApplyMQOp(f[1 - 1], s[1], w)
  BY <1>2, <1>3
<1>5. QED BY <1>1, <1>2, <1>3, <1>4

\* The tasks of p are filtered out, one after the other.
LEMMA DiscardsMatch ==
  ASSUME NEW W \in SUBSET Worker, NEW q \in Seq(Task), NEW p \in Seq(Task), NEW w \in Worker,
         Matches(W, workerQ, q), Transfer([i \in DOMAIN p |-> Discard(p[i])], w)
  PROVE  Matches(W, workerQ', Without(q, Elems(p)))
<1> DEFINE s       == [i \in DOMAIN p |-> Discard(p[i])]
           Upto(n) == {p[i] : i \in 1 .. n}
<1>1. PICK k \in Nat : Len(p) = k /\ DOMAIN p = 1 .. k /\ \A i \in 1 .. k : p[i] \in Task
  BY LenProperties, ElementOfSeq
<1>2. Len(s) = k /\ \A i \in 1 .. k : s[i] = Discard(p[i])
  BY <1>1
<1>3. Transfer(s, w)
  OBVIOUS
<1> HIDE DEF s
<1>4. PICK f : /\ f[0] = workerQ
               /\ \A i \in 1 .. k : f[i] = ApplyMQOp(f[i - 1], s[i], w)
               /\ workerQ' = f[k]
  <2>1. \E f : /\ f[0] = workerQ
               /\ \A i \in 1 .. Len(s) : f[i] = ApplyMQOp(f[i - 1], s[i], w)
               /\ workerQ' = f[Len(s)]
    BY <1>2, <1>3, TransferSteps
  <2>2. QED BY <1>2, <2>1
<1> DEFINE Bad == {n \in Nat : n <= k /\ ~ Matches(W, f[n], Without(q, Upto(n)))}
<1>5. Bad = {}
  <2>1. SUFFICES ASSUME Bad # {} PROVE FALSE
    OBVIOUS
  <2>2. PICK n \in Bad : \A j \in Bad : n <= j
    <3>1. Bad \in SUBSET Nat
      OBVIOUS
    <3>2. QED BY <2>1, <3>1, LeastNat
  <2>3. n \in Nat /\ n <= k
    BY <2>2
  <2>4. CASE n = 0
    <3>1. Upto(0) = {}
      OBVIOUS
    <3>2. Without(q, {}) = q
      BY WithoutNone
    <3>3. QED BY <1>4, <2>2, <2>4, <3>1, <3>2
  <2>5. CASE n # 0
    <3>1. n - 1 \in Nat /\ ~ (n <= n - 1) /\ n \in 1 .. k /\ n - 1 <= k
      BY <2>3, <2>5
    <3>2. Matches(W, f[n - 1], Without(q, Upto(n - 1)))
      BY <2>2, <3>1
    <3>3. Upto(n - 1) \in SUBSET Task /\ p[n] \in Task /\ Upto(n) = Upto(n - 1) \cup {p[n]}
      <4>1. \A i \in 1 .. n : i \in 1 .. n - 1 \/ i = n
        BY <3>1
      <4>2. \A i \in 1 .. n - 1 : i \in 1 .. n /\ i \in 1 .. k
        BY <3>1, <2>3
      <4>3. n \in 1 .. n
        BY <3>1
      <4>4. QED BY <1>1, <3>1, <4>1, <4>2, <4>3
    <3> HIDE DEF Upto
    <3>4. f[n] = ApplyMQOp(f[n - 1], Discard(p[n]), w)
      BY <1>2, <1>4, <3>1
    <3>5. Without(q, Upto(n)) = Without(Without(q, Upto(n - 1)), {p[n]})
      BY <3>3, WithoutTwice
    <3>6. Matches(W, ApplyMQOp(f[n - 1], Discard(p[n]), w), Without(Without(q, Upto(n - 1)), {p[n]}))
      <4>1. PICK R, v : R = f[n - 1] /\ v = Without(q, Upto(n - 1))
        OBVIOUS
      <4>2. v \in Seq(Task)
        BY <4>1, WithoutProperties
      <4>3. Matches(W, R, v)
        BY <3>2, <4>1
      <4>4. Matches(W, ApplyMQOp(R, Discard(p[n]), w), Without(v, {p[n]}))
        BY <4>2, <4>3, DiscardMatches
      <4>5. QED BY <4>1, <4>4
    <3>7. QED BY <2>2, <3>4, <3>5, <3>6
  <2>6. QED BY <2>4, <2>5
<1>6. Matches(W, f[k], Without(q, Upto(k)))
  <2> HIDE DEF Upto
  <2>1. k \notin Bad /\ k <= k
    BY <1>5
  <2>2. QED BY <2>1
<1>7. Upto(k) = Elems(p)
  BY <1>1 DEF Elems
<1>8. QED BY <1>4, <1>6, <1>7

\* The tasks of p are pushed, one after the other.
LEMMA PushesMatch ==
  ASSUME NEW W \in SUBSET Worker, NEW q \in Seq(Task), NEW p \in Seq(Task), NoDup(q \o p),
         NEW w \in W, Matches(W, workerQ, q), Transfer([i \in DOMAIN p |-> Push(p[i])], w)
  PROVE  Matches(W, workerQ', q \o p)
<1> DEFINE s == [i \in DOMAIN p |-> Push(p[i])]
           r == q \o p
<1>1. PICK k \in Nat : Len(p) = k /\ DOMAIN p = 1 .. k /\ \A i \in 1 .. k : p[i] \in Task
  BY LenProperties, ElementOfSeq
<1>2. Len(s) = k /\ \A i \in 1 .. k : s[i] = Push(p[i])
  BY <1>1
<1>3. Transfer(s, w)
  OBVIOUS
<1> HIDE DEF s
<1>4. PICK f : /\ f[0] = workerQ
               /\ \A i \in 1 .. k : f[i] = ApplyMQOp(f[i - 1], s[i], w)
               /\ workerQ' = f[k]
  <2>1. \E f : /\ f[0] = workerQ
               /\ \A i \in 1 .. Len(s) : f[i] = ApplyMQOp(f[i - 1], s[i], w)
               /\ workerQ' = f[Len(s)]
    BY <1>2, <1>3, TransferSteps
  <2>2. QED BY <1>2, <2>1
<1>5. PICK l \in Nat : Len(q) = l
  BY LenProperties
<1>6. /\ r \in Seq(Task) /\ Len(r) = l + k
      /\ \A i \in 1 .. l : r[i] = q[i]
      /\ \A i \in 1 .. k : r[l + i] = p[i]
  <2>1. /\ r \in Seq(Task) /\ Len(r) = l + k
        /\ \A i \in 1 .. l + k : r[i] = IF i <= l THEN q[i] ELSE p[i - l]
    BY <1>1, <1>5, ConcatProperties
  <2>2. \A i \in 1 .. k : l + i \in 1 .. l + k /\ ~ (l + i <= l) /\ l + i - l = i
    OBVIOUS
  <2>3. \A i \in 1 .. l : i \in 1 .. l + k /\ i <= l
    OBVIOUS
  <2> HIDE DEF r
  <2>4. QED BY <2>1, <2>2, <2>3
<1>7. \A i, j \in 1 .. l + k : r[i] = r[j] => i = j
  BY <1>6 DEF NoDup
<1> HIDE DEF r
<1> DEFINE Good(n) == \E u \in Seq(Task) : /\ Len(u) = l + n /\ Matches(W, f[n], u)
                                           /\ \A i \in 1 .. l + n : u[i] = r[i]
           Bad == {n \in Nat : n <= k /\ ~ Good(n)}
<1>8. Good(0)
  BY <1>4, <1>5, <1>6
<1>9. ASSUME NEW n \in Nat, n + 1 <= k, Good(n) PROVE Good(n + 1)
  <2>1. PICK u \in Seq(Task) : /\ Len(u) = l + n /\ Matches(W, f[n], u)
                               /\ \A i \in 1 .. l + n : u[i] = r[i]
    BY <1>9
  <2> HIDE DEF Good
  <2>2. PICK t, R : t = p[n + 1] /\ R = f[n]
    OBVIOUS
  <2>3. n + 1 \in 1 .. k /\ l + n + 1 \in 1 .. l + k /\ l + (n + 1) = l + n + 1 /\ n + 1 - 1 = n
    BY <1>9
  <2>4. t \in Task /\ t = r[l + n + 1]
    BY <1>1, <1>6, <2>2, <2>3
  <2>5. t \notin Elems(u)
    <3>1. ASSUME NEW i \in 1 .. l + n PROVE u[i] # t
      <4>1. i \in 1 .. l + k /\ i # l + n + 1
        BY <2>3
      <4>2. r[i] # r[l + n + 1]
        BY <1>7, <2>3, <4>1
      <4>3. QED BY <2>1, <2>4, <4>2
    <3>2. QED BY <2>1, <3>1 DEF Elems
  <2>6. Matches(W, ApplyMQOp(R, Push(t), w), Append(u, t))
    <3>1. Matches(W, R, u)
      BY <2>1, <2>2
    <3>2. QED BY <2>4, <2>5, <3>1, PushMatches
  <2>7. f[n + 1] = ApplyMQOp(R, Push(t), w)
    <3>1. f[n + 1] = ApplyMQOp(f[n + 1 - 1], s[n + 1], w)
      BY <1>4, <2>3
    <3>2. QED BY <1>2, <2>2, <2>3, <3>1
  <2>8. /\ Append(u, t) \in Seq(Task) /\ Len(Append(u, t)) = l + (n + 1)
        /\ \A i \in 1 .. l + (n + 1) : Append(u, t)[i] = r[i]
    <3>1. /\ Append(u, t) \in Seq(Task) /\ Len(Append(u, t)) = l + n + 1
          /\ Append(u, t)[l + n + 1] = t
          /\ \A i \in 1 .. l + n : Append(u, t)[i] = u[i]
      BY <2>1, <2>4, AppendProperties
    <3>2. \A i \in 1 .. l + (n + 1) : i \in 1 .. l + n \/ i = l + n + 1
      OBVIOUS
    <3>3. QED BY <2>1, <2>3, <2>4, <3>1, <3>2
  <2>9. QED BY <2>6, <2>7, <2>8 DEF Good
<1> HIDE DEF Good
<1>10. Bad = {}
  <2>1. SUFFICES ASSUME Bad # {} PROVE FALSE
    OBVIOUS
  <2>2. PICK n \in Bad : \A j \in Bad : n <= j
    <3>1. Bad \in SUBSET Nat
      OBVIOUS
    <3>2. QED BY <2>1, <3>1, LeastNat
  <2>3. n \in Nat /\ n <= k /\ ~ Good(n)
    BY <2>2
  <2>4. n # 0
    BY <1>8, <2>3
  <2>5. PICK m \in Nat : n = m + 1
    <3>1. n - 1 \in Nat /\ n = n - 1 + 1
      BY <2>3, <2>4
    <3>2. QED BY <3>1
  <2>6. m \notin Bad
    <3>1. ~ (n <= m)
      BY <2>5
    <3> HIDE DEF Bad
    <3>2. QED BY <2>2, <3>1
  <2>7. Good(m)
    BY <2>3, <2>5, <2>6
  <2>8. QED BY <1>9, <2>3, <2>5, <2>7
<1>11. Good(k)
  BY <1>10
<1>12. PICK u \in Seq(Task) : /\ Len(u) = l + k /\ Matches(W, f[k], u)
                              /\ \A i \in 1 .. l + k : u[i] = r[i]
  BY <1>11 DEF Good
<1>13. u = r
  BY <1>6, <1>12, SeqEqual
<1>14. QED BY <1>4, <1>12, <1>13 DEF r

\* Nothing to push.
LEMMA NothingPushed ==
  ASSUME NEW w, NEW p \in Seq(Task), p = << >>, Transfer([i \in DOMAIN p |-> Push(p[i])], w)
  PROVE  workerQ' = workerQ
<1>1. [i \in DOMAIN p |-> Push(p[i])] = << >>
  BY DEF Push
<1>2. QED BY <1>1, TransferNone

\* A worker takes the task at the head of its queue.
LEMMA PopMatch ==
  ASSUME NEW W \in SUBSET Worker, NEW q \in Seq(Task), NEW w \in Worker,
         Matches(W, workerQ, q), workerQ[w] # << >>, Transfer(<< Pop >>, w)
  PROVE  Matches(W, workerQ', Without(q, {Head(workerQ[w])}))
<1>1. workerQ' = ApplyMQOp(workerQ, Pop, w)
  BY TransferOne
<1>2. QED BY <1>1, PopMatches

-----------------------------------------------------------------------------
(* What each operation is translated into. *)

\* What is carried out had passed the guards that Accepted lists.
LEMMA StepIsAccepted ==
  ASSUME NEW op \in Operation, Step(op)
  PROVE  Accepted(op)
<1>1. CASE op.kind \in {"spawn", "spawnChild", "restartOne"}
  BY <1>1 DEF Step, Accepted, Spawn, SpawnChild, RestartOne, NewTask
<1>2. CASE op.kind \in {"schedule", "yield", "complete", "sleep", "wake", "tick"}
  BY <1>2 DEF Step, Accepted, Schedule, Dispatch, CanDispatch, Yield, Complete, Sleep, Wake, Tick
<1>3. CASE op.kind \in {"cancel", "fail", "cancelTree", "shutdown"}
  BY <1>3 DEF Step, Accepted, Cancel, Fail, Terminate
<1>4. CASE op.kind \in {"send", "inject"}
  BY <1>4 DEF Step, Accepted, Send, Inject, Deliver, Deliverable
<1>5. CASE op.kind \in {"receive", "receiveFrom", "receiveByOccurrence"}
  BY <1>5 DEF Step, Accepted, Receive, ReceiveFrom, ReceiveByOccurrence, ReceiveWanted
<1>6. CASE op.kind = "receiveUntil"
  <2>1. ReceiveUntil(op.task, op.deadline)
    BY <1>6 DEF Step
  <2>2. Elems(<< >>) = {}
    BY DEF Elems
  <2>3. TakeFirst(op.task, Envelope) => mailboxes[taskOwner[op.task]] # << >>
    BY <2>2 DEF TakeFirst
  <2>4. QED BY <1>6, <2>1, <2>3 DEF Accepted, ReceiveUntil
<1>7. CASE op.kind \in {"stopWhenIdle", "stopWhenDrained", "closeActor"}
  BY <1>7 DEF Step, Accepted, StopWhenIdle, StopWhenDrained, Stop, CloseActor
<1>8. CASE op.kind \in {"acquire", "acquireActor"}
  BY <1>8 DEF Step, Accepted, Acquire, AcquireActor
<1>9. CASE op.kind \in {"release", "releaseActor", "finalize"}
  BY <1>9 DEF Step, Accepted, Release, ReleaseActor, Finalize, Reclaim
<1>10. op.kind \in {"spawn", "spawnChild", "restartOne", "schedule", "yield", "complete",
                    "sleep", "wake", "tick", "cancel", "fail", "cancelTree", "shutdown",
                    "send", "inject", "receive", "receiveFrom", "receiveByOccurrence",
                    "receiveUntil", "stopWhenIdle", "stopWhenDrained", "closeActor",
                    "acquire", "acquireActor", "release", "releaseActor", "finalize"}
  BY DEF Operation
<1>11. QED BY <1>1, <1>2, <1>3, <1>4, <1>5, <1>6, <1>7, <1>8, <1>9, <1>10

Ends == {"cancel", "fail", "cancelTree"}

\* The translation of an operation whose guards hold.
LEMMA Translated ==
  ASSUME NEW op, QGuard(op)
  PROVE  /\ op.kind = "schedule" => ToQOps(op) = << Pop >>
         /\ op.kind \in Ends =>
              ToQOps(op) = [i \in DOMAIN TasksToEnd(op) |-> Discard(TasksToEnd(op)[i])]
         /\ op.kind \notin Ends \cup {"schedule"} =>
              ToQOps(op) = [i \in DOMAIN Pushed(op) |-> Push(Pushed(op)[i])]
  BY DEF ToQOps, Ends

Creations == {"spawn", "spawnChild", "restartOne"}

\* The guards of the translation hold of every operation that step carries out.
LEMMA StepTranslated ==
  ASSUME NEW op \in Operation, Step(op)
  PROVE  QGuard(op)
<1>1. CASE op.kind = "spawn"
  BY <1>1 DEF Step, QGuard, Spawn, NewTask
<1>2. CASE op.kind = "spawnChild"
  BY <1>2 DEF Step, QGuard, SpawnChild, NewTask
<1>3. CASE op.kind = "restartOne"
  BY <1>3 DEF Step, QGuard, RestartOne, NewTask, RestartGuard
<1>4. CASE op.kind = "schedule"
  BY <1>4 DEF Step, QGuard, Schedule, Dispatch, CanDispatch
<1>5. CASE op.kind = "yield"
  BY <1>5 DEF Step, QGuard, Yield
<1>6. CASE op.kind = "wake"
  BY <1>6 DEF Step, QGuard, Wake
<1>7. CASE op.kind \in {"cancel", "fail"}
  BY <1>7 DEF Step, QGuard, Cancel, Fail, Terminate
<1>8. CASE op.kind = "send"
  BY <1>8 DEF Step, QGuard, Send, Deliver, DeliveryGuard
<1>9. CASE op.kind = "inject"
  BY <1>9 DEF Step, QGuard, Inject, Deliver, DeliveryGuard
<1>10. CASE op.kind = "tick"
  BY <1>10 DEF Step, QGuard, Tick
<1>11. CASE op.kind \notin {"spawn", "spawnChild", "restartOne", "schedule", "yield", "wake",
                            "cancel", "fail", "send", "inject", "tick"}
  BY <1>11 DEF QGuard
<1>12. QED BY <1>1, <1>2, <1>3, <1>4, <1>5, <1>6, <1>7, <1>8, <1>9, <1>10, <1>11

\* What step refuses is translated into nothing.
LEMMA RefusedTranslated ==
  ASSUME NEW op \in Operation, Refused(op)
  PROVE  ToQOps(op) = << >>
<1>1. CASE op.kind \in Creations \cup {"schedule", "yield", "wake", "cancel", "fail", "send",
                                       "inject", "tick"}
  <2>1. ~ QGuard(op)
    BY <1>1 DEF Refused, Accepted, QGuard, Creations, Deliverable, DeliveryGuard, RestartGuard
  <2>2. QED BY <2>1 DEF ToQOps
<1>2. op.kind # "cancelTree"
  BY DEF Refused, Accepted
<1>3. CASE op.kind \notin Creations \cup {"schedule", "yield", "wake", "cancel", "fail", "send",
                                          "inject", "tick", "cancelTree"}
  <2>1. Pushed(op) = << >>
    BY <1>3 DEF Pushed, Creations
  <2>2. QGuard(op)
    BY <1>3 DEF QGuard, Creations
  <2>3. ToQOps(op) = [i \in DOMAIN Pushed(op) |-> Push(Pushed(op)[i])]
    BY <1>3, <2>2 DEF ToQOps
  <2>4. QED BY <2>1, <2>3 DEF Push
<1>4. QED BY <1>1, <1>2, <1>3

\* spawn, spawnChild and restartOne put the new task at the tail.
LEMMA CreationPushes ==
  ASSUME TypeOK, NEW op \in Operation, op.kind \in Creations, Step(op)
  PROVE  /\ Pushed(op) = << nextId >> /\ nextId \in Task
         /\ readyQ' = Append(readyQ, nextId)
<1>1. \E p, r : NewTask(op.actor, p, r)
  <2>1. CASE op.kind = "spawn"
    BY <2>1 DEF Step, Spawn
  <2>2. CASE op.kind = "spawnChild"
    BY <2>2 DEF Step, SpawnChild
  <2>3. CASE op.kind = "restartOne"
    BY <2>3 DEF Step, RestartOne
  <2>4. QED BY <2>1, <2>2, <2>3 DEF Creations
<1>2. nextId \in Task /\ readyQ' = Append(readyQ, nextId)
  BY <1>1, BoundsAssumption DEF NewTask, TypeOK, Task
<1>3. Pushed(op) = << nextId >>
  BY DEF Pushed, Creations
<1>4. QED BY <1>2, <1>3

\* yield and wake put the task at the tail.
LEMMA QueuedPushes ==
  ASSUME NEW op \in Operation, op.kind \in {"yield", "wake"}, Step(op)
  PROVE  Pushed(op) = << op.task >> /\ op.task \in Task /\ readyQ' = Append(readyQ, op.task)
<1>1. op.task \in Task
  BY Operands
<1>2. readyQ' = Append(readyQ, op.task)
  BY DEF Step, Yield, Wake
<1>3. Pushed(op) = << op.task >>
  BY DEF Pushed
<1>4. QED BY <1>1, <1>2, <1>3

\* A delivery puts the task it wakes at the tail.
LEMMA DeliveryPushes ==
  ASSUME IInv, NEW op \in Operation, op.kind \in {"send", "inject"}, Step(op)
  PROVE  /\ Pushed(op) \in Seq(Task)
         /\ readyQ' = readyQ \o Pushed(op)
<1> DEFINE b == op.actor
<1>1. \E src : Deliver(b, src)
  BY DEF Step, Send, Inject
<1>2. b \in Actor /\ TypeOK /\ readyQ \in Seq(Task)
  BY Operands DEF IInv, TypeOK
<1>3. Pushed(op) = WaiterToWake(b)
  BY DEF Pushed
<1> HIDE DEF b
<1>4. WakeOneOf(b)
  BY <1>1 DEF Deliver
<1>5. CASE mailboxWaiters[b] # << >>
  <2> DEFINE w == Head(mailboxWaiters[b])
  <2>1. WaiterToWake(b) = << w >> /\ w \in Task /\ WakeWaiter(w)
    BY <1>2, <1>4, <1>5, WaiterIs, HeadIsReceiver DEF WakeOneOf
  <2> HIDE DEF w
  <2>2. readyQ' = Append(readyQ, w)
    BY <2>1 DEF WakeWaiter
  <2>3. Append(readyQ, w) = readyQ \o << w >>
    BY <1>2, <2>1, AppendIsJoin
  <2>4. << w >> \in Seq(Task)
    BY <2>1
  <2>5. QED BY <1>3, <2>1, <2>2, <2>3, <2>4
<1>6. CASE mailboxWaiters[b] = << >> /\ timedMailboxWaiters[b] # << >>
  <2> DEFINE w == Head(timedMailboxWaiters[b])
  <2>1. WaiterToWake(b) = << w >> /\ w \in Task /\ WakeWaiter(w)
    BY <1>2, <1>4, <1>6, WaiterIs, HeadIsReceiver DEF WakeOneOf
  <2> HIDE DEF w
  <2>2. readyQ' = Append(readyQ, w)
    BY <2>1 DEF WakeWaiter
  <2>3. Append(readyQ, w) = readyQ \o << w >>
    BY <1>2, <2>1, AppendIsJoin
  <2>4. << w >> \in Seq(Task)
    BY <2>1
  <2>5. QED BY <1>3, <2>1, <2>2, <2>3, <2>4
<1>7. CASE mailboxWaiters[b] = << >> /\ timedMailboxWaiters[b] = << >>
  <2>1. WaiterToWake(b) = << >>
    BY <1>2, <1>7, WaiterIs
  <2>2. UNCHANGED readyQ
    BY <1>4, <1>7 DEF WakeOneOf
  <2>3. readyQ \o << >> = readyQ
    BY <1>2, ConcatEmptySeq
  <2>4. QED BY <1>3, <2>1, <2>2, <2>3
<1>8. QED BY <1>5, <1>6, <1>7

\* tick puts the tasks that are due at the tail.
LEMMA TickPushes ==
  ASSUME IInv, NEW op \in Operation, op.kind = "tick", Step(op)
  PROVE  /\ Pushed(op) \in Seq(Task)
         /\ readyQ' = readyQ \o Pushed(op)
<1> DEFINE w       == TasksToWake(op.time)
           expired == TasksOf(Expired(timers, op.time))
<1>1. op.time \in Deadline /\ Tick(op.time)
  BY Operands DEF Step
<1>2. w \in Seq(Task)
  <2>1. expired \in Seq(Task)
    BY TimerListTypes DEF IInv, TypeOK
  <2> HIDE DEF expired
  <2>2. \A R : Only(expired, R) \in Seq(Task)
    BY <2>1, TaskListTypes
  <2>3. w = Only(expired, {u \in Task : taskState[u] = "sleeping"})
              \o Only(expired, {u \in Task : taskState[u] = "waitingTimed"})
    BY DEF TasksToWake, expired
  <2>4. QED BY <2>2, <2>3, ConcatProperties
<1>3. readyQ' = readyQ \o w
  BY <1>1 DEF Tick, TasksToWake
<1>4. Pushed(op) = w
  BY DEF Pushed
<1>5. QED BY <1>2, <1>3, <1>4

\* The other operations leave the ready queue alone.
LEMMA OthersPush ==
  ASSUME IInv, NEW op \in Operation, Step(op),
         op.kind \in Receives \cup Quiet \cup {"sleep", "complete"}
  PROVE  Pushed(op) = << >> /\ UNCHANGED readyQ
<1>1. Pushed(op) = << >>
  BY DEF Pushed, Receives, Quiet
<1>2. CASE op.kind \in Receives
  <2>1. \/ TakeFirst(op.task, Wanted(op)) \/ UNCHANGED << readyQ, mailboxes >>
    BY <1>2, ReceiveReports
  <2>2. QED BY <1>1, <2>1 DEF TakeFirst, scheduleVars
<1>3. CASE op.kind \in Quiet
  <2>1. UNCHANGED taskVars
    BY <1>3, QuietFrame
  <2>2. QED BY <1>1, <2>1 DEF taskVars, scheduleVars
<1>4. CASE op.kind = "sleep"
  BY <1>1, <1>4 DEF Step, Sleep
<1>5. CASE op.kind = "complete"
  BY <1>1, <1>5 DEF Step, Complete
<1>6. QED BY <1>2, <1>3, <1>4, <1>5

\* All of them: the pushes of the translation are what joins the ready queue.
LEMMA StepPushes ==
  ASSUME IInv, NEW op \in Operation, Step(op), op.kind \notin Ends \cup {"schedule"}
  PROVE  /\ Pushed(op) \in Seq(Task)
         /\ readyQ' = readyQ \o Pushed(op)
<1>1. readyQ \in Seq(Task) /\ TypeOK
  BY DEF IInv, TypeOK
<1>2. \A t \in Task : Append(readyQ, t) = readyQ \o << t >> /\ << t >> \in Seq(Task)
  BY <1>1, AppendIsJoin
<1>3. CASE op.kind \in Creations
  BY <1>1, <1>2, <1>3, CreationPushes
<1>4. CASE op.kind \in {"yield", "wake"}
  BY <1>2, <1>4, QueuedPushes
<1>5. CASE op.kind \in {"send", "inject"}
  BY <1>5, DeliveryPushes
<1>6. CASE op.kind = "tick"
  BY <1>6, TickPushes
<1>7. CASE op.kind \in Receives \cup Quiet \cup {"sleep", "complete"}
  <2>1. Pushed(op) = << >> /\ readyQ' = readyQ
    BY <1>7, OthersPush
  <2>2. readyQ \o << >> = readyQ /\ << >> \in Seq(Task)
    BY <1>1, ConcatEmptySeq
  <2>3. QED BY <2>1, <2>2
<1>8. op.kind \in Creations \cup Ends \cup Receives \cup Quiet
                  \cup {"schedule", "yield", "wake", "send", "inject", "tick", "sleep", "complete"}
  BY DEF Operation, Creations, Ends, Receives, Quiet
<1>9. QED BY <1>3, <1>4, <1>5, <1>6, <1>7, <1>8

\* The operations that end tasks filter them out of the ready queue.
LEMMA StepDiscards ==
  ASSUME IInv, NEW op \in Operation, Step(op), op.kind \in Ends
  PROVE  /\ TasksToEnd(op) \in Seq(Task)
         /\ readyQ' = Without(readyQ, Elems(TasksToEnd(op)))
<1>1. CASE op.kind \in {"cancel", "cancelTree"}
  BY <1>1, CancelReports
<1>2. CASE op.kind = "fail"
  <2>1. op.task \in Task
    BY <1>2, Operands
  <2>2. readyQ' = Without(readyQ, {op.task})
    BY <1>2 DEF Step, Fail, Terminate
  <2>3. TasksToEnd(op) = << op.task >> /\ Elems(<< op.task >>) = {op.task}
    BY <1>2 DEF TasksToEnd, Elems
  <2>4. << op.task >> \in Seq(Task)
    BY <2>1
  <2>5. QED BY <2>2, <2>3, <2>4
<1>3. QED BY <1>1, <1>2 DEF Ends

-----------------------------------------------------------------------------
(* The workers and the runtime. *)

\* The workers' queues follow an operation that is carried out.
LEMMA StepFollowed ==
  ASSUME IInv, IInv', workers \in SUBSET Worker, Matches(workers, workerQ, readyQ),
         NEW op \in Operation, Step(op), NEW w \in workers, Follow(op, w)
  PROVE  Matches(workers, workerQ', readyQ')
<1>1. /\ readyQ \in Seq(Task) /\ NoDup(readyQ) /\ NoDup(readyQ')
      /\ QGuard(op) /\ Transfer(ToQOps(op), w)
  BY StepTranslated DEF IInv, TypeOK, QueueExact, Follow
<1>2. CASE op.kind \notin Ends \cup {"schedule"}
  <2> DEFINE p == Pushed(op)
  <2>1. p \in Seq(Task) /\ readyQ' = readyQ \o p
    BY <1>2, StepPushes
  <2>2. ToQOps(op) = [i \in DOMAIN p |-> Push(p[i])]
    BY <1>1, <1>2, Translated
  <2> HIDE DEF p
  <2>3. NoDup(readyQ \o p) /\ Transfer([i \in DOMAIN p |-> Push(p[i])], w)
    BY <1>1, <2>1, <2>2
  <2>4. Matches(workers, workerQ', readyQ \o p)
    BY <1>1, <2>1, <2>3, PushesMatch
  <2>5. QED BY <2>1, <2>4
<1>3. CASE op.kind \in Ends
  <2> DEFINE p == TasksToEnd(op)
  <2>1. p \in Seq(Task) /\ readyQ' = Without(readyQ, Elems(p))
    BY <1>3, StepDiscards
  <2>2. ToQOps(op) = [i \in DOMAIN p |-> Discard(p[i])]
    BY <1>1, <1>3, Translated
  <2> HIDE DEF p
  <2>3. Transfer([i \in DOMAIN p |-> Discard(p[i])], w)
    BY <1>1, <2>2
  <2>4. Matches(workers, workerQ', Without(readyQ, Elems(p)))
    BY <1>1, <2>1, <2>3, DiscardsMatch
  <2>5. QED BY <2>1, <2>4
<1>4. CASE op.kind = "schedule"
  <2>1. readyQ # << >> /\ readyQ' = Tail(readyQ)
    BY <1>4 DEF Step, Schedule, Dispatch, CanDispatch
  <2>2. workers = {w} /\ w \in Worker
    BY <1>4 DEF Follow
  <2>3. workerQ[w] = readyQ
    BY <2>2 DEF Matches
  <2>4. Transfer(<< Pop >>, w)
    BY <1>1, <1>4, Translated
  <2>5. Matches(workers, workerQ', Without(readyQ, {Head(workerQ[w])}))
    BY <1>1, <2>1, <2>2, <2>3, <2>4, PopMatch
  <2>6. Without(readyQ, {Head(readyQ)}) = Tail(readyQ)
    BY <1>1, <2>1, WithoutHead
  <2>7. QED BY <2>1, <2>3, <2>5, <2>6
<1>5. QED BY <1>2, <1>3, <1>4

\* One of several workers dispatches the task at its head.
LEMMA PopFollowed ==
  ASSUME IInv, workers \in SUBSET Worker, Matches(workers, workerQ, readyQ),
         NEW w \in Worker, PopAt(w)
  PROVE  Matches(workers, workerQ', readyQ')
<1> DEFINE t == Head(workerQ[w])
           q == << t >> \o RemoveFirst(readyQ, {t})
<1>1. t \in Elems(readyQ) /\ Dispatch(q) /\ Transfer(<< Pop >>, w) /\ workerQ[w] # << >>
  BY DEF PopAt
<1>2. readyQ \in Seq(Task) /\ NoDup(readyQ)
  BY DEF IInv, QueueExact, TypeOK
<1>3. Matches(workers, workerQ', Without(readyQ, {t}))
  BY <1>1, <1>2, PopMatch
<1> HIDE DEF t
<1>4. Tail(q) = Without(readyQ, {t})
  BY <1>1, <1>2, PutFirst
<1> HIDE DEF q
<1>5. readyQ' = Without(readyQ, {t})
  BY <1>1, <1>4 DEF Dispatch
<1>6. QED BY <1>3, <1>5

\* With several workers only membership counts, not the order.
LEMMA SeveralMatch ==
  ASSUME NEW W, NEW Q, NEW q, NEW r, Matches(W, Q, q), Elems(r) = Elems(q),
         \A w \in W : W # {w}
  PROVE  Matches(W, Q, r)
<1>1. /\ Q \in [Worker -> Seq(Task)]
      /\ \A v \in Worker : NoDup(Q[v]) /\ Elems(Q[v]) \subseteq Elems(q)
      /\ \A t \in Elems(q) : \E v \in Worker : t \in Elems(Q[v])
      /\ \A u, v \in Worker : u # v => Elems(Q[u]) \cap Elems(Q[v]) = {}
  BY DEF Matches
<1>2. QED BY <1>1 DEF Matches

\* A task that is stolen moves: it is taken at the head of one queue and pushed
\* to another.
LEMMA StealMatches ==
  ASSUME NEW q \in Seq(Task), NoDup(q), workers \in SUBSET Worker,
         Matches(workers, workerQ, q), NEW src, NEW dst, Steal(src, dst)
  PROVE  Matches(workers, workerQ', q)
<1> DEFINE t == Head(workerQ[src])
           R == ApplyMQOp(workerQ, Pop, src)
           P == ApplyMQOp(R, Push(t), dst)
           u == Without(q, {t})
<1>1. /\ src \in workers /\ dst \in workers /\ src # dst /\ workerQ[src] # << >>
      /\ workerQ' = [workerQ EXCEPT ![src] = Tail(@), ![dst] = Append(@, t)]
      /\ src \in Worker /\ dst \in Worker /\ workers \in SUBSET Worker
  BY DEF Steal
<1>2. /\ workerQ \in [Worker -> Seq(Task)]
      /\ \A v \in Worker : Elems(workerQ[v]) \subseteq Elems(q)
  BY DEF Matches
<1>3. t \in Elems(q) /\ t \in Task
  <2>1. workerQ[src] \in Seq(Task)
    BY <1>1, <1>2
  <2>2. t \in Elems(workerQ[src])
    BY <1>1, <2>1, TailList
  <2>3. Elems(q) \subseteq Task
    BY ElementOfSeq DEF Elems
  <2>4. QED BY <1>1, <1>2, <2>2, <2>3
<1>4. Matches(workers, R, u)
  BY <1>1, PopMatches
<1>5. u \in Seq(Task) /\ Elems(u) = Elems(q) \ {t}
  BY WithoutProperties
<1>6. workerQ' = P
  <2>1. \A v \in Worker : R[v] = IF v = src /\ workerQ[v] # << >> THEN Tail(workerQ[v]) ELSE workerQ[v]
    BY <1>1, OnePop
  <2>2. \A v \in Worker : P[v] = IF v = dst THEN Append(R[v], t) ELSE R[v]
    <3> HIDE DEF R, t
    <3>1. QED BY <1>1, OnePush
  <2>3. P = [v \in Worker |-> P[v]]
    BY DEF ApplyMQOp
  <2> HIDE DEF R, P, t
  <2>4. /\ workerQ' = [v \in Worker |-> workerQ'[v]]
        /\ \A v \in Worker :
             workerQ'[v] = IF v = dst THEN Append(workerQ[v], t)
                           ELSE IF v = src THEN Tail(workerQ[v]) ELSE workerQ[v]
    BY <1>1, <1>2
  <2>5. \A v \in Worker : workerQ'[v] = P[v]
    BY <1>1, <2>1, <2>2, <2>4
  <2>6. QED BY <2>3, <2>4, <2>5
<1> HIDE DEF R, P, u, t
<1>7. Matches(workers, P, Append(u, t))
  <2>1. P = ApplyMQOp(R, Push(t), dst)
    BY DEF P
  <2>2. t \notin Elems(u)
    BY <1>5
  <2>3. Matches(workers, ApplyMQOp(R, Push(t), dst), Append(u, t))
    BY <1>1, <1>3, <1>4, <1>5, <2>2, PushMatches
  <2>4. QED BY <2>1, <2>3
<1>8. Elems(Append(u, t)) = Elems(q)
  <2>1. Elems(Append(u, t)) = Elems(u) \cup {t}
    BY <1>3, <1>5, AppendList
  <2>2. QED BY <1>3, <1>5, <2>1
<1>9. \A w \in workers : workers # {w}
  BY <1>1
<1>10. Matches(workers, P, q)
  BY <1>7, <1>8, <1>9, SeveralMatch
<1>11. QED BY <1>6, <1>10

\* The reader is told, and the workers' queues hold what is ready.
BridgeInv ==
  /\ ReaderInv
  /\ workers \in SUBSET Worker
  /\ Matches(workers, workerQ, readyQ)

\* In the beginning nothing is queued anywhere.
LEMMA BridgeStart ==
  ASSUME ObserversInit
  PROVE  BridgeInv
<1>1. ReaderInv
  BY ReaderInit
<1>2. readyQ = << >> /\ workers \in SUBSET Worker /\ workerQ = [w \in Worker |-> << >>]
  BY DEF ObserversInit, Init, BridgeInit
<1>3. Elems(<< >>) = {} /\ NoDup(<< >>) /\ << >> \in Seq(Task)
  BY DEF Elems, NoDup
<1>4. Matches(workers, workerQ, readyQ)
  <2>1. workerQ \in [Worker -> Seq(Task)] /\ \A v \in Worker : workerQ[v] = << >>
    BY <1>2, <1>3
  <2>2. \A v \in workers : workerQ[v] = readyQ
    BY <1>2, <2>1
  <2>3. Elems(readyQ) = {} /\ \A v \in Worker : Elems(workerQ[v]) = {} /\ NoDup(workerQ[v])
    BY <1>2, <1>3, <2>1
  <2>4. QED BY <2>1, <2>2, <2>3 DEF Matches
<1>5. QED BY <1>1, <1>2, <1>4 DEF BridgeInv

\* Every step keeps the queues of the workers and the ready queue together.
LEMMA BridgeStep ==
  ASSUME BridgeInv, [ObserversNext]_observerVars
  PROVE  BridgeInv'
<1>0. ReaderInv /\ IInv /\ workers \in SUBSET Worker /\ Matches(workers, workerQ, readyQ)
  BY DEF BridgeInv, ReaderInv
<1>1. ReaderInv' /\ IInv'
  <2>1. ReaderInv'
    BY <1>0, ReaderStep
  <2>2. QED BY <2>1 DEF ReaderInv
<1>2. SUFFICES workers' = workers /\ Matches(workers, workerQ', readyQ')
  BY <1>0, <1>1 DEF BridgeInv
<1>3. ASSUME NEW op \in Operation, Offer(op)
      PROVE  workers' = workers /\ Matches(workers, workerQ', readyQ')
  <2>1. PICK w \in workers : Follow(op, w)
    BY <1>3 DEF Offer
  <2>2. workers' = workers
    BY <2>1 DEF Follow
  <2>3. CASE Step(op)
    BY <1>0, <1>1, <2>1, <2>2, <2>3, StepFollowed
  <2>4. CASE Refused(op) /\ UNCHANGED << vars, replay >>
    <3>1. Transfer(<< >>, w)
      BY <2>1, <2>4, RefusedTranslated DEF Follow
    <3>2. workerQ' = workerQ /\ readyQ' = readyQ
      BY <2>4, <3>1, TransferNone DEF vars, scheduleVars
    <3>3. QED BY <1>0, <2>2, <3>2
  <2>5. QED BY <1>3, <2>3, <2>4 DEF Offer
<1>4. ASSUME NEW w \in Worker, OfferPop(w)
      PROVE  workers' = workers /\ Matches(workers, workerQ', readyQ')
  <2>1. PopAt(w)
    BY <1>4 DEF OfferPop
  <2>2. workers' = workers
    BY <2>1 DEF PopAt
  <2>3. QED BY <1>0, <2>1, <2>2, PopFollowed
<1>5. ASSUME NEW v \in Worker, NEW w \in Worker, Steal(v, w), UNCHANGED << vars, replay >>
      PROVE  workers' = workers /\ Matches(workers, workerQ', readyQ')
  <2>1. workers' = workers /\ readyQ' = readyQ
    BY <1>5 DEF Steal, vars, scheduleVars
  <2>2. readyQ \in Seq(Task) /\ NoDup(readyQ)
    BY <1>0 DEF IInv, TypeOK, QueueExact
  <2>3. Matches(workers, workerQ', readyQ)
    BY <1>0, <1>5, <2>2, StealMatches
  <2>4. QED BY <2>1, <2>3
<1>6. CASE UNCHANGED observerVars
  BY <1>0, <1>6 DEF observerVars, vars, scheduleVars
<1>7. QED BY <1>3, <1>4, <1>5, <1>6 DEF ObserversNext

\* Whatever is offered, dispatched and stolen, and however many workers take part,
\* their queues hold the ready tasks, each once and nothing else, and the queue of
\* a lone worker is the ready queue (Grammar.lean, MultiState.lean): the guards
\* that the translation repeats agree with those of step for good.
THEOREM BridgesAreExact == ObserversSpec => []BridgesExact
<1>1. ObserversInit => BridgeInv
  BY BridgeStart
<1>2. BridgeInv /\ [ObserversNext]_observerVars => BridgeInv'
  BY BridgeStep
<1>3. BridgeInv => BridgesExact
  BY MatchesExact DEF BridgeInv
<1>4. QED BY <1>1, <1>2, <1>3, PTL DEF ObserversSpec

=============================================================================
