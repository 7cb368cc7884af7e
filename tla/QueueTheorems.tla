---------------------------- MODULE QueueTheorems ----------------------------
(***************************************************************************)
(* What the list operators of Queues do, for lists of any length.          *)
(*                                                                         *)
(* Induction on the length of a list is done with the least element of a   *)
(* set of counterexamples (LeastNat), because the induction rules of the   *)
(* library take the induction hypothesis as an operator argument.          *)
(***************************************************************************)
EXTENDS Queues, TLAPS, WellFoundedInduction, SequenceTheorems

NatLess == {ss \in Nat \X Nat : ss[1] < ss[2]}

\* The order of the naturals has no infinite descent.
LEMMA NatLessWellFounded == IsWellFoundedOn(NatLess, Nat)
  BY NatLessThanWellFounded, Zenon DEF OpToRel, NatLess

\* A set of naturals that is not empty has a least element.
LEMMA LeastNat ==
  ASSUME NEW T \in SUBSET Nat, T # {}
  PROVE  \E n \in T : \A m \in T : n <= m
<1>1. PICK x \in T : \A y \in T : ~ (<<y, x>> \in NatLess)
  BY NatLessWellFounded, WFMin, Zenon
<1>2. ASSUME NEW y \in T PROVE x <= y
  <2>1. ~ (<<y, x>> \in NatLess)
    BY <1>1
  <2>2. y \in Nat /\ x \in Nat
    OBVIOUS
  <2>3. QED BY <2>1, <2>2 DEF NatLess
<1>3. QED BY <1>2

-----------------------------------------------------------------------------
(* The recursive function behind Without, on the first n members of q.     *)

KeptBody(q, S, n, f) ==
  [i \in 0 .. n |->
     IF i = 0 THEN << >>
     ELSE IF q[i] \in S THEN f[i - 1] ELSE Append(f[i - 1], q[i])]

\* The recursive definition of the filter has a solution on the first n members.
LEMMA KeptExists ==
  ASSUME NEW q, NEW S, NEW n \in Nat
  PROVE  \E f : f = KeptBody(q, S, n, f)
<1> DEFINE Bad == {m \in Nat : ~ \E f : f = KeptBody(q, S, m, f)}
<1>1. SUFFICES ASSUME Bad # {} PROVE FALSE
  OBVIOUS
<1>2. PICK m \in Bad : \A k \in Bad : m <= k
  BY <1>1, LeastNat
<1>3. m # 0
  <2> DEFINE g == [i \in 0 .. 0 |-> << >>]
  <2>1. g = KeptBody(q, S, 0, g)
    BY DEF KeptBody
  <2>2. QED BY <2>1
<1>4. m - 1 \in Nat /\ ~ (m <= m - 1)
  BY <1>3
<1>5. PICK f : f = KeptBody(q, S, m - 1, f)
  BY <1>2, <1>4
<1> DEFINE last == IF q[m] \in S THEN f[m - 1] ELSE Append(f[m - 1], q[m])
           g    == [i \in 0 .. m |-> IF i = m THEN last ELSE f[i]]
<1>6. ASSUME NEW i \in 0 .. m
      PROVE  g[i] = IF i = 0 THEN << >>
                    ELSE IF q[i] \in S THEN g[i - 1] ELSE Append(g[i - 1], q[i])
  <2>1. CASE i = m
    BY <2>1, <1>3
  <2>2. CASE i # m
    <3>1. i \in 0 .. m - 1
      BY <2>2
    <3>2. f[i] = IF i = 0 THEN << >>
                 ELSE IF q[i] \in S THEN f[i - 1] ELSE Append(f[i - 1], q[i])
      BY <3>1, <1>5 DEF KeptBody
    <3>3. QED BY <3>1, <3>2
  <2>3. QED BY <2>1, <2>2
<1>7. g = KeptBody(q, S, m, g)
  <2>1. g = [i \in 0 .. m |-> g[i]]
    OBVIOUS
  <2>2. QED BY <1>6, <2>1 DEF KeptBody
<1>8. QED BY <1>7

\* w lists, in order, the members of the first n members of q outside S: h
\* gives the place in q of each member of w.
Picks(q, S, n, w, h) ==
  /\ h \in [1 .. Len(w) -> 1 .. n]
  /\ \A k \in 1 .. Len(w) : w[k] = q[h[k]] /\ q[h[k]] \notin S
  /\ \A k, l \in 1 .. Len(w) : k < l => h[k] < h[l]
  /\ \A i \in 1 .. n : q[i] \notin S => \E k \in 1 .. Len(w) : h[k] = i

\* That solution lists, in order, the members outside S seen so far.
LEMMA KeptPicks ==
  ASSUME NEW T, NEW q \in Seq(T), NEW S, NEW f, f = KeptBody(q, S, Len(q), f),
         NEW n \in 0 .. Len(q)
  PROVE  f[n] \in Seq(T) /\ \E h : Picks(q, S, n, f[n], h)
<1> DEFINE Good(m) == f[m] \in Seq(T) /\ \E h : Picks(q, S, m, f[m], h)
           Bad     == {m \in Nat : m <= Len(q) /\ ~ Good(m)}
<1>1. SUFFICES ASSUME Bad # {} PROVE FALSE
  OBVIOUS
<1>2. PICK m \in Bad : \A k \in Bad : m <= k
  <2>1. Bad \in SUBSET Nat
    OBVIOUS
  <2>2. QED BY <1>1, <2>1, LeastNat
<1>3. /\ f[0] = << >>
      /\ \A i \in 1 .. Len(q) :
           f[i] = IF q[i] \in S THEN f[i - 1] ELSE Append(f[i - 1], q[i])
  <2>1. Len(q) \in Nat
    BY LenProperties
  <2>2. 0 \in 0 .. Len(q) /\ \A i \in 1 .. Len(q) : i \in 0 .. Len(q) /\ i # 0
    BY <2>1
  <2>3. \A i \in 0 .. Len(q) :
          f[i] = IF i = 0 THEN << >>
                 ELSE IF q[i] \in S THEN f[i - 1] ELSE Append(f[i - 1], q[i])
    BY Zenon DEF KeptBody
  <2>4. QED BY <2>2, <2>3, Zenon
<1>4. m # 0
  <2>1. << >> \in Seq(T) /\ Len(<< >>) = 0
    BY EmptySeq
  <2>2. Picks(q, S, 0, << >>, [k \in 1 .. 0 |-> k])
    BY <2>1 DEF Picks
  <2>3. Good(0)
    BY <2>1, <2>2, <1>3
  <2>4. QED BY <2>3
<1>5. m - 1 \in Nat /\ ~ (m <= m - 1) /\ m \in 1 .. Len(q)
  BY <1>4
<1>6. Good(m - 1)
  BY <1>2, <1>5
<1> DEFINE w == f[m - 1]
<1>7. PICK h : Picks(q, S, m - 1, w, h)
  BY <1>6
<1>8. w \in Seq(T) /\ Len(w) \in Nat
  BY <1>6, LenProperties
<1>9. CASE q[m] \in S
  <2>1. f[m] = w
    BY <1>3, <1>5, <1>9
  <2>2. Picks(q, S, m, w, h)
    BY <1>5, <1>7, <1>8, <1>9 DEF Picks
  <2>3. QED BY <1>8, <2>1, <2>2
<1>10. CASE q[m] \notin S
  <2>1. f[m] = Append(w, q[m])
    BY <1>3, <1>5, <1>10
  <2>2. q[m] \in T
    BY <1>5, ElementOfSeq
  <2>3. /\ Append(w, q[m]) \in Seq(T)
        /\ Len(Append(w, q[m])) = Len(w) + 1
        /\ \A k \in 1 .. Len(w) : Append(w, q[m])[k] = w[k]
        /\ Append(w, q[m])[Len(w) + 1] = q[m]
    BY <1>8, <2>2, AppendProperties
  <2> DEFINE g == [k \in 1 .. Len(w) + 1 |-> IF k = Len(w) + 1 THEN m ELSE h[k]]
  <2>4. Picks(q, S, m, Append(w, q[m]), g)
    <3>1. g \in [1 .. Len(w) + 1 -> 1 .. m]
      BY <1>5, <1>7, <1>8 DEF Picks
    <3>2. \A k \in 1 .. Len(w) + 1 :
            Append(w, q[m])[k] = q[g[k]] /\ q[g[k]] \notin S
      BY <1>7, <1>8, <1>10, <2>3 DEF Picks
    <3>3. \A k, l \in 1 .. Len(w) + 1 : k < l => g[k] < g[l]
      <4>1. ASSUME NEW k \in 1 .. Len(w) + 1, NEW l \in 1 .. Len(w) + 1, k < l
            PROVE  g[k] < g[l]
        <5>1. k \in 1 .. Len(w) /\ k # Len(w) + 1 /\ g[k] = h[k]
          BY <4>1, <1>8
        <5>2. h[k] \in 1 .. m - 1
          BY <5>1, <1>7 DEF Picks
        <5>3. CASE l = Len(w) + 1
          BY <5>1, <5>2, <5>3, <1>5
        <5>4. CASE l # Len(w) + 1
          <6>1. l \in 1 .. Len(w) /\ g[l] = h[l]
            BY <5>4, <1>8
          <6>2. QED BY <4>1, <5>1, <6>1, <1>7 DEF Picks
        <5>5. QED BY <5>3, <5>4
      <4>2. QED BY <4>1
    <3>4. ASSUME NEW i \in 1 .. m, q[i] \notin S
          PROVE  \E k \in 1 .. Len(w) + 1 : g[k] = i
      <4>1. CASE i = m
        <5>1. Len(w) + 1 \in 1 .. Len(w) + 1 /\ g[Len(w) + 1] = i
          BY <4>1, <1>8
        <5>2. QED BY <5>1
      <4>2. CASE i # m
        <5>1. i \in 1 .. m - 1
          BY <4>2, <1>5
        <5>2. PICK k \in 1 .. Len(w) : h[k] = i
          BY <5>1, <3>4, <1>7 DEF Picks
        <5>3. k \in 1 .. Len(w) + 1 /\ g[k] = i
          BY <5>2, <1>8
        <5>4. QED BY <5>3
      <4>3. QED BY <4>1, <4>2
    <3>5. QED BY <2>3, <3>1, <3>2, <3>3, <3>4 DEF Picks
  <2>5. QED BY <2>1, <2>3, <2>4
<1>11. QED BY <1>9, <1>10

\* Without picks out the members outside S, in order.
THEOREM WithoutPicks ==
  ASSUME NEW T, NEW q \in Seq(T), NEW S
  PROVE  Without(q, S) \in Seq(T) /\ \E h : Picks(q, S, Len(q), Without(q, S), h)
<1>1. Len(q) \in Nat /\ Len(q) \in 0 .. Len(q)
  BY LenProperties
<1> DEFINE f == CHOOSE f : f = KeptBody(q, S, Len(q), f)
<1>2. f = KeptBody(q, S, Len(q), f)
  BY <1>1, KeptExists
<1>3. Without(q, S) = f[Len(q)]
  BY Zenon DEF Without, KeptBody
<1> HIDE DEF f
<1>4. QED BY <1>1, <1>2, <1>3, KeptPicks

\* The list of the tasks of the timers is as long as the timer queue.
LEMMA LenOfTasks ==
  ASSUME NEW q, Len(q) \in Nat
  PROVE  /\ Len(TasksOf(q)) = Len(q)
         /\ \A i \in 1 .. Len(q) : TasksOf(q)[i] = q[i].task
  BY DEF TasksOf

\* What the runtime's invariants need of Without: the members are the ones
\* outside S, and an order or an injectivity of q is kept.
THEOREM WithoutProperties ==
  ASSUME NEW T, NEW q \in Seq(T), NEW S
  PROVE  /\ Without(q, S) \in Seq(T)
         /\ Elems(Without(q, S)) = Elems(q) \ S
         /\ NoDup(q) => NoDup(Without(q, S))
         /\ Sorted(q) => Sorted(Without(q, S))
         /\ NoDup(TasksOf(q)) => NoDup(TasksOf(Without(q, S)))
<1> DEFINE w == Without(q, S)
<1>1. w \in Seq(T) /\ \E h : Picks(q, S, Len(q), w, h)
  BY WithoutPicks
<1>2. PICK h : Picks(q, S, Len(q), w, h)
  BY <1>1
<1>3. Len(q) \in Nat /\ Len(w) \in Nat
  BY <1>1, LenProperties
<1> HIDE DEF w
<1>4. Elems(w) = Elems(q) \ S
  BY <1>2, <1>3 DEF Picks, Elems
<1>5. ASSUME NoDup(q) PROVE NoDup(w)
  BY <1>2, <1>3, <1>5 DEF Picks, NoDup
<1>6. ASSUME Sorted(q) PROVE Sorted(w)
  BY <1>2, <1>3, <1>6 DEF Picks, Sorted
<1>7. ASSUME NoDup(TasksOf(q)) PROVE NoDup(TasksOf(w))
  <2>1. SUFFICES ASSUME NEW k \in 1 .. Len(w), NEW l \in 1 .. Len(w),
                        w[k].task = w[l].task
                 PROVE  k = l
    BY <1>3, LenOfTasks DEF NoDup, TasksOf
  <2>2. h[k] \in 1 .. Len(q) /\ h[l] \in 1 .. Len(q) /\ q[h[k]].task = q[h[l]].task
    BY <1>2, <2>1 DEF Picks
  <2>3. h[k] = h[l]
    BY <1>3, <1>7, <2>2, LenOfTasks DEF NoDup, TasksOf
  <2>4. (k < l => h[k] < h[l]) /\ (l < k => h[l] < h[k])
    BY <1>2 DEF Picks
  <2>5. QED BY <1>3, <2>2, <2>3, <2>4
<1>8. QED BY <1>1, <1>4, <1>5, <1>6, <1>7 DEF w

\* Only keeps the members inside S.
THEOREM OnlyProperties ==
  ASSUME NEW T, NEW q \in Seq(T), NEW S
  PROVE  /\ Only(q, S) \in Seq(T)
         /\ Elems(Only(q, S)) = Elems(q) \cap S
         /\ NoDup(q) => NoDup(Only(q, S))
         /\ Sorted(q) => Sorted(Only(q, S))
         /\ NoDup(TasksOf(q)) => NoDup(TasksOf(Only(q, S)))
  BY WithoutProperties DEF Only

-----------------------------------------------------------------------------
(* Inserting into and removing from a list.                                *)

\* The place insertSorted chooses exists, whether or not the queue is sorted.
LEMMA SlotExists ==
  ASSUME NEW T, NEW q \in Seq(T), NEW e \in T, \A x \in T : x.deadline \in Int
  PROVE  \E i \in 1 .. Len(q) + 1 :
           /\ \A j \in 1 .. i - 1 : q[j].deadline < e.deadline
           /\ i <= Len(q) => e.deadline <= q[i].deadline
<1> DEFINE Cand == {i \in 1 .. Len(q) + 1 : i <= Len(q) => e.deadline <= q[i].deadline}
<1>1. Len(q) \in Nat /\ \A j \in 1 .. Len(q) : q[j] \in T
  BY LenProperties, ElementOfSeq
<1>2. Cand \in SUBSET Nat /\ Len(q) + 1 \in Cand
  BY <1>1
<1>3. PICK i \in Cand : \A m \in Cand : i <= m
  BY <1>2, LeastNat
<1>4. ASSUME NEW j \in 1 .. i - 1 PROVE q[j].deadline < e.deadline
  <2>1. j \in 1 .. Len(q) /\ ~ (i <= j)
    BY <1>1
  <2>2. j \notin Cand
    BY <1>3, <2>1
  <2>3. ~ (e.deadline <= q[j].deadline)
    BY <1>1, <2>1, <2>2
  <2>4. q[j].deadline \in Int /\ e.deadline \in Int
    BY <1>1, <2>1
  <2>5. QED BY <2>3, <2>4
<1>5. QED BY <1>3, <1>4

\* insertSorted adds one entry at one place and shifts the rest.
LEMMA InsertSortedPlace ==
  ASSUME NEW T, NEW q \in Seq(T), NEW e \in T, \A x \in T : x.deadline \in Int
  PROVE  \E s \in 1 .. Len(q) + 1 :
           /\ InsertSorted(e, q) \in Seq(T)
           /\ Len(InsertSorted(e, q)) = Len(q) + 1
           /\ \A i \in 1 .. Len(q) + 1 :
                InsertSorted(e, q)[i] =
                  IF i < s THEN q[i] ELSE IF i = s THEN e ELSE q[i - 1]
           /\ \A j \in 1 .. s - 1 : q[j].deadline < e.deadline
           /\ s <= Len(q) => e.deadline <= q[s].deadline
<1> DEFINE s == CHOOSE i \in 1 .. Len(q) + 1 :
                  /\ \A j \in 1 .. i - 1 : q[j].deadline < e.deadline
                  /\ i <= Len(q) => e.deadline <= q[i].deadline
           l == SubSeq(q, 1, s - 1)
           r == SubSeq(q, s, Len(q))
<1>1. /\ s \in 1 .. Len(q) + 1
      /\ \A j \in 1 .. s - 1 : q[j].deadline < e.deadline
      /\ s <= Len(q) => e.deadline <= q[s].deadline
  BY SlotExists, Zenon
<1>2. InsertSorted(e, q) = l \o << e >> \o r
  BY Zenon DEF InsertSorted
<1> HIDE DEF s
<1>3. Len(q) \in Nat /\ s \in Nat /\ \A j \in 1 .. Len(q) : q[j] \in T
  BY <1>1, LenProperties, ElementOfSeq
<1>4. l \in Seq(T) /\ Len(l) = s - 1 /\ \A i \in 1 .. s - 1 : l[i] = q[i]
  <2>1. \A i \in 1 .. s - 1 : q[i] \in T
    BY <1>1, <1>3
  <2>2. 1 \in Int /\ s - 1 \in Int
    BY <1>3
  <2>3. QED BY <1>1, <1>3, <2>1, <2>2, SubSeqProperties
<1>5. /\ r \in Seq(T) /\ Len(r) = Len(q) - s + 1
      /\ \A i \in 1 .. Len(q) - s + 1 : r[i] = q[s + i - 1]
  <2>1. \A i \in s .. Len(q) : q[i] \in T
    BY <1>1, <1>3
  <2>2. QED BY <1>1, <1>3, <2>1, SubSeqProperties
<1> HIDE DEF l, r
<1>6. << e >> \in Seq(T) /\ Len(<< e >>) = 1 /\ << e >>[1] = e
  OBVIOUS
<1> DEFINE m == l \o << e >>
<1>7. /\ m \in Seq(T) /\ Len(m) = s
      /\ \A i \in 1 .. s : m[i] = IF i < s THEN q[i] ELSE e
  BY <1>3, <1>4, <1>6, ConcatProperties
<1> HIDE DEF m
<1>8. /\ m \o r \in Seq(T) /\ Len(m \o r) = Len(q) + 1
      /\ \A i \in 1 .. Len(q) + 1 :
           (m \o r)[i] = IF i < s THEN q[i] ELSE IF i = s THEN e ELSE q[i - 1]
  BY <1>3, <1>1, <1>5, <1>7, ConcatProperties
<1>9. QED BY <1>1, <1>2, <1>8 DEF m

\* insertSorted adds the entry and nothing else, keeps the queue sorted, and
\* keeps the timers of different tasks apart (Timer.lean).
THEOREM InsertSortedProperties ==
  ASSUME NEW T, NEW q \in Seq(T), NEW e \in T, \A x \in T : x.deadline \in Int
  PROVE  /\ InsertSorted(e, q) \in Seq(T)
         /\ Elems(InsertSorted(e, q)) = Elems(q) \cup {e}
         /\ Sorted(q) => Sorted(InsertSorted(e, q))
         /\ NoDup(TasksOf(q)) /\ e.task \notin Elems(TasksOf(q))
              => NoDup(TasksOf(InsertSorted(e, q)))
<1> DEFINE w == InsertSorted(e, q)
<1>1. PICK s \in 1 .. Len(q) + 1 :
        /\ w \in Seq(T)
        /\ Len(w) = Len(q) + 1
        /\ \A i \in 1 .. Len(q) + 1 :
             w[i] = IF i < s THEN q[i] ELSE IF i = s THEN e ELSE q[i - 1]
        /\ \A j \in 1 .. s - 1 : q[j].deadline < e.deadline
        /\ s <= Len(q) => e.deadline <= q[s].deadline
  BY InsertSortedPlace
<1> HIDE DEF w
<1>2. Len(q) \in Nat /\ \A j \in 1 .. Len(q) : q[j] \in T
  BY LenProperties, ElementOfSeq
<1>3. Elems(w) = Elems(q) \cup {e}
  <2>1. ASSUME NEW i \in 1 .. Len(w) PROVE w[i] \in Elems(q) \cup {e}
    BY <1>1, <1>2 DEF Elems
  <2>2. ASSUME NEW i \in 1 .. Len(q) PROVE q[i] \in Elems(w)
    <3>1. CASE i < s
      <4>1. i \in 1 .. Len(w) /\ w[i] = q[i]
        BY <1>1, <1>2, <3>1
      <4>2. QED BY <4>1 DEF Elems
    <3>2. CASE ~ (i < s)
      <4>1. i + 1 \in 1 .. Len(w) /\ w[i + 1] = q[i]
        BY <1>1, <1>2, <3>2
      <4>2. QED BY <4>1 DEF Elems
    <3>3. QED BY <3>1, <3>2
  <2>3. e \in Elems(w)
    <3>1. s \in 1 .. Len(w) /\ w[s] = e
      BY <1>1, <1>2
    <3>2. QED BY <3>1 DEF Elems
  <2>4. QED BY <2>1, <2>2, <2>3 DEF Elems
<1>4. ASSUME Sorted(q) PROVE Sorted(w)
  <2>1. \A i \in 1 .. Len(q) : q[i].deadline \in Int
    BY <1>2
  <2>2. e.deadline \in Int
    OBVIOUS
  <2>3. \A i \in 1 .. Len(q) : s <= i => e.deadline <= q[i].deadline
    BY <1>1, <1>2, <1>4, <2>1, <2>2 DEF Sorted
  <2>4. SUFFICES ASSUME NEW i \in 1 .. Len(q) + 1, NEW j \in 1 .. Len(q) + 1, i < j
                 PROVE  w[i].deadline <= w[j].deadline
    BY <1>1 DEF Sorted
  <2>5. CASE j < s
    BY <1>1, <1>2, <1>4, <2>4, <2>5 DEF Sorted
  <2>6. CASE j = s
    BY <1>1, <1>2, <2>1, <2>2, <2>4, <2>6
  <2>7. CASE s < j
    <3>1. w[j] = q[j - 1] /\ j - 1 \in 1 .. Len(q) /\ s <= j - 1
      BY <1>1, <1>2, <2>7
    <3>2. CASE i < s
      <4>1. w[i] = q[i] /\ i \in 1 .. Len(q) /\ i < j - 1
        BY <1>1, <1>2, <3>1, <3>2
      <4>2. QED BY <3>1, <4>1, <1>4, <1>2 DEF Sorted
    <3>3. CASE i = s
      BY <1>1, <2>3, <3>1, <3>3
    <3>4. CASE s < i
      <4>1. w[i] = q[i - 1] /\ i - 1 \in 1 .. Len(q) /\ i - 1 < j - 1
        BY <1>1, <1>2, <2>4, <3>4
      <4>2. QED BY <3>1, <4>1, <1>4, <1>2 DEF Sorted
    <3>5. QED BY <1>1, <1>2, <3>2, <3>3, <3>4
  <2>8. QED BY <1>1, <1>2, <2>5, <2>6, <2>7
<1>5. ASSUME NoDup(TasksOf(q)), e.task \notin Elems(TasksOf(q))
      PROVE  NoDup(TasksOf(w))
  <2>1. \A i, j \in 1 .. Len(q) : q[i].task = q[j].task => i = j
    BY <1>2, <1>5, LenOfTasks DEF NoDup
  <2>2. \A i \in 1 .. Len(q) : q[i].task # e.task
    BY <1>2, <1>5, LenOfTasks DEF Elems
  <2>3. SUFFICES ASSUME NEW i \in 1 .. Len(w), NEW j \in 1 .. Len(w),
                        w[i].task = w[j].task, i < j
                 PROVE  FALSE
    <3>1. ASSUME NEW i \in 1 .. Len(w), NEW j \in 1 .. Len(w),
                 w[i].task = w[j].task
          PROVE  i = j
      BY <2>3, <3>1, <1>1, <1>2
    <3>2. QED BY <3>1, <1>1, <1>2, LenOfTasks DEF NoDup
  <2>4. CASE j <= s
    <3>1. i \in 1 .. Len(q) /\ w[i] = q[i]
      BY <1>1, <1>2, <2>3, <2>4
    <3>2. CASE j = s
      BY <1>1, <1>2, <2>2, <2>3, <3>1, <3>2
    <3>3. CASE j < s
      <4>1. j \in 1 .. Len(q) /\ w[j] = q[j] /\ i # j
        BY <1>1, <1>2, <2>3, <3>3
      <4>2. QED BY <2>1, <2>3, <3>1, <4>1
    <3>4. QED BY <1>1, <1>2, <2>4, <3>2, <3>3
  <2>5. CASE s < j
    <3>1. j - 1 \in 1 .. Len(q) /\ w[j] = q[j - 1]
      BY <1>1, <1>2, <2>5
    <3>2. CASE i < s
      <4>1. i \in 1 .. Len(q) /\ w[i] = q[i] /\ i # j - 1
        BY <1>1, <1>2, <2>5, <3>2
      <4>2. QED BY <2>1, <2>3, <3>1, <4>1
    <3>3. CASE i = s
      BY <1>1, <1>2, <2>2, <2>3, <3>1, <3>3
    <3>4. CASE s < i
      <4>1. i - 1 \in 1 .. Len(q) /\ w[i] = q[i - 1] /\ i - 1 # j - 1
        BY <1>1, <1>2, <2>3, <3>4
      <4>2. QED BY <2>1, <2>3, <3>1, <4>1
    <3>5. QED BY <1>1, <1>2, <3>2, <3>3, <3>4
  <2>6. QED BY <1>1, <1>2, <2>4, <2>5
<1>6. QED BY <1>1, <1>3, <1>4, <1>5 DEF w

\* listDequeueFirst takes out the first member of S and keeps the rest in order.
THEOREM RemoveFirstProperties ==
  ASSUME NEW T, NEW q \in Seq(T), NEW S, Elems(q) \cap S # {}
  PROVE  \E k \in 1 .. Len(q) :
           /\ q[k] \in S /\ \A j \in 1 .. k - 1 : q[j] \notin S
           /\ RemoveFirst(q, S) \in Seq(T)
           /\ Len(RemoveFirst(q, S)) = Len(q) - 1
           /\ \A i \in 1 .. Len(q) - 1 :
                RemoveFirst(q, S)[i] = IF i < k THEN q[i] ELSE q[i + 1]
<1> DEFINE Cand == {i \in 1 .. Len(q) : q[i] \in S}
           k    == FirstIn(q, S)
           l    == SubSeq(q, 1, k - 1)
           r    == SubSeq(q, k + 1, Len(q))
<1>1. Len(q) \in Nat /\ \A j \in 1 .. Len(q) : q[j] \in T
  BY LenProperties, ElementOfSeq
<1>2. Cand \in SUBSET Nat /\ Cand # {}
  BY <1>1 DEF Elems
<1>3. PICK i \in Cand : \A m \in Cand : i <= m
  BY <1>2, LeastNat
<1>4. \A j \in 1 .. i - 1 : q[j] \notin S
  BY <1>1, <1>3
<1>5. k \in 1 .. Len(q) /\ q[k] \in S /\ \A j \in 1 .. k - 1 : q[j] \notin S
  BY <1>3, <1>4, Zenon DEF FirstIn
<1> HIDE DEF k
<1>6. l \in Seq(T) /\ Len(l) = k - 1 /\ \A j \in 1 .. k - 1 : l[j] = q[j]
  <2>1. k - 1 \in Int /\ \A j \in 1 .. k - 1 : q[j] \in T
    BY <1>1, <1>5
  <2>2. QED BY <1>5, <1>1, <2>1, SubSeqProperties
<1>7. /\ r \in Seq(T) /\ Len(r) = Len(q) - k
      /\ \A j \in 1 .. Len(q) - k : r[j] = q[k + j]
  <2>1. k + 1 \in Int /\ \A j \in k + 1 .. Len(q) : q[j] \in T
    BY <1>1, <1>5
  <2>2. QED BY <1>5, <1>1, <2>1, SubSeqProperties
<1>8. RemoveFirst(q, S) = l \o r
  BY DEF RemoveFirst, k
<1> HIDE DEF l, r
<1>9. /\ l \o r \in Seq(T) /\ Len(l \o r) = Len(q) - 1
      /\ \A j \in 1 .. Len(q) - 1 : (l \o r)[j] = IF j < k THEN q[j] ELSE q[j + 1]
  <2>1. k \in Nat /\ Len(l) + Len(r) = Len(q) - 1
    BY <1>1, <1>5, <1>6, <1>7
  <2>2. /\ l \o r \in Seq(T) /\ Len(l \o r) = Len(q) - 1
        /\ \A j \in 1 .. Len(q) - 1 :
             (l \o r)[j] = IF j <= Len(l) THEN l[j] ELSE r[j - Len(l)]
    <3>1. l \in Seq(T) /\ r \in Seq(T)
      BY <1>6, <1>7
    <3>2. /\ l \o r \in Seq(T) /\ Len(l \o r) = Len(l) + Len(r)
          /\ \A j \in 1 .. Len(l) + Len(r) :
               (l \o r)[j] = IF j <= Len(l) THEN l[j] ELSE r[j - Len(l)]
      BY <3>1, ConcatProperties
    <3>3. QED BY <2>1, <3>2
  <2>3. ASSUME NEW j \in 1 .. Len(q) - 1
        PROVE  (l \o r)[j] = IF j < k THEN q[j] ELSE q[j + 1]
    <3>1. CASE j < k
      BY <1>1, <1>6, <2>1, <2>2, <3>1
    <3>2. CASE ~ (j < k)
      <4>1. j - Len(l) \in 1 .. Len(q) - k /\ k + (j - Len(l)) = j + 1
        BY <1>1, <1>6, <2>1, <3>2
      <4>2. QED BY <1>1, <1>6, <1>7, <2>1, <2>2, <3>2, <4>1
    <3>3. QED BY <3>1, <3>2
  <2>4. QED BY <2>2, <2>3
<1>10. QED BY <1>5, <1>8, <1>9

-----------------------------------------------------------------------------
(* There is one list of the members outside S in their order, so an         *)
(* operation that yields such a list yields what Without does.              *)

\* Two lists that pick the same members: where they agree so far, the next
\* choice of one is not before that of the other, which has no more to choose.
LEMMA PicksAgree ==
  ASSUME NEW n \in Nat, NEW q, NEW S, NEW v, NEW w, NEW h, NEW g,
         Len(v) \in Nat, Len(w) \in Nat,
         Picks(q, S, n, v, h), Picks(q, S, n, w, g),
         NEW k \in 1 .. Len(v),
         \A j \in 1 .. k - 1 : j \in 1 .. Len(w) /\ g[j] = h[j]
  PROVE  k \in 1 .. Len(w) /\ ~ (h[k] < g[k])
<1>1. h[k] \in 1 .. n /\ q[h[k]] \notin S
  BY DEF Picks
<1>2. PICK i \in 1 .. Len(w) : g[i] = h[k]
  BY <1>1 DEF Picks
<1>3. ~ (i < k)
  <2>1. SUFFICES ASSUME i < k PROVE FALSE
    OBVIOUS
  <2>2. i \in 1 .. k - 1 /\ i \in 1 .. Len(v)
    BY <2>1
  <2>3. h[i] = h[k] /\ h[i] < h[k]
    BY <1>2, <2>1, <2>2 DEF Picks
  <2>4. QED BY <1>1, <2>3
<1>4. k \in 1 .. Len(w)
  BY <1>3
<1>5. g[k] \in 1 .. n /\ (k < i => g[k] < g[i])
  BY <1>4 DEF Picks
<1>6. QED BY <1>1, <1>2, <1>3, <1>4, <1>5

\* A list that picks the members outside S, in order, is Without(q, S).
LEMMA WithoutIs ==
  ASSUME NEW T, NEW q \in Seq(T), NEW S, NEW v \in Seq(T), NEW h,
         Picks(q, S, Len(q), v, h)
  PROVE  Without(q, S) = v
<1> DEFINE w == Without(q, S)
<1>1. w \in Seq(T) /\ \E g : Picks(q, S, Len(q), w, g)
  BY WithoutPicks
<1>2. PICK g : Picks(q, S, Len(q), w, g)
  BY <1>1
<1>3. Len(q) \in Nat /\ Len(v) \in Nat /\ Len(w) \in Nat
  BY <1>1, LenProperties
<1> HIDE DEF w
<1> DEFINE Bad == {k \in Nat : /\ k \in 1 .. Len(v) \cup 1 .. Len(w)
                               /\ ~ (k \in 1 .. Len(v) /\ k \in 1 .. Len(w) /\ g[k] = h[k])}
<1>4. Bad = {}
  <2>1. SUFFICES ASSUME Bad # {} PROVE FALSE
    OBVIOUS
  <2>2. PICK k \in Bad : \A j \in Bad : k <= j
    <3>1. Bad \in SUBSET Nat
      OBVIOUS
    <3>2. QED BY <2>1, <3>1, LeastNat
  <2>3. k \in Nat /\ k \in 1 .. Len(v) \cup 1 .. Len(w)
    BY <2>2
  <2>4. \A j \in 1 .. k - 1 : j \in 1 .. Len(v) /\ j \in 1 .. Len(w) /\ g[j] = h[j]
    <3>1. ASSUME NEW j \in 1 .. k - 1
          PROVE  j \in Nat /\ j \notin Bad /\ j \in 1 .. Len(v) \cup 1 .. Len(w)
      BY <2>2, <2>3, <1>3
    <3>2. QED BY <3>1
  <2>5. k \in 1 .. Len(v) => k \in 1 .. Len(w) /\ ~ (h[k] < g[k])
    BY <1>2, <1>3, <2>4, PicksAgree
  <2>6. k \in 1 .. Len(w) => k \in 1 .. Len(v) /\ ~ (g[k] < h[k])
    BY <1>2, <1>3, <2>4, PicksAgree
  <2>7. k \in 1 .. Len(v) /\ k \in 1 .. Len(w)
    BY <2>3, <2>5, <2>6
  <2>8. g[k] \in Int /\ h[k] \in Int
    BY <1>2, <2>7 DEF Picks
  <2>9. g[k] = h[k]
    BY <2>5, <2>6, <2>7, <2>8
  <2>10. QED BY <2>2, <2>7, <2>9
<1>5. \A k \in 1 .. Len(v) : k \in 1 .. Len(w) /\ g[k] = h[k]
  BY <1>3, <1>4
<1>6. \A k \in 1 .. Len(w) : k \in 1 .. Len(v)
  BY <1>3, <1>4
<1>7. Len(v) = Len(w)
  <2>1. Len(v) # 0 => Len(v) <= Len(w)
    BY <1>3, <1>5
  <2>2. Len(w) # 0 => Len(w) <= Len(v)
    BY <1>3, <1>6
  <2>3. QED BY <1>3, <2>1, <2>2
<1>8. \A k \in 1 .. Len(v) : v[k] = w[k]
  BY <1>2, <1>5 DEF Picks
<1>9. v = w
  BY <1>1, <1>7, <1>8, SeqEqual
<1>10. QED BY <1>9 DEF w

\* A filter that finds nothing to take out.
LEMMA WithoutNone ==
  ASSUME NEW T, NEW q \in Seq(T), NEW S, Elems(q) \cap S = {}
  PROVE  Without(q, S) = q
<1>1. Len(q) \in Nat
  BY LenProperties
<1>2. Picks(q, S, Len(q), q, [i \in 1 .. Len(q) |-> i])
  BY <1>1 DEF Picks, Elems
<1>3. QED BY <1>2, WithoutIs

\* Only the members of the list matter.
LEMMA WithoutSame ==
  ASSUME NEW T, NEW q \in Seq(T), NEW S, NEW R, Elems(q) \cap S = Elems(q) \cap R
  PROVE  Without(q, S) = Without(q, R)
<1> DEFINE w == Without(q, R)
<1>1. w \in Seq(T) /\ \E h : Picks(q, R, Len(q), w, h)
  BY WithoutPicks
<1>2. PICK h : Picks(q, R, Len(q), w, h)
  BY <1>1
<1> HIDE DEF w
<1>3. \A i \in 1 .. Len(q) : q[i] \in S <=> q[i] \in R
  BY DEF Elems
<1>4. Picks(q, S, Len(q), w, h)
  BY <1>2, <1>3 DEF Picks
<1>5. Without(q, S) = w
  BY <1>1, <1>4, WithoutIs
<1>6. QED BY <1>5 DEF w

\* Two filters are one.
LEMMA WithoutTwice ==
  ASSUME NEW T, NEW q \in Seq(T), NEW S, NEW R
  PROVE  Without(Without(q, S), R) = Without(q, S \cup R)
<1> DEFINE w == Without(q, S)
           v == Without(w, R)
<1>1. w \in Seq(T) /\ \E h : Picks(q, S, Len(q), w, h)
  BY WithoutPicks
<1> HIDE DEF w
<1>2. v \in Seq(T) /\ \E g : Picks(w, R, Len(w), v, g)
  BY <1>1, WithoutPicks
<1> HIDE DEF v
<1>3. PICK h : Picks(q, S, Len(q), w, h)
  BY <1>1
<1>4. PICK g : Picks(w, R, Len(w), v, g)
  BY <1>2
<1>5. Len(q) \in Nat /\ Len(w) \in Nat /\ Len(v) \in Nat
  BY <1>1, <1>2, LenProperties
<1> DEFINE f == [k \in 1 .. Len(v) |-> h[g[k]]]
<1>6. Picks(q, S \cup R, Len(q), v, f)
  <2>1. \A k \in 1 .. Len(v) : g[k] \in 1 .. Len(w) /\ v[k] = w[g[k]] /\ w[g[k]] \notin R
    BY <1>4 DEF Picks
  <2>2. \A k \in 1 .. Len(w) : h[k] \in 1 .. Len(q) /\ w[k] = q[h[k]] /\ q[h[k]] \notin S
    BY <1>3 DEF Picks
  <2>3. f \in [1 .. Len(v) -> 1 .. Len(q)]
    BY <2>1, <2>2
  <2>4. \A k \in 1 .. Len(v) : v[k] = q[f[k]] /\ q[f[k]] \notin S \cup R
    BY <2>1, <2>2
  <2>5. ASSUME NEW k \in 1 .. Len(v), NEW l \in 1 .. Len(v), k < l PROVE f[k] < f[l]
    <3>1. g[k] < g[l]
      BY <1>4, <2>5 DEF Picks
    <3>2. QED BY <1>3, <2>1, <3>1 DEF Picks
  <2>6. ASSUME NEW i \in 1 .. Len(q), q[i] \notin S \cup R
        PROVE  \E k \in 1 .. Len(v) : f[k] = i
    <3>1. PICK l \in 1 .. Len(w) : h[l] = i
      BY <1>3, <2>6 DEF Picks
    <3>2. w[l] \notin R
      BY <2>2, <2>6, <3>1
    <3>3. PICK k \in 1 .. Len(v) : g[k] = l
      BY <1>4, <3>2 DEF Picks
    <3>4. QED BY <3>1, <3>3
  <2> HIDE DEF f
  <2>7. QED BY <2>3, <2>4, <2>5, <2>6 DEF Picks
<1>7. Without(q, S \cup R) = v
  BY <1>2, <1>6, WithoutIs
<1>8. QED BY <1>7 DEF v, w

\* Of a list without duplicates, filtering one member closes the gap it leaves.
LEMMA WithoutGap ==
  ASSUME NEW T, NEW q \in Seq(T), NoDup(q), NEW k \in 1 .. Len(q), NEW v \in Seq(T),
         Len(v) = Len(q) - 1,
         \A i \in 1 .. Len(q) - 1 : v[i] = IF i < k THEN q[i] ELSE q[i + 1]
  PROVE  Without(q, {q[k]}) = v
<1>1. PICK n \in Nat : n = Len(q)
  BY LenProperties
<1> DEFINE h == [i \in 1 .. Len(v) |-> IF i < k THEN i ELSE i + 1]
<1>2. h \in [1 .. Len(v) -> 1 .. Len(q)]
  BY <1>1
<1>3. \A i \in 1 .. Len(v) : v[i] = q[h[i]] /\ h[i] # k
  BY <1>1
<1>4. \A i \in 1 .. Len(v) : q[h[i]] # q[k]
  BY <1>2, <1>3 DEF NoDup
<1>5. \A i, j \in 1 .. Len(v) : i < j => h[i] < h[j]
  BY <1>1
<1>6. ASSUME NEW i \in 1 .. Len(q), i # k PROVE \E j \in 1 .. Len(v) : h[j] = i
  <2>1. CASE i < k
    <3>1. i \in 1 .. Len(v) /\ h[i] = i
      BY <1>1, <2>1
    <3>2. QED BY <3>1
  <2>2. CASE ~ (i < k)
    <3>1. i - 1 \in 1 .. Len(v) /\ h[i - 1] = i
      BY <1>1, <1>6, <2>2
    <3>2. QED BY <3>1
  <2>3. QED BY <2>1, <2>2
<1> HIDE DEF h
<1>7. Picks(q, {q[k]}, Len(q), v, h)
  BY <1>2, <1>3, <1>4, <1>5, <1>6 DEF Picks
<1>8. QED BY <1>7, WithoutIs

\* Filtering the head of a list without duplicates leaves its tail.
LEMMA WithoutHead ==
  ASSUME NEW T, NEW q \in Seq(T), NoDup(q), q # << >>
  PROVE  Without(q, {Head(q)}) = Tail(q)
<1>1. /\ Len(q) \in Nat /\ Len(q) # 0 /\ Head(q) = q[1]
      /\ Tail(q) \in Seq(T) /\ Len(Tail(q)) = Len(q) - 1
      /\ \A i \in 1 .. Len(Tail(q)) : Tail(q)[i] = q[i + 1]
  BY LenProperties, EmptySeq, HeadTailProperties
<1>2. 1 \in 1 .. Len(q)
  BY <1>1
<1>3. \A i \in 1 .. Len(q) - 1 : Tail(q)[i] = IF i < 1 THEN q[i] ELSE q[i + 1]
  BY <1>1
<1>4. Without(q, {q[1]}) = Tail(q)
  BY <1>1, <1>2, <1>3, WithoutGap
<1>5. QED BY <1>1, <1>4

\* Where one member is taken out (listDequeueFirst).
LEMMA OneTakenOut ==
  ASSUME NEW T, NEW q \in Seq(T), NEW c, Elems(q) \cap {c} # {}
  PROVE  \E k \in 1 .. Len(q) :
           /\ q[k] = c
           /\ RemoveFirst(q, {c}) \in Seq(T)
           /\ Len(RemoveFirst(q, {c})) = Len(q) - 1
           /\ \A i \in 1 .. Len(q) - 1 :
                RemoveFirst(q, {c})[i] = IF i < k THEN q[i] ELSE q[i + 1]
<1>1. PICK S : S = {c}
  OBVIOUS
<1>2. Elems(q) \cap S # {}
  BY <1>1
<1>3. PICK k \in 1 .. Len(q) :
        /\ q[k] \in S /\ \A j \in 1 .. k - 1 : q[j] \notin S
        /\ RemoveFirst(q, S) \in Seq(T)
        /\ Len(RemoveFirst(q, S)) = Len(q) - 1
        /\ \A i \in 1 .. Len(q) - 1 :
             RemoveFirst(q, S)[i] = IF i < k THEN q[i] ELSE q[i + 1]
  BY <1>2, RemoveFirstProperties
<1>4. QED BY <1>1, <1>3

\* Of a list without duplicates, filtering one member is taking it out where it
\* stands (readyQ.filter in reorder, listDequeueFirst here).
LEMMA WithoutOne ==
  ASSUME NEW T, NEW q \in Seq(T), NoDup(q), NEW c \in Elems(q)
  PROVE  Without(q, {c}) = RemoveFirst(q, {c})
<1>1. Elems(q) \cap {c} # {}
  OBVIOUS
<1>2. PICK k \in 1 .. Len(q) :
        /\ q[k] = c
        /\ RemoveFirst(q, {c}) \in Seq(T) /\ Len(RemoveFirst(q, {c})) = Len(q) - 1
        /\ \A i \in 1 .. Len(q) - 1 :
             RemoveFirst(q, {c})[i] = IF i < k THEN q[i] ELSE q[i + 1]
  BY <1>1, OneTakenOut
<1>3. Without(q, {q[k]}) = RemoveFirst(q, {c})
  BY <1>2, WithoutGap
<1>4. QED BY <1>2, <1>3

-----------------------------------------------------------------------------
(* Lists that continue one another. *)

\* r is what is left of q, in order, and after it members that q has not: h
\* gives the place in q of each of the first n members of r.
Continues(q, r) ==
  \E n \in 0 .. Len(r), h \in [1 .. Len(r) -> Nat] :
    /\ \A k \in 1 .. n : h[k] \in 1 .. Len(q) /\ r[k] = q[h[k]]
    /\ \A k, l \in 1 .. n : k < l => h[k] < h[l]
    /\ \A k \in n + 1 .. Len(r) : r[k] \notin Elems(q)

\* What the operations do to a list continues it: nothing, take the head out,
\* take some members out, or put newcomers at the end.
LEMMA SameContinues ==
  ASSUME NEW T, NEW q \in Seq(T)
  PROVE  Continues(q, q)
<1>1. Len(q) \in Nat /\ Len(q) \in 0 .. Len(q)
  BY LenProperties
<1> DEFINE h == [k \in 1 .. Len(q) |-> k]
<1>2. h \in [1 .. Len(q) -> Nat]
  BY <1>1
<1>3. /\ \A k \in 1 .. Len(q) : h[k] \in 1 .. Len(q) /\ q[k] = q[h[k]]
      /\ \A k, l \in 1 .. Len(q) : k < l => h[k] < h[l]
      /\ \A k \in Len(q) + 1 .. Len(q) : q[k] \notin Elems(q)
  BY <1>1
<1> HIDE DEF h
<1>4. QED BY <1>1, <1>2, <1>3 DEF Continues

\* Taking everybody out continues a list.
LEMMA EmptyContinues ==
  ASSUME NEW T, NEW q \in Seq(T)
  PROVE  Continues(q, << >>)
<1> DEFINE h == [k \in 1 .. Len(<< >>) |-> 0]
<1>1. Len(<< >>) = 0 /\ 0 \in 0 .. Len(<< >>)
  OBVIOUS
<1>2. h \in [1 .. Len(<< >>) -> Nat]
  OBVIOUS
<1> HIDE DEF h
<1>3. /\ \A k \in 1 .. 0 : h[k] \in 1 .. Len(q) /\ << >>[k] = q[h[k]]
      /\ \A k, l \in 1 .. 0 : k < l => h[k] < h[l]
      /\ \A k \in 0 + 1 .. Len(<< >>) : << >>[k] \notin Elems(q)
  BY <1>1
<1>4. QED BY <1>1, <1>2, <1>3 DEF Continues

\* Taking the head out continues a list.
LEMMA TailContinues ==
  ASSUME NEW T, NEW q \in Seq(T), q # << >>
  PROVE  Continues(q, Tail(q))
<1>1. /\ Len(q) \in Nat /\ Len(Tail(q)) = Len(q) - 1 /\ Len(q) - 1 \in Nat
      /\ \A i \in 1 .. Len(q) - 1 : Tail(q)[i] = q[i + 1]
  BY HeadTailProperties, LenProperties, EmptySeq
<1> DEFINE h == [k \in 1 .. Len(Tail(q)) |-> k + 1]
<1>2. h \in [1 .. Len(Tail(q)) -> Nat]
  BY <1>1
<1>3. /\ \A k \in 1 .. Len(Tail(q)) : h[k] \in 1 .. Len(q) /\ Tail(q)[k] = q[h[k]]
      /\ \A k, l \in 1 .. Len(Tail(q)) : k < l => h[k] < h[l]
      /\ \A k \in Len(Tail(q)) + 1 .. Len(Tail(q)) : Tail(q)[k] \notin Elems(q)
      /\ Len(Tail(q)) \in 0 .. Len(Tail(q))
  BY <1>1
<1> HIDE DEF h
<1>4. QED BY <1>2, <1>3 DEF Continues

\* Taking members out, wherever they are, continues a list.
LEMMA WithoutContinues ==
  ASSUME NEW T, NEW q \in Seq(T), NEW S
  PROVE  Continues(q, Without(q, S))
<1> DEFINE w == Without(q, S)
<1>1. PICK h : Picks(q, S, Len(q), w, h)
  BY WithoutPicks
<1>2. Len(w) \in Nat /\ Len(q) \in Nat
  BY WithoutPicks, LenProperties
<1> HIDE DEF w
<1>3. /\ h \in [1 .. Len(w) -> 1 .. Len(q)]
      /\ \A k \in 1 .. Len(w) : w[k] = q[h[k]]
      /\ \A k, l \in 1 .. Len(w) : k < l => h[k] < h[l]
  BY <1>1 DEF Picks
<1>4. h \in [1 .. Len(w) -> Nat] /\ \A k \in 1 .. Len(w) : h[k] \in 1 .. Len(q)
  BY <1>2, <1>3
<1>5. Len(w) \in 0 .. Len(w) /\ \A k \in Len(w) + 1 .. Len(w) : w[k] \notin Elems(q)
  BY <1>2
<1>6. Continues(q, w)
  BY <1>3, <1>4, <1>5 DEF Continues
<1>7. QED BY <1>6 DEF w

\* Adding a list of newcomers at the end continues a list.
LEMMA ConcatContinues ==
  ASSUME NEW T, NEW q \in Seq(T), NEW w \in Seq(T), Elems(q) \cap Elems(w) = {}
  PROVE  Continues(q, q \o w)
<1>1. /\ Len(q) \in Nat /\ Len(w) \in Nat /\ Len(q \o w) = Len(q) + Len(w)
      /\ \A i \in 1 .. Len(q) + Len(w) :
           (q \o w)[i] = IF i <= Len(q) THEN q[i] ELSE w[i - Len(q)]
  BY ConcatProperties, LenProperties
<1> DEFINE r == q \o w
           h == [k \in 1 .. Len(r) |-> k]
<1>2. h \in [1 .. Len(r) -> Nat] /\ Len(q) \in 0 .. Len(r)
  BY <1>1
<1>3. ASSUME NEW k \in Len(q) + 1 .. Len(r) PROVE r[k] \notin Elems(q)
  <2>1. k - Len(q) \in 1 .. Len(w) /\ r[k] = w[k - Len(q)]
    BY <1>1
  <2>2. r[k] \in Elems(w)
    BY <2>1 DEF Elems
  <2>3. QED BY <2>2
<1>4. /\ \A k \in 1 .. Len(q) : h[k] \in 1 .. Len(q) /\ r[k] = q[h[k]]
      /\ \A k, l \in 1 .. Len(q) : k < l => h[k] < h[l]
  BY <1>1
<1> HIDE DEF h, r
<1>5. Continues(q, r)
  BY <1>2, <1>3, <1>4 DEF Continues
<1>6. QED BY <1>5 DEF r

\* Adding one newcomer at the end continues a list.
LEMMA AppendContinues ==
  ASSUME NEW T, NEW q \in Seq(T), NEW x \in T, x \notin Elems(q)
  PROVE  Continues(q, Append(q, x))
<1>1. << x >> \in Seq(T) /\ Append(q, x) = q \o << x >>
  OBVIOUS
<1>2. Elems(<< x >>) = {x}
  BY DEF Elems
<1>3. QED BY <1>1, <1>2, ConcatContinues

=============================================================================
