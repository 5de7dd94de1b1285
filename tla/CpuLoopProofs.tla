---------------------------- MODULE CpuLoopProofs ----------------------------
(***************************************************************************)
(* Theorems about CpuLoop for any timers, periods and clock bound: its     *)
(* types, the soundness of the timer list at every store, the conditions   *)
(* under which guest instructions execute, and that the code implements    *)
(* Deadlines.  All follow from one inductive invariant, IInv, and from     *)
(* what the list operations of vp_timer.c preserve, for lists of any       *)
(* length: Unlink and Link keep a list free of cycles and in order of      *)
(* expire_time, and change which timers are linked by exactly one.         *)
(***************************************************************************)
EXTENDS CpuLoop, SequenceTheorems, WellFoundedInduction, TLAPS

-----------------------------------------------------------------------------
(* The list operations (TimerQueue).                                       *)

(* Every non-empty set of naturals has a least element: the list walks of  *)
(* vp_timer.c stop at the first node that satisfies their test.            *)
LEMMA LeastElement ==
    ASSUME NEW T \in SUBSET Nat, T # {}
    PROVE  \E m \in T : \A n \in T : m <= n
<1>. DEFINE R == {ss \in Nat \X Nat : ss[1] < ss[2]}
<1>1. R = OpToRel(<, Nat)
  BY DEF OpToRel
<1>2. IsWellFoundedOn(R, Nat)
  BY <1>1, NatLessThanWellFounded
<1>. HIDE DEF R
<1>3. PICK m \in T : \A n \in T : ~(<<n, m>> \in R)
  BY <1>2, WFMin
<1>4. \A n \in T : ~(n < m)
  BY <1>3 DEF R
<1>. QED BY <1>3, <1>4

(* Removing position k shifts what follows it down by one.                 *)
LEMMA RemoveAtProperties ==
    ASSUME NEW S, NEW q \in Seq(S), NEW k \in 1..Len(q)
    PROVE  /\ RemoveAt(q, k) \in Seq(S)
           /\ Len(RemoveAt(q, k)) = Len(q) - 1
           /\ \A i \in 1..(Len(q) - 1) :
                 RemoveAt(q, k)[i] = IF i < k THEN q[i] ELSE q[i + 1]
<1>. DEFINE a == SubSeq(q, 1, k - 1)
            b == SubSeq(q, k + 1, Len(q))
<1>0. Len(q) \in Nat /\ \A i \in 1..Len(q) : q[i] \in S
  BY LenProperties, ElementOfSeq
<1>1. /\ a \in Seq(S)
      /\ Len(a) = k - 1
      /\ \A i \in 1..(k - 1) : a[i] = q[i]
  <2>1. \A i \in 1..(k - 1) : q[i] \in S
    BY <1>0
  <2>. QED BY <2>1, <1>0, SubSeqProperties
<1>2. /\ b \in Seq(S)
      /\ Len(b) = Len(q) - k
      /\ \A i \in 1..(Len(q) - k) : b[i] = q[k + i]
  <2>1. \A i \in (k + 1)..Len(q) : q[i] \in S
    BY <1>0
  <2>2. /\ b \in Seq(S)
        /\ Len(b) = IF k + 1 <= Len(q) THEN Len(q) - (k + 1) + 1 ELSE 0
        /\ \A i \in 1..(Len(q) - (k + 1) + 1) : b[i] = q[(k + 1) + i - 1]
    BY <2>1, <1>0, SubSeqProperties
  <2>. QED BY <2>2, <1>0
<1>3. RemoveAt(q, k) = a \o b
  BY DEF RemoveAt
<1>. HIDE DEF a, b
<1>4. /\ a \o b \in Seq(S)
      /\ Len(a \o b) = Len(a) + Len(b)
      /\ \A i \in 1..(Len(a) + Len(b)) :
            (a \o b)[i] = IF i <= Len(a) THEN a[i] ELSE b[i - Len(a)]
  BY <1>1, <1>2, ConcatProperties
<1>5. ASSUME NEW i \in 1..(Len(q) - 1)
      PROVE  (a \o b)[i] = IF i < k THEN q[i] ELSE q[i + 1]
  <2>1. CASE i < k
    BY <2>1, <1>0, <1>1, <1>2, <1>4
  <2>2. CASE i >= k
    <3>1. i - (k - 1) \in 1..(Len(q) - k)
      BY <2>2, <1>0
    <3>2. (a \o b)[i] = b[i - (k - 1)]
      BY <2>2, <1>0, <1>1, <1>2, <1>4
    <3>3. b[i - (k - 1)] = q[k + (i - (k - 1))]
      BY <3>1, <1>2
    <3>. QED BY <3>2, <3>3, <2>2, <1>0
  <2>3. i < k \/ i >= k
    BY <1>0
  <2>. QED BY <2>1, <2>2, <2>3
<1>. QED BY <1>0, <1>1, <1>2, <1>3, <1>4, <1>5

(* Inserting before position k shifts what was there up by one.            *)
LEMMA InsertAtProperties ==
    ASSUME NEW S, NEW q \in Seq(S), NEW k \in 1..(Len(q) + 1), NEW e \in S
    PROVE  /\ InsertAt(q, k, e) \in Seq(S)
           /\ Len(InsertAt(q, k, e)) = Len(q) + 1
           /\ \A i \in 1..(Len(q) + 1) :
                 InsertAt(q, k, e)[i] = IF i < k THEN q[i]
                                        ELSE IF i = k THEN e ELSE q[i - 1]
<1>. DEFINE a == SubSeq(q, 1, k - 1)
            b == SubSeq(q, k, Len(q))
            ae == a \o <<e>>
<1>0. Len(q) \in Nat /\ \A i \in 1..Len(q) : q[i] \in S
  BY LenProperties, ElementOfSeq
<1>1. /\ a \in Seq(S)
      /\ Len(a) = k - 1
      /\ \A i \in 1..(k - 1) : a[i] = q[i]
  <2>1. \A i \in 1..(k - 1) : q[i] \in S
    BY <1>0
  <2>. QED BY <2>1, <1>0, SubSeqProperties
<1>2. /\ b \in Seq(S)
      /\ Len(b) = Len(q) - k + 1
      /\ \A i \in 1..(Len(q) - k + 1) : b[i] = q[k + i - 1]
  <2>1. \A i \in k..Len(q) : q[i] \in S
    BY <1>0
  <2>2. /\ b \in Seq(S)
        /\ Len(b) = IF k <= Len(q) THEN Len(q) - k + 1 ELSE 0
        /\ \A i \in 1..(Len(q) - k + 1) : b[i] = q[k + i - 1]
    BY <2>1, <1>0, SubSeqProperties
  <2>. QED BY <2>2, <1>0
<1>3. InsertAt(q, k, e) = ae \o b
  BY DEF InsertAt
<1>4. /\ ae \in Seq(S)
      /\ Len(ae) = k
      /\ \A i \in 1..k : ae[i] = IF i < k THEN q[i] ELSE e
  <2>1. <<e>> \in Seq(S) /\ Len(<<e>>) = 1 /\ <<e>>[1] = e
    OBVIOUS
  <2>. HIDE DEF a
  <2>2. /\ a \o <<e>> \in Seq(S)
        /\ Len(a \o <<e>>) = Len(a) + 1
        /\ \A i \in 1..(Len(a) + 1) :
              (a \o <<e>>)[i] = IF i <= Len(a) THEN a[i] ELSE <<e>>[i - Len(a)]
    BY <1>1, <2>1, ConcatProperties
  <2>. QED BY <1>0, <1>1, <2>1, <2>2
<1>. HIDE DEF ae, b
<1>5. /\ ae \o b \in Seq(S)
      /\ Len(ae \o b) = Len(ae) + Len(b)
      /\ \A i \in 1..(Len(ae) + Len(b)) :
            (ae \o b)[i] = IF i <= Len(ae) THEN ae[i] ELSE b[i - Len(ae)]
  BY <1>2, <1>4, ConcatProperties
<1>6. ASSUME NEW i \in 1..(Len(q) + 1)
      PROVE  (ae \o b)[i] = IF i < k THEN q[i]
                            ELSE IF i = k THEN e ELSE q[i - 1]
  <2>1. CASE i <= k
    BY <2>1, <1>0, <1>2, <1>4, <1>5
  <2>2. CASE i > k
    <3>1. i - k \in 1..(Len(q) - k + 1)
      BY <2>2, <1>0
    <3>2. (ae \o b)[i] = b[i - k]
      BY <2>2, <1>0, <1>2, <1>4, <1>5
    <3>3. b[i - k] = q[k + (i - k) - 1]
      BY <3>1, <1>2
    <3>4. k + (i - k) - 1 = i - 1 /\ ~(i < k) /\ i # k
      BY <2>2
    <3>. QED BY <3>2, <3>3, <3>4
  <2>3. i <= k \/ i > k
    BY <1>0
  <2>. QED BY <2>1, <2>2, <2>3
<1>. QED BY <1>0, <1>2, <1>3, <1>4, <1>5, <1>6

-----------------------------------------------------------------------------
(* vp_del_timer finds t if it is linked.                                   *)
LEMMA PositionProperties ==
    ASSUME NEW S, NEW q \in Seq(S), NEW t, Contains(q, t)
    PROVE  Position(q, t) \in 1..Len(q) /\ q[Position(q, t)] = t
<1>. DEFINE T == {i \in 1..Len(q) : q[i] = t}
<1>1. T \in SUBSET Nat /\ T # {}
  BY LenProperties DEF Contains
<1>2. PICK m \in T : \A n \in T : m <= n
  BY <1>1, LeastElement
<1>3. m \in 1..Len(q) /\ q[m] = t /\ \A j \in 1..(m - 1) : q[j] # t
  BY <1>2, LenProperties
<1>. QED BY <1>3 DEF Position

(* The insertion loop of vp_mod_timer stops at a place that keeps order.   *)
LEMMA SlotProperties ==
    ASSUME NEW S, NEW q \in Seq(S), NEW key \in [S -> Int], NEW e \in Int
    PROVE  /\ Slot(q, key, e) \in 1..(Len(q) + 1)
           /\ \A j \in 1..(Slot(q, key, e) - 1) : key[q[j]] <= e
           /\ Slot(q, key, e) <= Len(q) => key[q[Slot(q, key, e)]] > e
<1>. DEFINE T == {i \in 1..Len(q) : key[q[i]] > e} \cup {Len(q) + 1}
<1>0. Len(q) \in Nat /\ \A i \in 1..Len(q) : key[q[i]] \in Int
  BY LenProperties, ElementOfSeq
<1>1. T \in SUBSET Nat /\ T # {}
  BY <1>0
<1>2. PICK m \in T : \A n \in T : m <= n
  BY <1>1, LeastElement
<1>3. /\ m \in 1..(Len(q) + 1)
      /\ \A j \in 1..(m - 1) : key[q[j]] <= e
      /\ m <= Len(q) => key[q[m]] > e
  <2>1. m \in 1..(Len(q) + 1) /\ (m <= Len(q) => key[q[m]] > e)
    BY <1>0, <1>2
  <2>2. ASSUME NEW j \in 1..(m - 1)
        PROVE  key[q[j]] <= e
    <3>1. j \in 1..Len(q) /\ ~(m <= j)
      BY <1>0, <2>1
    <3>2. j \notin T
      BY <1>2, <3>1
    <3>. QED BY <1>0, <3>1, <3>2
  <2>. QED BY <2>1, <2>2
<1>. QED BY <1>3 DEF Slot

(* Unlink keeps a list free of cycles and in order, and takes out t alone. *)
THEOREM UnlinkSound ==
    ASSUME NEW S, NEW q \in Seq(S), NEW key \in [S -> Int], NEW t \in S,
           Linear(q), Ordered(q, key)
    PROVE  /\ Unlink(q, t) \in Seq(S)
           /\ Linear(Unlink(q, t))
           /\ Ordered(Unlink(q, t), key)
           /\ \A u \in S : Contains(Unlink(q, t), u) <=> Contains(q, u) /\ u # t
<1>0. Len(q) \in Nat
  BY LenProperties
<1>1. CASE ~Contains(q, t)
  BY <1>1 DEF Unlink, Contains
<1>2. CASE Contains(q, t)
  <2>. DEFINE k == Position(q, t)
              r == RemoveAt(q, k)
  <2>1. k \in 1..Len(q) /\ q[k] = t
    BY <1>2, PositionProperties
  <2>2. Unlink(q, t) = r
    BY <1>2 DEF Unlink
  <2>. HIDE DEF k
  <2>3. /\ r \in Seq(S)
        /\ Len(r) = Len(q) - 1
        /\ \A i \in 1..(Len(q) - 1) : r[i] = IF i < k THEN q[i] ELSE q[i + 1]
    BY <2>1, RemoveAtProperties
  <2>. HIDE DEF r
  <2>. DEFINE up(x) == IF x < k THEN x ELSE x + 1
  <2>7. ASSUME NEW n \in Nat, n = Len(q), NEW x \in 1..(n - 1)
        PROVE  up(x) \in 1..n
    BY <2>1, <2>7
  <2>8. ASSUME NEW x \in 1..Len(r)
        PROVE  up(x) \in 1..Len(q) /\ r[x] = q[up(x)] /\ x \in Int
    <3>1. x \in 1..(Len(q) - 1)
      BY <2>3
    <3>2. r[x] = IF x < k THEN q[x] ELSE q[x + 1]
      BY <2>3, <3>1
    <3>3. r[x] = q[up(x)]
      BY <3>2
    <3>. HIDE DEF up
    <3>4. up(x) \in 1..Len(q)
      BY <1>0, <2>7, <3>1
    <3>. QED BY <3>1, <3>3, <3>4
  <2>9. k \in Int
    BY <2>1
  <2>10. ASSUME NEW x \in Int, NEW y \in Int
         PROVE  (x < y => up(x) < up(y)) /\ (up(x) = up(y) => x = y)
    BY <2>9
  <2>. HIDE DEF up
  <2>4. Linear(r)
    <3>1. SUFFICES ASSUME NEW i \in 1..Len(r), NEW j \in 1..Len(r), r[i] = r[j]
                   PROVE  i = j
      BY DEF Linear
    <3>2. q[up(i)] = q[up(j)]
      BY <3>1, <2>8
    <3>3. up(i) = up(j)
      BY <3>2, <2>8 DEF Linear
    <3>. QED BY <3>3, <2>8, <2>10
  <2>5. Ordered(r, key)
    <3>1. SUFFICES ASSUME NEW i \in 1..Len(r), NEW j \in 1..Len(r), i < j
                   PROVE  key[r[i]] <= key[r[j]]
      BY DEF Ordered
    <3>2. up(i) < up(j) /\ up(i) \in 1..Len(q) /\ up(j) \in 1..Len(q)
      BY <2>8, <2>10, <3>1
    <3>3. key[q[up(i)]] <= key[q[up(j)]]
      BY <3>2 DEF Ordered
    <3>. QED BY <3>3, <2>8
  <2>6. ASSUME NEW u \in S
        PROVE  Contains(r, u) <=> Contains(q, u) /\ u # t
    <3>1. ASSUME Contains(r, u)
          PROVE  Contains(q, u) /\ u # t
      <4>1. PICK i \in 1..Len(r) : r[i] = u
        BY <3>1 DEF Contains
      <4>2. CASE i < k
        <5>1. i \in 1..(Len(q) - 1)
          BY <2>3
        <5>2. q[i] = u
          BY <2>3, <4>1, <4>2, <5>1
        <5>3. i \in 1..Len(q) /\ i # k
          BY <1>0, <2>1, <4>2, <5>1
        <5>. QED BY <2>1, <5>2, <5>3 DEF Contains, Linear
      <4>3. CASE i >= k
        <5>1. i + 1 \in 1..Len(q) /\ i + 1 # k
          BY <1>0, <2>1, <2>3, <4>1, <4>3
        <5>2. i \in 1..(Len(q) - 1) /\ ~(i < k)
          BY <2>1, <2>3, <4>3
        <5>3. q[i + 1] = u
          BY <2>3, <4>1, <5>2
        <5>. QED BY <2>1, <5>1, <5>3 DEF Contains, Linear
      <4>4. i < k \/ i >= k
        BY <2>1, <2>3
      <4>. QED BY <4>2, <4>3, <4>4
    <3>2. ASSUME Contains(q, u), u # t
          PROVE  Contains(r, u)
      <4>1. PICK i \in 1..Len(q) : q[i] = u
        BY <3>2 DEF Contains
      <4>. DEFINE down == IF i < k THEN i ELSE i - 1
      <4>2. i # k
        BY <2>1, <3>2, <4>1
      <4>3. down \in 1..(Len(q) - 1)
        BY <1>0, <2>1, <4>1, <4>2
      <4>4. (IF down < k THEN down ELSE down + 1) = i
        BY <1>0, <2>1, <4>1, <4>2
      <4>. HIDE DEF down
      <4>5. r[down] = IF down < k THEN q[down] ELSE q[down + 1]
        BY <2>3, <4>3
      <4>6. r[down] = u
        BY <4>1, <4>4, <4>5
      <4>. QED BY <2>3, <4>3, <4>6 DEF Contains
    <3>. QED BY <3>1, <3>2
  <2>. QED BY <2>2, <2>3, <2>4, <2>5, <2>6
<1>. QED BY <1>1, <1>2

(* Link puts a timer that was not linked in its place: no cycle, in order  *)
(* by the new expire_time, and the timers linked are the old ones and t.   *)
THEOREM LinkSound ==
    ASSUME NEW S, NEW q \in Seq(S), NEW key \in [S -> Int], NEW t \in S,
           NEW e \in Int, ~Contains(q, t), Linear(q), Ordered(q, key)
    PROVE  /\ Link(q, key, t, e) \in Seq(S)
           /\ Linear(Link(q, key, t, e))
           /\ Ordered(Link(q, key, t, e), [key EXCEPT ![t] = e])
           /\ \A u \in S : Contains(Link(q, key, t, e), u)
                             <=> Contains(q, u) \/ u = t
<1>. DEFINE k == Slot(q, key, e)
            r == InsertAt(q, k, t)
            x == [key EXCEPT ![t] = e]
<1>0. Len(q) \in Nat /\ \A i \in 1..Len(q) : q[i] \in S /\ q[i] # t
  BY LenProperties, ElementOfSeq DEF Contains
<1>1. /\ k \in 1..(Len(q) + 1)
      /\ \A j \in 1..(k - 1) : key[q[j]] <= e
      /\ k <= Len(q) => key[q[k]] > e
  BY SlotProperties
<1>2. Link(q, key, t, e) = r
  BY DEF Link
<1>. HIDE DEF k
<1>3. /\ r \in Seq(S)
      /\ Len(r) = Len(q) + 1
      /\ \A i \in 1..(Len(q) + 1) :
            r[i] = IF i < k THEN q[i] ELSE IF i = k THEN t ELSE q[i - 1]
  BY <1>1, InsertAtProperties
<1>. HIDE DEF r
<1>. DEFINE old(i) == IF i < k THEN i ELSE i - 1
<1>4. ASSUME NEW i \in 1..Len(r), i # k
      PROVE  old(i) \in 1..Len(q) /\ r[i] = q[old(i)]
  <2>1. i \in 1..(Len(q) + 1)
    BY <1>3
  <2>2. CASE i < k
    <3>1. i \in 1..Len(q)
      BY <1>0, <1>1, <2>1, <2>2
    <3>2. r[i] = q[i]
      BY <1>3, <2>1, <2>2
    <3>. QED BY <2>2, <3>1, <3>2
  <2>3. CASE i > k
    <3>1. i - 1 \in 1..Len(q)
      BY <1>0, <1>1, <2>1, <2>3
    <3>2. ~(i < k) /\ i # k
      BY <1>1, <2>1, <2>3
    <3>3. r[i] = q[i - 1]
      BY <1>3, <2>1, <3>2
    <3>. QED BY <3>1, <3>2, <3>3
  <2>4. i < k \/ i > k
    BY <1>1, <1>4, <2>1
  <2>. QED BY <2>2, <2>3, <2>4
<1>5. r[k] = t /\ k \in 1..Len(r)
  BY <1>0, <1>1, <1>3
<1>6. Linear(r)
  <2>1. SUFFICES ASSUME NEW i \in 1..Len(r), NEW j \in 1..Len(r), r[i] = r[j]
                 PROVE  i = j
    BY DEF Linear
  <2>2. CASE i = k \/ j = k
    <3>1. ASSUME NEW n \in 1..Len(r), n # k
          PROVE  r[n] # t
      BY <1>0, <1>4, <3>1
    <3>. QED BY <1>5, <2>1, <2>2, <3>1
  <2>3. CASE i # k /\ j # k
    <3>1. q[old(i)] = q[old(j)] /\ old(i) \in 1..Len(q) /\ old(j) \in 1..Len(q)
      BY <1>4, <2>1, <2>3
    <3>2. old(i) = old(j)
      BY <3>1 DEF Linear
    <3>3. i \in Int /\ j \in Int /\ k \in Int
      BY <1>1, <1>3
    <3>4. (i < k \/ i > k) /\ (j < k \/ j > k)
      BY <2>3, <3>3
    <3>. QED BY <3>2, <3>3, <3>4
  <2>. QED BY <2>2, <2>3
<1>7. \A i \in 1..Len(q) : x[q[i]] = key[q[i]]
  BY <1>0
<1>8. \A i \in 1..Len(q) : key[q[i]] \in Int
  BY <1>0
<1>9. Ordered(r, x)
  <2>1. SUFFICES ASSUME NEW i \in 1..Len(r), NEW j \in 1..Len(r), i < j
                 PROVE  x[r[i]] <= x[r[j]]
    BY DEF Ordered
  <2>2. CASE i # k /\ j # k
    <3>1. /\ old(i) \in 1..Len(q) /\ old(j) \in 1..Len(q)
          /\ r[i] = q[old(i)] /\ r[j] = q[old(j)]
      BY <1>4, <2>2
    <3>2. old(i) < old(j)
      <4>1. i \in Int /\ j \in Int /\ k \in Int
        BY <1>1, <1>3
      <4>. QED BY <2>1, <2>2, <4>1
    <3>. HIDE DEF old
    <3>3. key[q[old(i)]] <= key[q[old(j)]]
      BY <3>1, <3>2 DEF Ordered
    <3>4. x[q[old(i)]] = key[q[old(i)]] /\ x[q[old(j)]] = key[q[old(j)]]
      BY <1>7, <3>1
    <3>. HIDE DEF x
    <3>. QED BY <3>1, <3>3, <3>4
  <2>3. CASE j = k
    <3>1. i \in 1..Len(q) /\ i \in 1..(k - 1) /\ r[i] = q[i]
      BY <1>0, <1>1, <1>3, <2>1, <2>3
    <3>2. x[r[i]] <= e
      BY <1>1, <1>7, <3>1
    <3>. QED BY <3>2, <1>5, <2>3
  <2>4. CASE i = k
    <3>1. j - 1 \in 1..Len(q) /\ k \in 1..Len(q) /\ r[j] = q[j - 1]
      BY <1>0, <1>1, <1>3, <2>1, <2>4
    <3>2. key[q[k]] <= key[q[j - 1]]
      <4>1. CASE k = j - 1
        BY <4>1, <1>8, <3>1
      <4>2. CASE k < j - 1
        BY <4>2, <3>1 DEF Ordered
      <4>. QED BY <4>1, <4>2, <2>1, <2>4, <3>1
    <3>3. key[q[k]] > e
      BY <1>1, <3>1
    <3>4. e <= key[q[j - 1]]
      <4>1. key[q[k]] \in Int /\ key[q[j - 1]] \in Int
        BY <1>8, <3>1
      <4>. QED BY <3>2, <3>3, <4>1
    <3>5. x[r[j]] = key[q[j - 1]] /\ x[r[i]] = e
      BY <1>5, <1>7, <2>4, <3>1
    <3>. QED BY <3>4, <3>5
  <2>. QED BY <2>2, <2>3, <2>4
<1>10. ASSUME NEW u \in S
       PROVE  Contains(r, u) <=> Contains(q, u) \/ u = t
  <2>1. ASSUME Contains(r, u), u # t
        PROVE  Contains(q, u)
    <3>1. PICK i \in 1..Len(r) : r[i] = u
      BY <2>1 DEF Contains
    <3>2. i # k
      BY <1>5, <2>1, <3>1
    <3>. QED BY <1>4, <3>1, <3>2 DEF Contains
  <2>2. ASSUME Contains(q, u)
        PROVE  Contains(r, u)
    <3>1. PICK i \in 1..Len(q) : q[i] = u
      BY <2>2 DEF Contains
    <3>2. CASE i < k
      <4>1. i \in 1..(Len(q) + 1)
        BY <1>0, <3>1
      <4>2. i \in 1..Len(r) /\ r[i] = q[i]
        BY <1>3, <3>2, <4>1
      <4>. QED BY <3>1, <4>2 DEF Contains
    <3>3. CASE i >= k
      <4>0. i + 1 \in 1..(Len(q) + 1) /\ ~(i + 1 < k) /\ i + 1 # k
        BY <1>0, <1>1, <3>1, <3>3
      <4>1. i + 1 \in 1..Len(r) /\ r[i + 1] = q[(i + 1) - 1]
        BY <1>3, <4>0
      <4>2. r[i + 1] = u
        BY <4>1, <3>1
      <4>. QED BY <4>1, <4>2 DEF Contains
    <3>4. i < k \/ i >= k
      BY <1>1
    <3>. QED BY <3>2, <3>3, <3>4
  <2>3. Contains(r, t)
    BY <1>5 DEF Contains
  <2>. QED BY <2>1, <2>2, <2>3
<1>. QED BY <1>2, <1>3, <1>6, <1>9, <1>10

(* vp_run_timers unlinks the head before calling it: the rest is still a   *)
(* list without cycles, in order, and the head was an earliest timer.      *)
THEOREM TailSound ==
    ASSUME NEW S, NEW q \in Seq(S), NEW key \in [S -> Int], q # <<>>,
           Linear(q), Ordered(q, key)
    PROVE  /\ Tail(q) \in Seq(S) /\ Head(q) \in S
           /\ Contains(q, Head(q))
           /\ Linear(Tail(q))
           /\ Ordered(Tail(q), key)
           /\ \A u \in S : Contains(Tail(q), u)
                             <=> Contains(q, u) /\ u # Head(q)
           /\ \A u \in S : Contains(q, u) => key[Head(q)] <= key[u]
<1>. DEFINE r == Tail(q)
<1>1. /\ Len(q) \in Nat \ {0} /\ Head(q) = q[1] /\ Head(q) \in S
      /\ r \in Seq(S) /\ Len(r) = Len(q) - 1
      /\ \A i \in 1..Len(r) : r[i] = q[i + 1]
  BY HeadTailProperties, EmptySeq
<1>. HIDE DEF r
<1>2. \A i \in 1..Len(r) : i + 1 \in 1..Len(q)
  BY <1>1
<1>3. Linear(r)
  <2>1. SUFFICES ASSUME NEW i \in 1..Len(r), NEW j \in 1..Len(r), r[i] = r[j]
                 PROVE  i = j
    BY DEF Linear
  <2>2. q[i + 1] = q[j + 1] /\ i + 1 \in 1..Len(q) /\ j + 1 \in 1..Len(q)
    BY <1>1, <1>2, <2>1
  <2>3. i + 1 = j + 1
    BY <2>2 DEF Linear
  <2>. QED BY <2>3
<1>4. Ordered(r, key)
  <2>1. SUFFICES ASSUME NEW i \in 1..Len(r), NEW j \in 1..Len(r), i < j
                 PROVE  key[r[i]] <= key[r[j]]
    BY DEF Ordered
  <2>2. i + 1 \in 1..Len(q) /\ j + 1 \in 1..Len(q) /\ i + 1 < j + 1
    BY <1>2, <2>1
  <2>3. key[q[i + 1]] <= key[q[j + 1]]
    BY <2>2 DEF Ordered
  <2>4. r[i] = q[i + 1] /\ r[j] = q[j + 1]
    BY <1>1
  <2>. QED BY <2>3, <2>4
<1>5. Contains(q, Head(q))
  BY <1>1 DEF Contains
<1>6. ASSUME NEW u \in S
      PROVE  Contains(r, u) <=> Contains(q, u) /\ u # Head(q)
  <2>1. ASSUME Contains(r, u)
        PROVE  Contains(q, u) /\ u # Head(q)
    <3>1. PICK i \in 1..Len(r) : r[i] = u
      BY <2>1 DEF Contains
    <3>2. i + 1 \in 1..Len(q) /\ q[i + 1] = u /\ i + 1 # 1
      BY <1>1, <1>2, <3>1
    <3>3. 1 \in 1..Len(q)
      BY <1>1
    <3>4. q[i + 1] # q[1]
      BY <3>2, <3>3 DEF Linear
    <3>5. u # Head(q)
      BY <1>1, <3>2, <3>4
    <3>6. Contains(q, u)
      BY <3>2 DEF Contains
    <3>. QED BY <3>5, <3>6
  <2>2. ASSUME Contains(q, u), u # Head(q)
        PROVE  Contains(r, u)
    <3>1. PICK i \in 1..Len(q) : q[i] = u
      BY <2>2 DEF Contains
    <3>2. i - 1 \in 1..Len(r) /\ r[i - 1] = q[(i - 1) + 1]
      BY <1>1, <2>2, <3>1
    <3>3. r[i - 1] = u
      BY <3>1, <3>2
    <3>. QED BY <3>2, <3>3 DEF Contains
  <2>. QED BY <2>1, <2>2
<1>7. ASSUME NEW u \in S, Contains(q, u)
      PROVE  key[Head(q)] <= key[u]
  <2>1. PICK i \in 1..Len(q) : q[i] = u
    BY <1>7 DEF Contains
  <2>2. key[u] \in Int /\ key[q[1]] \in Int
    BY <1>1
  <2>3. CASE i = 1
    BY <1>1, <2>1, <2>2, <2>3
  <2>4. CASE i # 1
    <3>1. 1 \in 1..Len(q) /\ 1 < i
      BY <1>1, <2>4
    <3>. QED BY <1>1, <2>1, <3>1 DEF Ordered
  <2>. QED BY <2>3, <2>4
<1>. QED BY <1>1, <1>3, <1>4, <1>5, <1>6, <1>7 DEF r

-----------------------------------------------------------------------------
(* The inductive invariant of the loop.                                    *)

(* vp_mod_timer's caller has unlinked the timer it links, and in a round   *)
(* the time it links it for lies beyond the round.                         *)
InHand ==
    /\ thread \in {"callback", "reset", "link"} => ~Linked(target)
    /\ thread = "link" /\ horizon # Off => due > horizon

(* How far the boot has come, from where the CPU thread is and back: until *)
(* the last boot step the CPU is SUSPENDED and its thread spins.           *)
Booting ==
    /\ thread = "none" <=> boot = "platform"
    /\ state = "SUSPENDED" <=> boot # "monitor"
    /\ boot # "monitor" => thread \in {"none", "loop", "switch"}
    /\ boot \in {"start", "monitor"} =>
           status = "RUNNING" \/ thread = "reset"

(* cpu->state, from where the CPU thread is.                               *)
StateAt ==
    /\ state = "RESTARTING" <=> thread = "reset"
    /\ thread \in {"loop", "exec", "resume"} => state # "PAUSING"
    /\ thread = "link" /\ horizon = Off => state # "PAUSING"

IInv == TypeOK /\ ListSound /\ InHand /\ Booting /\ StateAt

-----------------------------------------------------------------------------
(* What the assumptions say of the constants an action uses.               *)
LEMMA Constants ==
    /\ Watchdog \in Timers
    /\ \A t \in GuestTimers : t \in Timers
    /\ \A t \in BootTimers : t \in Timers
    /\ \A t \in Timers : Period[t] \in Nat \ {0}
    /\ Off \notin Int
BY TimersAssumption, PeriodAssumption, TimeAssumption

(* UnlinkSound, for the list as the actions find it.                       *)
LEMMA UnlinkStep ==
    ASSUME TypeOK, ListSound, NEW t \in Timers
    PROVE  /\ Unlink(active, t) \in Seq(Timers)
           /\ Linear(Unlink(active, t))
           /\ Ordered(Unlink(active, t), expire)
           /\ \A u \in Timers : Contains(Unlink(active, t), u)
                                  <=> Linked(u) /\ u # t
           /\ ~Linked(t) => Unlink(active, t) = active
<1>1. active \in Seq(Timers) /\ expire \in [Timers -> Int]
  BY DEF TypeOK
<1>2. Linear(active) /\ Ordered(active, expire)
  BY DEF ListSound
<1>3. ~Linked(t) => Unlink(active, t) = active
  BY DEF Unlink, Linked
<1>. QED BY <1>1, <1>2, <1>3, UnlinkSound DEF Linked

(* LinkSound, for the list as the actions find it.                         *)
LEMMA LinkStep ==
    ASSUME TypeOK, ListSound, NEW t \in Timers, ~Linked(t), NEW e \in Nat
    PROVE  /\ Link(active, expire, t, e) \in Seq(Timers)
           /\ Linear(Link(active, expire, t, e))
           /\ Ordered(Link(active, expire, t, e), [expire EXCEPT ![t] = e])
           /\ \A u \in Timers : Contains(Link(active, expire, t, e), u)
                                  <=> Linked(u) \/ u = t
           /\ [expire EXCEPT ![t] = e] \in [Timers -> Nat]
<1>1. active \in Seq(Timers) /\ expire \in [Timers -> Int]
  BY DEF TypeOK
<1>2. Linear(active) /\ Ordered(active, expire) /\ ~Contains(active, t)
  BY DEF ListSound, Linked
<1>3. e \in Int
  OBVIOUS
<1>4. [expire EXCEPT ![t] = e] \in [Timers -> Nat]
  BY DEF TypeOK
<1>. QED BY <1>1, <1>2, <1>3, <1>4, LinkSound DEF Linked

(* TailSound, for the list as the actions find it.                         *)
LEMMA TailStep ==
    ASSUME TypeOK, ListSound, active # <<>>
    PROVE  /\ Tail(active) \in Seq(Timers) /\ Head(active) \in Timers
           /\ Linked(Head(active))
           /\ Linear(Tail(active))
           /\ Ordered(Tail(active), expire)
           /\ \A u \in Timers : Contains(Tail(active), u)
                                  <=> Linked(u) /\ u # Head(active)
           /\ \A u \in Timers : Linked(u) => expire[Head(active)] <= expire[u]
<1>1. active \in Seq(Timers) /\ expire \in [Timers -> Int]
  BY DEF TypeOK
<1>2. Linear(active) /\ Ordered(active, expire)
  BY DEF ListSound
<1>. QED BY <1>1, <1>2, TailSound DEF Linked

-----------------------------------------------------------------------------
(* A new expire_time is a natural number beyond the present.               *)
LEMMA Later ==
    ASSUME TypeOK, NEW t \in Timers
    PROVE  time + Period[t] \in Nat /\ time + Period[t] > time
<1>1. time \in Nat /\ Period[t] \in Nat \ {0}
  BY Constants DEF TypeOK
<1>. QED BY <1>1

LEMMA InitIInv == Init => IInv
<1>. SUFFICES ASSUME Init PROVE IInv
  OBVIOUS
<1>1. <<>> \in Seq(Timers) /\ Len(<<>>) = 0
  BY EmptySeq
<1>2. TypeOK
  <2>1. active \in Seq(Timers) /\ expire \in [Timers -> Nat]
    BY <1>1 DEF Init
  <2>2. pause \in BOOLEAN
    BY DEF Init
  <2>3. time \in Nat
    BY Constants DEF Init
  <2>4. state \in CpuStates /\ thread \in ThreadPoints
    BY DEF Init, CpuStates, ThreadPoints
  <2>. QED BY <2>1, <2>2, <2>3, <2>4 DEF Init, TypeOK
<1>3. ListSound
  BY <1>1 DEF Init, ListSound, Linear, Ordered
<1>4. InHand /\ Booting /\ StateAt
  BY DEF Init, InHand, Booting, StateAt
<1>. QED BY <1>2, <1>3, <1>4 DEF IInv

-----------------------------------------------------------------------------
(* The steps that touch the list or an expire_time; every other leaves both *)
(* alone.                                                                   *)
Mover ==
    \/ \E t \in BootTimers : MainArms(t)
    \/ \E t \in GuestTimers : ExecArm(t) \/ ExecCancel(t)
    \/ LinkTarget \/ RunTimer \/ CallbackRearms \/ WatchdogRestarts

LEMMA MoversMove == [Next]_vars => Mover \/ UNCHANGED <<active, expire>>
<1>. SUFFICES ASSUME [Next]_vars, ~Mover PROVE UNCHANGED <<active, expire>>
  OBVIOUS
<1>1. CASE ClockTick \/ UNCHANGED vars
  BY <1>1 DEF ClockTick, vars, timerVars
<1>2. CASE Main
  BY <1>2 DEF Main, Mover, MainSpawnsCpu, MainResetsBoard, MainStartsCpu,
     timerVars
<1>3. CASE Alarm
  BY <1>3 DEF Alarm, AlarmEnter, AlarmLook, AlarmRequest, timerVars
<1>4. CASE Cpu
  BY <1>4 DEF Cpu, Mover, LoopLeave, LoopPause, LoopExec, ExecOther,
     SwitchRun, SwitchPause, WatchdogBites, RoundEnds, Resume, timerVars
<1>. QED BY <1>1, <1>2, <1>3, <1>4 DEF Next

(* The list stays free of cycles and in order over every step.             *)
LEMMA ListStep ==
    ASSUME TypeOK, ListSound, InHand, [Next]_vars
    PROVE  /\ active' \in Seq(Timers) /\ expire' \in [Timers -> Nat]
           /\ ListSound'
<1>1. CASE UNCHANGED <<active, expire>>
  BY <1>1 DEF TypeOK, ListSound
<1>2. ASSUME NEW t \in BootTimers, MainArms(t)
      PROVE  /\ active' \in Seq(Timers) /\ expire' \in [Timers -> Nat]
             /\ ListSound'
  <2>1. t \in Timers /\ ~Linked(t) /\ time + Period[t] \in Nat
    BY <1>2, Constants, Later DEF MainArms
  <2>. QED BY <1>2, <2>1, LinkStep DEF MainArms, ListSound
<1>3. ASSUME NEW t \in Timers, active' = Unlink(active, t), expire' = expire
      PROVE  /\ active' \in Seq(Timers) /\ expire' \in [Timers -> Nat]
             /\ ListSound'
  BY <1>3, UnlinkStep DEF ListSound, TypeOK
<1>4. ASSUME NEW t \in GuestTimers, ExecArm(t) \/ ExecCancel(t)
      PROVE  /\ active' \in Seq(Timers) /\ expire' \in [Timers -> Nat]
             /\ ListSound'
  BY <1>3, <1>4, Constants DEF ExecArm, ExecCancel, BeginModTimer
<1>5. CASE CallbackRearms \/ WatchdogRestarts
  <2>1. target \in Timers
    BY <1>5 DEF CallbackRearms, WatchdogRestarts, TypeOK
  <2>. QED BY <1>3, <1>5, <2>1
           DEF CallbackRearms, WatchdogRestarts, BeginModTimer
<1>6. CASE LinkTarget
  <2>1. target \in Timers /\ due \in Nat /\ ~Linked(target)
    BY <1>6 DEF LinkTarget, TypeOK, InHand
  <2>. QED BY <1>6, <2>1, LinkStep DEF LinkTarget, FinishModTimer, ListSound
<1>7. CASE RunTimer
  BY <1>7, TailStep DEF RunTimer, HeadExpired, ListSound, TypeOK
<1>. QED BY <1>1, <1>2, <1>4, <1>5, <1>6, <1>7, MoversMove DEF Mover

(* The rest of TypeOK over every step.                                     *)
LEMMA TypeStep ==
    ASSUME IInv, [Next]_vars
    PROVE  TypeOK'
<1>. USE DEF CpuStates, ThreadPoints
<1>1. active' \in Seq(Timers) /\ expire' \in [Timers -> Nat]
  BY ListStep DEF IInv
<1>2. TypeOK
  BY DEF IInv
<1>3. CASE UNCHANGED vars
  BY <1>1, <1>2, <1>3 DEF TypeOK, vars
<1>4. CASE ClockTick
  <2>1. time' \in Nat /\ \A h \in 0..time : h \in 0..time'
    BY <1>2, <1>4, Constants DEF ClockTick, TypeOK
  <2>. QED BY <1>1, <1>2, <1>4, <2>1 DEF TypeOK, ClockTick, timerVars
<1>5. CASE Main
  <2>1. ASSUME NEW t \in BootTimers, MainArms(t)
        PROVE  TypeOK'
    BY <1>1, <1>2, <2>1 DEF TypeOK, MainArms
  <2>2. CASE MainSpawnsCpu
    <3>1. thread = "none"
      BY <2>2 DEF MainSpawnsCpu, IInv, Booting
    <3>. QED BY <1>1, <1>2, <2>2, <3>1 DEF TypeOK, MainSpawnsCpu, timerVars
  <2>3. CASE MainResetsBoard
    BY <1>1, <1>2, <2>3 DEF TypeOK, MainResetsBoard, timerVars
  <2>4. CASE MainStartsCpu
    BY <1>1, <1>2, <2>4 DEF TypeOK, MainStartsCpu, timerVars
  <2>. QED BY <1>5, <2>1, <2>2, <2>3, <2>4 DEF Main
<1>6. CASE Alarm
  <2>1. pause' \in BOOLEAN /\ alarm' \in {"idle", "look", "request"}
    <3>1. CASE AlarmEnter \/ AlarmLook
      BY <1>2, <3>1 DEF TypeOK, AlarmEnter, AlarmLook
    <3>2. CASE AlarmRequest
      BY <3>2 DEF AlarmRequest
    <3>. QED BY <1>6, <3>1, <3>2 DEF Alarm
  <2>2. UNCHANGED <<time, timerVars, state, status, thread, boot>>
    BY <1>6 DEF Alarm, AlarmEnter, AlarmLook, AlarmRequest
  <2>. QED BY <1>1, <1>2, <2>1, <2>2 DEF TypeOK, timerVars
<1>7. CASE LoopLeave \/ LoopPause \/ LoopExec \/ ExecOther \/ SwitchRun
  BY <1>1, <1>2, <1>7 DEF TypeOK, LoopLeave, LoopPause, LoopExec, ExecOther,
     SwitchRun, timerVars
<1>8. ASSUME NEW t \in Timers, BeginModTimer(t)
      PROVE  target' \in Timers /\ due' \in Nat
  BY <1>2, <1>8, Later DEF BeginModTimer
<1>9. ASSUME NEW t \in GuestTimers, ExecArm(t)
      PROVE  TypeOK'
  BY <1>1, <1>2, <1>8, <1>9, Constants DEF TypeOK, ExecArm
<1>10. ASSUME NEW t \in GuestTimers, ExecCancel(t)
       PROVE  TypeOK'
  BY <1>1, <1>2, <1>10 DEF TypeOK, ExecCancel
<1>11. CASE LinkTarget
  BY <1>1, <1>2, <1>11 DEF TypeOK, LinkTarget
<1>12. CASE SwitchPause
  <2>1. time \in 0..time /\ time \in Int
    BY <1>2, Constants DEF TypeOK
  <2>. QED BY <1>1, <1>2, <1>12, <2>1, Constants DEF TypeOK, SwitchPause
<1>13. CASE RunTimer
  <2>1. Head(active) \in Timers
    BY <1>13, TailStep DEF IInv, RunTimer, HeadExpired
  <2>. QED BY <1>1, <1>2, <1>13, <2>1 DEF TypeOK, RunTimer
<1>14. CASE CallbackRearms
  BY <1>1, <1>2, <1>8, <1>14 DEF TypeOK, CallbackRearms
<1>15. CASE WatchdogBites
  BY <1>1, <1>2, <1>15 DEF TypeOK, WatchdogBites, timerVars
<1>16. CASE WatchdogRestarts
  BY <1>1, <1>2, <1>8, <1>16 DEF TypeOK, WatchdogRestarts
<1>17. CASE RoundEnds \/ Resume
  BY <1>1, <1>2, <1>17 DEF TypeOK, RoundEnds, Resume, timerVars
<1>. QED BY <1>3, <1>4, <1>5, <1>6, <1>7, <1>9, <1>10, <1>11, <1>12, <1>13,
            <1>14, <1>15, <1>16, <1>17 DEF Next, Cpu

(* The boot and cpu->state keep in step with the CPU thread.               *)
LEMMA ControlStep ==
    ASSUME IInv, [Next]_vars
    PROVE  Booting' /\ StateAt'
<1>. USE DEF IInv, Booting, StateAt
<1>1. CASE UNCHANGED vars
  BY <1>1 DEF vars
<1>2. CASE ClockTick
  BY <1>2 DEF ClockTick, timerVars
<1>3. CASE Main
  <2>1. ASSUME NEW t \in BootTimers, MainArms(t)
        PROVE  Booting' /\ StateAt'
    BY <2>1 DEF MainArms
  <2>2. CASE MainSpawnsCpu \/ MainResetsBoard \/ MainStartsCpu
    BY <2>2 DEF MainSpawnsCpu, MainResetsBoard, MainStartsCpu, timerVars
  <2>. QED BY <1>3, <2>1, <2>2 DEF Main
<1>4. CASE Alarm
  BY <1>4 DEF Alarm, AlarmEnter, AlarmLook, AlarmRequest, timerVars
<1>5. CASE LoopLeave \/ LoopPause \/ LoopExec \/ ExecOther \/ SwitchRun
  BY <1>5 DEF LoopLeave, LoopPause, LoopExec, ExecOther, SwitchRun, timerVars
<1>6. ASSUME NEW t \in GuestTimers, ExecArm(t) \/ ExecCancel(t)
      PROVE  Booting' /\ StateAt'
  BY <1>6 DEF ExecArm, ExecCancel, TypeOK
<1>7. CASE LinkTarget
  BY <1>7 DEF LinkTarget
<1>8. CASE SwitchPause \/ RunTimer
  BY <1>8, Constants DEF SwitchPause, RunTimer
<1>9. CASE CallbackRearms \/ WatchdogBites \/ WatchdogRestarts
  BY <1>9 DEF CallbackRearms, WatchdogBites, WatchdogRestarts, TypeOK
<1>10. CASE RoundEnds \/ Resume
  BY <1>10 DEF RoundEnds, Resume, timerVars
<1>. QED BY <1>1, <1>2, <1>3, <1>4, <1>5, <1>6, <1>7, <1>8, <1>9, <1>10
         DEF Next, Cpu

(* The timer in hand stays out of the list until it is linked.             *)
LEMMA InHandStep ==
    ASSUME IInv, [Next]_vars
    PROVE  InHand'
<1>. USE DEF InHand
<1>1. TypeOK /\ ListSound /\ InHand /\ Booting
  BY DEF IInv
<1>2. ASSUME UNCHANGED <<active, horizon, target, due>>,
             thread' = thread \/ thread' \notin {"callback", "reset", "link"}
      PROVE  InHand'
  BY <1>1, <1>2 DEF Linked
<1>3. CASE UNCHANGED vars \/ ClockTick
  BY <1>2, <1>3 DEF vars, ClockTick, timerVars
<1>4. CASE Main
  <2>1. ASSUME NEW t \in BootTimers, MainArms(t)
        PROVE  InHand'
    BY <1>1, <2>1 DEF MainArms, Booting
  <2>2. CASE MainSpawnsCpu \/ MainResetsBoard \/ MainStartsCpu
    BY <1>2, <2>2 DEF MainSpawnsCpu, MainResetsBoard, MainStartsCpu, timerVars
  <2>. QED BY <1>4, <2>1, <2>2 DEF Main
<1>5. CASE Alarm
  BY <1>2, <1>5 DEF Alarm, AlarmEnter, AlarmLook, AlarmRequest, timerVars
<1>6. CASE LoopLeave \/ LoopPause \/ LoopExec \/ ExecOther \/ SwitchRun \/ Resume
  BY <1>2, <1>6 DEF LoopLeave, LoopPause, LoopExec, ExecOther, SwitchRun,
     Resume, timerVars
<1>7. ASSUME NEW t \in Timers, BeginModTimer(t)
      PROVE  ~Linked(target)' /\ due' > time
  <2>1. ~Contains(Unlink(active, t), t)
    BY <1>1, UnlinkStep
  <2>. QED BY <1>1, <1>7, <2>1, Later DEF BeginModTimer, Linked
<1>8. ASSUME NEW t \in GuestTimers, ExecArm(t)
      PROVE  InHand'
  <2>1. horizon = Off
    BY <1>1, <1>8 DEF ExecArm, TypeOK
  <2>. QED BY <1>7, <1>8, <2>1, Constants DEF ExecArm
<1>9. ASSUME NEW t \in GuestTimers, ExecCancel(t)
      PROVE  InHand'
  BY <1>9 DEF ExecCancel
<1>10. CASE LinkTarget \/ SwitchPause \/ RoundEnds
  BY <1>10 DEF LinkTarget, SwitchPause, RoundEnds
<1>11. CASE RunTimer
  <2>1. active # <<>> /\ target' = Head(active) /\ active' = Tail(active)
    BY <1>11 DEF RunTimer, HeadExpired
  <2>2. ~Linked(target)'
    BY <1>1, <2>1, TailStep DEF Linked
  <2>. QED BY <1>11, <2>2 DEF RunTimer
<1>12. CASE CallbackRearms \/ WatchdogRestarts
  <2>1. target \in Timers /\ BeginModTimer(target) /\ horizon' = horizon
    BY <1>1, <1>12 DEF CallbackRearms, WatchdogRestarts, TypeOK
  <2>2. ~Linked(target)' /\ due' > time
    BY <1>7, <2>1
  <2>3. horizon # Off => horizon \in Nat /\ horizon <= time /\ time \in Nat
    BY <1>1, Constants DEF TypeOK
  <2>4. due' \in Nat
    BY <1>1, <2>1, Later DEF BeginModTimer
  <2>. QED BY <1>12, <2>1, <2>2, <2>3, <2>4
           DEF CallbackRearms, WatchdogRestarts
<1>13. CASE WatchdogBites
  BY <1>1, <1>13 DEF WatchdogBites, timerVars, Linked
<1>. QED BY <1>3, <1>4, <1>5, <1>6, <1>8, <1>9, <1>10, <1>11, <1>12, <1>13
         DEF Next, Cpu

-----------------------------------------------------------------------------
(* IInv holds in every reachable state, whatever the timers and periods.   *)
THEOREM Inductive == Spec => []IInv
<1>1. IInv /\ [Next]_vars => IInv'
  BY ListStep, TypeStep, ControlStep, InHandStep DEF IInv
<1>. QED BY InitIInv, <1>1, PTL DEF Spec

(* TypeOK: every field keeps its type, and the CPU thread has a horizon    *)
(* and a timer in hand exactly where vp_run_timers and vp_mod_timer do.    *)
THEOREM TypesHold == Spec => []TypeOK
BY Inductive, PTL DEF IInv

(* ListSound: at no store of the CPU thread or the booting main thread can *)
(* the alarm handler meet a list with a cycle or out of order.             *)
THEOREM ListHolds == Spec => []ListSound
BY Inductive, PTL DEF IInv

(* ExecOnlyOnRunningBoard: no guest instruction before jz4740_reset has    *)
(* started the board, nor while the watchdog resets it.                    *)
THEOREM ExecWaitsForBoard == Spec => []ExecOnlyOnRunningBoard
<1>1. IInv => ExecOnlyOnRunningBoard
  BY DEF IInv, Booting, ExecOnlyOnRunningBoard, TypeOK
<1>. QED BY <1>1, Inductive, PTL

(* PausedOnlyInRound: PAUSING and RESTARTING are never left behind.        *)
THEOREM PauseEnds == Spec => []PausedOnlyInRound
<1>1. IInv => PausedOnlyInRound
  BY DEF IInv, Booting, StateAt, TypeOK, ThreadPoints, PausedOnlyInRound
<1>. QED BY <1>1, Inductive, PTL

-----------------------------------------------------------------------------
(* CpuLoop implements Deadlines.                                           *)
Left == [t \in Timers |-> LeftOf(t)]
Open == horizon # Off
Serving == {t \in Timers : Reached(t)}

(* What an armed timer is, on both levels.                                 *)
LEMMA ArmedIsLinked ==
    ASSUME TypeOK
    PROVE  /\ \A t \in Timers : Linked(t) => Left[t] = expire[t] - time
           /\ \A t \in Timers : ~Linked(t) => Left[t] = Off
           /\ \A t \in Timers : Linked(t) <=> Left[t] # Off
           /\ Abstract!Armed = {t \in Timers : Linked(t)}
<1>1. ASSUME NEW t \in Timers
      PROVE  expire[t] - time \in Int /\ expire[t] - time # Off
  BY Constants DEF TypeOK
<1>2. ASSUME NEW t \in Timers
      PROVE  Left[t] = IF Linked(t) THEN expire[t] - time ELSE Off
  BY DEF Left, LeftOf
<1>3. Abstract!Armed = {t \in Timers : Left[t] # Off}
  BY DEF Abstract!Armed, Left
<1>. QED BY <1>1, <1>2, <1>3

(* A step that links t alone, with deadline e, and one that unlinks t.     *)
LEMMA LinkedAlone ==
    ASSUME NEW t \in Timers, NEW e,
           \A u \in Timers : Linked(u)' <=> Linked(u) \/ u = t,
           expire' = [expire EXCEPT ![t] = e], time' = time, TypeOK
    PROVE  Left' = [Left EXCEPT ![t] = e - time] /\ Left'[t] = e - time
<1>1. expire \in [Timers -> Nat]
  BY DEF TypeOK
<1>2. Left' = [u \in Timers |-> IF Linked(u)' THEN expire'[u] - time ELSE Off]
  BY DEF Left, LeftOf
<1>3. Left = [u \in Timers |-> IF Linked(u) THEN expire[u] - time ELSE Off]
  BY DEF Left, LeftOf
<1>4. ASSUME NEW u \in Timers
      PROVE  Left'[u] = [Left EXCEPT ![t] = e - time][u]
  <2>1. CASE u = t
    BY <1>1, <1>2, <1>3, <2>1
  <2>2. CASE u # t
    BY <1>1, <1>2, <1>3, <2>2
  <2>. QED BY <2>1, <2>2
<1>. QED BY <1>2, <1>3, <1>4

LEMMA UnlinkedAlone ==
    ASSUME NEW t \in Timers,
           \A u \in Timers : Linked(u)' <=> Linked(u) /\ u # t,
           expire' = expire, time' = time
    PROVE  Left' = [Left EXCEPT ![t] = Off]
<1>2. Left' = [u \in Timers |-> IF Linked(u)' THEN expire[u] - time ELSE Off]
  BY DEF Left, LeftOf
<1>3. Left = [u \in Timers |-> IF Linked(u) THEN expire[u] - time ELSE Off]
  BY DEF Left, LeftOf
<1>4. ASSUME NEW u \in Timers
      PROVE  Left'[u] = [Left EXCEPT ![t] = Off][u]
  BY <1>2, <1>3
<1>. QED BY <1>2, <1>3, <1>4

(* A guest store disarms an armed timer, or does nothing.                  *)
LEMMA UnlinkIsCancel ==
    ASSUME IInv, NEW t \in Timers, active' = Unlink(active, t),
           UNCHANGED <<time, expire, horizon>>, horizon = Off
    PROVE  Abstract!Cancel(t) \/ UNCHANGED Abstract!vars
<1>1. CASE Linked(t)
  <2>1. \A u \in Timers : Linked(u)' <=> Linked(u) /\ u # t
    BY UnlinkStep DEF IInv, Linked
  <2>2. Left' = [Left EXCEPT ![t] = Off]
    BY <2>1, UnlinkedAlone
  <2>3. Left[t] # Off
    BY <1>1, ArmedIsLinked DEF IInv
  <2>4. Serving' = Serving
    BY DEF Serving, Reached
  <2>. QED BY <2>2, <2>3, <2>4 DEF Abstract!Cancel, Left, Serving
<1>2. CASE ~Linked(t)
  <2>1. active' = active
    BY <1>2, UnlinkStep DEF IInv
  <2>. QED BY <2>1 DEF Abstract!vars, LeftOf, Linked, Reached
<1>. QED BY <1>1, <1>2

(* A timer that is not linked is armed by linking it.                      *)
LEMMA LinkIsArm ==
    ASSUME IInv, NEW t \in Timers, ~Linked(t), NEW e \in Nat,
           active' = Link(active, expire, t, e),
           expire' = [expire EXCEPT ![t] = e],
           horizon # Off => e > horizon,
           UNCHANGED time
    PROVE  UNCHANGED horizon => Abstract!Arm(t)
<1>1. \A u \in Timers : Linked(u)' <=> Linked(u) \/ u = t
  BY LinkStep DEF IInv, Linked
<1>2. Left' = [Left EXCEPT ![t] = e - time] /\ Left'[t] = e - time
  BY <1>1, LinkedAlone DEF IInv
<1>3. Left[t] = Off
  BY ArmedIsLinked DEF IInv
<1>4. e - time \in Int
  BY DEF IInv, TypeOK
<1>5. ASSUME UNCHANGED horizon
      PROVE  Serving' = Serving
  <2>1. horizon # Off => horizon \in Nat
    BY DEF IInv, TypeOK
  <2>2. /\ expire'[t] = e
        /\ \A u \in Timers : u # t => expire'[u] = expire[u]
    BY DEF IInv, TypeOK
  <2>3. ASSUME NEW u \in Timers
        PROVE  Reached(u)' <=> Reached(u)
    <3>1. CASE u = t
      BY <1>1, <1>5, <2>1, <2>2, <3>1 DEF Reached
    <3>2. CASE u # t
      BY <1>1, <1>5, <2>2, <3>2 DEF Reached
    <3>. QED BY <3>1, <3>2
  <2>. QED BY <2>3 DEF Serving
<1>. QED BY <1>2, <1>3, <1>4, <1>5 DEF Abstract!Arm, Left, Serving

(* Unlinking the head of the list for its callback fires an earliest timer. *)
LEMMA RunTimerFires ==
    ASSUME IInv, RunTimer
    PROVE  \E t \in Timers : Abstract!Fire(t)
<1>. DEFINE t == Head(active)
<1>1. active # <<>> /\ expire[t] <= horizon /\ active' = Tail(active)
  BY DEF RunTimer, HeadExpired
<1>2. /\ t \in Timers /\ Linked(t)
      /\ \A u \in Timers : Linked(u)' <=> Linked(u) /\ u # t
      /\ \A u \in Timers : Linked(u) => expire[t] <= expire[u]
  BY <1>1, TailStep DEF IInv, Linked
<1>. HIDE DEF t
<1>3. Left' = [Left EXCEPT ![t] = Off]
  BY <1>2, UnlinkedAlone DEF RunTimer
<1>4. Left[t] = expire[t] - time /\ Left[t] # Off
  BY <1>2, ArmedIsLinked DEF IInv
<1>5. \A u \in Abstract!Armed : Left[t] <= Left[u]
  BY <1>2, <1>4, ArmedIsLinked DEF IInv, TypeOK
<1>6. horizon \in Nat /\ horizon # Off /\ time \in Nat /\ expire[t] \in Nat
  BY <1>2, Constants DEF RunTimer, IInv, TypeOK
<1>7. t \in Serving /\ Serving' = Serving \ {t}
  <2>1. ASSUME NEW u \in Timers
        PROVE  Reached(u)' <=> Reached(u) /\ u # t
    BY <1>2 DEF RunTimer, Reached
  <2>. QED BY <1>1, <1>2, <1>6, <2>1 DEF Serving, Reached
<1>8. Abstract!Fire(t)
  BY <1>3, <1>5, <1>7 DEF RunTimer, Abstract!Fire, Left, Serving
<1>. QED BY <1>2, <1>8

(* The round ends when even the head of the list is not due: none is.      *)
LEMMA RoundEndsCloses ==
    ASSUME IInv, RoundEnds
    PROVE  Abstract!CloseRound
<1>1. horizon \in Nat /\ horizon # Off
  BY Constants DEF RoundEnds, IInv, TypeOK
<1>2. ASSUME NEW u \in Timers, Linked(u)
      PROVE  expire[u] > horizon
  <2>1. active # <<>>
    <3>1. PICK i \in 1..Len(active) : active[i] = u
      BY <1>2 DEF Linked, Contains
    <3>. QED BY <3>1, EmptySeq
  <2>2. Head(active) \in Timers /\ expire[Head(active)] <= expire[u]
    BY <1>2, <2>1, TailStep DEF IInv
  <2>3. ~(expire[Head(active)] <= horizon)
    BY <2>1 DEF RoundEnds, HeadExpired
  <2>4. expire[Head(active)] \in Nat /\ expire[u] \in Nat
    BY <2>2 DEF IInv, TypeOK
  <2>. QED BY <1>1, <2>2, <2>3, <2>4
<1>3. \A u \in Timers : ~Reached(u)
  BY <1>1, <1>2 DEF Reached, IInv, TypeOK
<1>4. Serving = {} /\ Serving' = {}
  BY <1>3 DEF RoundEnds, Serving, Reached
<1>5. Left' = Left
  BY DEF RoundEnds, Left, LeftOf, Linked
<1>. QED BY <1>1, <1>4, <1>5
         DEF RoundEnds, Abstract!CloseRound, Left, Serving

(* A tick of the clock brings every deadline one ms nearer.               *)
LEMMA TickAdvances ==
    ASSUME IInv, ClockTick
    PROVE  Abstract!Advance
<1>1. /\ time' = time + 1 /\ time \in Nat
      /\ UNCHANGED <<active, expire, horizon>>
  BY DEF IInv, TypeOK, ClockTick, timerVars
<1>2. ASSUME NEW t \in Timers
      PROVE  LeftOf(t)' = IF LeftOf(t) = Off THEN Off ELSE LeftOf(t) - 1
  <2>1. expire[t] \in Nat /\ expire[t] - time # Off
    BY <1>1, Constants DEF IInv, TypeOK
  <2>2. LeftOf(t)' = IF Linked(t) THEN expire[t] - (time + 1) ELSE Off
    BY <1>1 DEF LeftOf, Linked
  <2>. QED BY <1>1, <2>1, <2>2 DEF LeftOf
<1>3. Left' = [t \in Timers |-> IF Left[t] = Off THEN Off ELSE Left[t] - 1]
  BY <1>2 DEF Left
<1>4. Serving' = Serving
  BY <1>1 DEF Serving, Reached, Linked
<1>. QED BY <1>1, <1>3, <1>4 DEF Abstract!Advance, Left, Serving

(* The round opens for the timers that are due then.                       *)
LEMMA PauseOpens ==
    ASSUME IInv, SwitchPause
    PROVE  Abstract!OpenRound
<1>1. horizon = Off /\ horizon' = time /\ horizon' # Off
  BY Constants DEF SwitchPause, IInv, TypeOK
<1>2. Left' = Left
  BY DEF SwitchPause, Left, LeftOf, Linked
<1>3. ASSUME NEW t \in Timers
      PROVE  Reached(t)' <=> t \in Abstract!Armed /\ Left[t] <= 0
  <2>1. Reached(t)' <=> Linked(t) /\ expire[t] <= time
    BY <1>1 DEF SwitchPause, Reached, Linked
  <2>2. expire[t] \in Nat /\ time \in Nat
    BY DEF IInv, TypeOK
  <2>. QED BY <2>1, <2>2, ArmedIsLinked DEF IInv
<1>4. Serving' = {t \in Abstract!Armed : Left[t] <= 0}
  BY <1>3, ArmedIsLinked DEF Serving, IInv
<1>. QED BY <1>1, <1>2, <1>4
         DEF Abstract!OpenRound, Abstract!DueNow, Left, Serving

(* Every step is a step of Deadlines or changes nothing it sees.           *)
LEMMA StepImplements ==
    ASSUME IInv, [Next]_vars
    PROVE  [Abstract!Next]_(Abstract!vars)
<1>1. TypeOK /\ ListSound /\ InHand /\ Booting
  BY DEF IInv
<1>2. ASSUME UNCHANGED <<time, active, expire, horizon>>
      PROVE  UNCHANGED Abstract!vars
  BY <1>2 DEF Abstract!vars, LeftOf, Linked, Reached
<1>3. CASE UNCHANGED vars
  BY <1>2, <1>3 DEF vars
<1>4. CASE ClockTick
  BY <1>4, TickAdvances DEF Abstract!Next
<1>5. CASE Main
  <2>1. ASSUME NEW t \in BootTimers, MainArms(t)
        PROVE  Abstract!Next
    <3>1. horizon = Off
      BY <1>1, <2>1 DEF MainArms, Booting, TypeOK
    <3>2. t \in Timers /\ time + Period[t] \in Nat
      BY <1>1, Constants, Later
    <3>3. Abstract!Arm(t)
      BY <2>1, <3>1, <3>2, LinkIsArm DEF MainArms
    <3>. QED BY <3>2, <3>3 DEF Abstract!Next
  <2>2. CASE MainSpawnsCpu \/ MainResetsBoard \/ MainStartsCpu
    BY <1>2, <2>2 DEF MainSpawnsCpu, MainResetsBoard, MainStartsCpu, timerVars
  <2>. QED BY <1>5, <2>1, <2>2 DEF Main
<1>6. CASE Alarm
  BY <1>2, <1>6 DEF Alarm, AlarmEnter, AlarmLook, AlarmRequest, timerVars
<1>7. CASE \/ LoopLeave \/ LoopPause \/ LoopExec \/ ExecOther \/ SwitchRun
           \/ WatchdogBites \/ Resume
  BY <1>2, <1>7 DEF LoopLeave, LoopPause, LoopExec, ExecOther, SwitchRun,
     WatchdogBites, Resume, timerVars
<1>8. ASSUME NEW t \in GuestTimers, ExecArm(t) \/ ExecCancel(t)
      PROVE  Abstract!Next \/ UNCHANGED Abstract!vars
  <2>1. /\ t \in Timers /\ horizon = Off /\ active' = Unlink(active, t)
        /\ UNCHANGED <<time, expire, horizon>>
    BY <1>1, <1>8, Constants DEF ExecArm, ExecCancel, BeginModTimer, TypeOK
  <2>. QED BY <2>1, UnlinkIsCancel DEF Abstract!Next
<1>9. CASE LinkTarget
  <2>1. /\ target \in Timers /\ due \in Nat /\ ~Linked(target)
        /\ horizon # Off => due > horizon
    BY <1>1, <1>9 DEF LinkTarget, TypeOK, InHand
  <2>2. Abstract!Arm(target)
    BY <1>9, <2>1, LinkIsArm DEF LinkTarget, FinishModTimer
  <2>. QED BY <2>1, <2>2 DEF Abstract!Next
<1>10. CASE SwitchPause
  BY <1>10, PauseOpens DEF Abstract!Next
<1>11. CASE RunTimer
  BY <1>11, RunTimerFires DEF Abstract!Next
<1>12. CASE CallbackRearms \/ WatchdogRestarts
  <2>1. target \in Timers /\ ~Linked(target)
    BY <1>1, <1>12 DEF CallbackRearms, WatchdogRestarts, TypeOK, InHand
  <2>2. active' = Unlink(active, target)
    BY <1>12 DEF CallbackRearms, WatchdogRestarts, BeginModTimer
  <2>3. active' = active
    BY <1>1, <2>1, <2>2, UnlinkStep
  <2>. QED BY <1>2, <1>12, <2>3 DEF CallbackRearms, WatchdogRestarts
<1>13. CASE RoundEnds
  BY <1>13, RoundEndsCloses DEF Abstract!Next
<1>. QED BY <1>3, <1>4, <1>5, <1>6, <1>7, <1>8, <1>9, <1>10, <1>11, <1>12,
            <1>13 DEF Next, Cpu

(* ImplementsDeadlines: in a round of vp_run_timers timers fire at or      *)
(* after their expire_time and in that order, none that was due when the   *)
(* round began is left out, and no callback's re-arming prolongs it.       *)
THEOREM ServesDeadlines == Spec => ImplementsDeadlines
<1>1. Init => Abstract!Init
  <2>1. Init => \A t \in Timers : ~Linked(t)
    BY EmptySeq DEF Init, Linked, Contains
  <2>. QED BY <2>1 DEF Init, Abstract!Init, LeftOf, Reached
<1>2. IInv /\ [Next]_vars => [Abstract!Next]_(Abstract!vars)
  BY StepImplements
<1>. QED BY <1>1, <1>2, Inductive, PTL
         DEF Spec, ImplementsDeadlines, Abstract!Spec

=============================================================================
