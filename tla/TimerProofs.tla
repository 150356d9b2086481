----------------------------- MODULE TimerProofs -----------------------------
(***************************************************************************)
(* Proofs that the invariants of Timer hold for every set of timers, all   *)
(* intervals and every bound of the clock.                                 *)
(***************************************************************************)
EXTENDS Timer, SequenceTheorems, WellFoundedInduction, TLAPS

-----------------------------------------------------------------------------
(* The sorted list of timers: what adding, removing and rescheduling a     *)
(* timer do to the elements, to the order and to the head.                 *)

Distinct(queue) == \A i, j \in 1..Len(queue) : queue[i] = queue[j] => i = j

Elements(queue) == {queue[i] : i \in 1..Len(queue)}

-----------------------------------------------------------------------------

(***************************************************************************)
(* Insertion, element by element.                                          *)
(***************************************************************************)
LEMMA InsertAtProperties ==
  ASSUME NEW S, NEW s \in Seq(S), NEW i \in 1..Len(s) + 1, NEW e \in S
  PROVE  /\ InsertAt(s, i, e) \in Seq(S)
         /\ Len(InsertAt(s, i, e)) = Len(s) + 1
         /\ \A k \in 1..Len(s) + 1 :
              InsertAt(s, i, e)[k] =
                IF k < i THEN s[k] ELSE IF k = i THEN e ELSE s[k - 1]
<1> DEFINE front == SubSeq(s, 1, i - 1)
           back  == SubSeq(s, i, Len(s))
           left  == front \o <<e>>
<1>1. /\ Len(s) \in Nat
      /\ i \in Int
      /\ \A k \in 1..Len(s) : s[k] \in S
  BY LenProperties
<1>2. /\ front \in Seq(S)
      /\ Len(front) = i - 1
      /\ \A k \in 1..i - 1 : front[k] = s[k]
  <2>1. \A k \in 1..i - 1 : s[k] \in S
    BY <1>1
  <2> QED
    BY <1>1, <2>1, SubSeqProperties
<1>3. /\ back \in Seq(S)
      /\ Len(back) = Len(s) - i + 1
      /\ \A k \in 1..Len(s) - i + 1 : back[k] = s[i + k - 1]
  <2>1. \A k \in i..Len(s) : s[k] \in S
    BY <1>1
  <2> QED
    BY <1>1, <2>1, SubSeqProperties
<1>4. <<e>> \in Seq(S) /\ Len(<<e>>) = 1 /\ <<e>>[1] = e
  OBVIOUS
<1> HIDE DEF front, back
<1>5. /\ left \in Seq(S)
      /\ Len(left) = i
      /\ \A k \in 1..i : left[k] = IF k < i THEN s[k] ELSE e
  <2>1. /\ left \in Seq(S)
        /\ Len(left) = Len(front) + 1
        /\ \A k \in 1..Len(front) + 1 :
             left[k] = IF k <= Len(front) THEN front[k] ELSE <<e>>[k - Len(front)]
    BY <1>2, <1>4, ConcatProperties
  <2> QED
    BY <1>1, <1>2, <1>4, <2>1
<1> HIDE DEF left
<1>6. InsertAt(s, i, e) = left \o back
  BY DEF InsertAt, left, front, back
<1>7. /\ left \o back \in Seq(S)
      /\ Len(left \o back) = Len(left) + Len(back)
      /\ \A k \in 1..Len(left) + Len(back) :
           (left \o back)[k] = IF k <= Len(left) THEN left[k] ELSE back[k - Len(left)]
  BY <1>3, <1>5, ConcatProperties
<1> QED
  BY <1>1, <1>3, <1>5, <1>6, <1>7

(***************************************************************************)
(* Deletion, element by element.                                           *)
(***************************************************************************)
LEMMA RemoveAtProperties ==
  ASSUME NEW S, NEW s \in Seq(S), NEW i \in 1..Len(s)
  PROVE  /\ RemoveAt(s, i) \in Seq(S)
         /\ Len(RemoveAt(s, i)) = Len(s) - 1
         /\ \A k \in 1..Len(s) - 1 :
              RemoveAt(s, i)[k] = IF k < i THEN s[k] ELSE s[k + 1]
<1> DEFINE front == SubSeq(s, 1, i - 1)
           back  == SubSeq(s, i + 1, Len(s))
<1>1. /\ Len(s) \in Nat
      /\ i \in Int
      /\ \A k \in 1..Len(s) : s[k] \in S
  BY LenProperties
<1>2. /\ front \in Seq(S)
      /\ Len(front) = i - 1
      /\ \A k \in 1..i - 1 : front[k] = s[k]
  <2>1. \A k \in 1..i - 1 : s[k] \in S
    BY <1>1
  <2> QED
    BY <1>1, <2>1, SubSeqProperties
<1>3. /\ back \in Seq(S)
      /\ Len(back) = Len(s) - i
      /\ \A k \in 1..Len(s) - i : back[k] = s[i + k]
  <2>1. \A k \in i + 1..Len(s) : s[k] \in S
    BY <1>1
  <2>2. /\ back \in Seq(S)
        /\ Len(back) = IF i + 1 <= Len(s) THEN Len(s) - (i + 1) + 1 ELSE 0
        /\ \A k \in 1..Len(s) - (i + 1) + 1 : back[k] = s[i + 1 + k - 1]
    BY <1>1, <2>1, SubSeqProperties
  <2> HIDE DEF back
  <2> QED
    BY <1>1, <2>2
<1>4. RemoveAt(s, i) = front \o back
  BY DEF RemoveAt
<1> HIDE DEF front, back
<1>5. /\ front \o back \in Seq(S)
      /\ Len(front \o back) = Len(front) + Len(back)
      /\ \A k \in 1..Len(front) + Len(back) :
           (front \o back)[k] =
             IF k <= Len(front) THEN front[k] ELSE back[k - Len(front)]
  BY <1>2, <1>3, ConcatProperties
<1> QED
  BY <1>1, <1>2, <1>3, <1>4, <1>5

-----------------------------------------------------------------------------

(***************************************************************************)
(* The walk of Timer::Add stops: there is a first position behind which    *)
(* everything is due later.                                                *)
(***************************************************************************)
LEMMA AddPositionProperties ==
  ASSUME NEW S, NEW queue \in Seq(S), NEW due \in [S -> Nat], NEW t \in S
  PROVE  LET p == AddPosition(queue, due, t)
         IN /\ p \in 1..Len(queue) + 1
            /\ \A j \in 1..p - 1 : due[queue[j]] <= due[t]
            /\ p <= Len(queue) => due[queue[p]] > due[t]
<1> DEFINE Later == {i \in 1..Len(queue) + 1 :
                       i <= Len(queue) => due[queue[i]] > due[t]}
<1>1. /\ Len(queue) \in Nat
      /\ \A k \in 1..Len(queue) : queue[k] \in S
  BY LenProperties
<1>2. Later \subseteq Nat /\ Later # {}
  <2>1. Len(queue) + 1 \in Later
    BY <1>1
  <2> QED
    BY <1>1, <2>1
<1>3. PICK p \in Later : \A i \in Later : ~(<<i, p>> \in OpToRel(<, Nat))
  BY <1>2, NatLessThanWellFounded, WFMin
<1>4. \A i \in Later : ~(i < p)
  BY <1>2, <1>3 DEF OpToRel
<1>5. p \in 1..Len(queue) + 1 /\ (p <= Len(queue) => due[queue[p]] > due[t])
  OBVIOUS
<1>6. \A j \in 1..p - 1 : due[queue[j]] <= due[t]
  <2> SUFFICES ASSUME NEW j \in 1..p - 1 PROVE due[queue[j]] <= due[t]
    OBVIOUS
  <2>1. j \in 1..Len(queue) /\ j < p
    BY <1>1, <1>5
  <2>2. j \notin Later
    BY <1>4, <2>1
  <2>3. due[queue[j]] \in Nat /\ due[t] \in Nat
    BY <1>1, <2>1
  <2> QED
    BY <1>1, <2>1, <2>2, <2>3
<1>7. \E i \in 1..Len(queue) + 1 :
        /\ \A j \in 1..i - 1 : due[queue[j]] <= due[t]
        /\ i <= Len(queue) => due[queue[i]] > due[t]
  BY <1>5, <1>6
<1> HIDE DEF Later
<1> QED
  BY <1>7 DEF AddPosition

(***************************************************************************)
(* Timer::Add on a sorted list: the timer joins it, the list stays sorted, *)
(* and the head is the new timer or the old head.                          *)
(***************************************************************************)
LEMMA AddedProperties ==
  ASSUME NEW S, NEW queue \in Seq(S), NEW due \in [S -> Nat], NEW t \in S,
         Distinct(queue), t \notin Elements(queue), IsSortedBy(queue, due)
  PROVE  /\ Added(queue, due, t) \in Seq(S)
         /\ Distinct(Added(queue, due, t))
         /\ Elements(Added(queue, due, t)) = Elements(queue) \cup {t}
         /\ IsSortedBy(Added(queue, due, t), due)
         /\ \/ Added(queue, due, t)[1] = t
            \/ /\ queue # <<>>
               /\ Added(queue, due, t)[1] = queue[1]
<1> DEFINE p == AddPosition(queue, due, t)
           a == Added(queue, due, t)
           n == Len(queue)
<1>1. /\ n \in Nat
      /\ \A k \in 1..n : queue[k] \in S
      /\ \A k \in 1..n : queue[k] # t
  BY LenProperties DEF Elements
<1>2. /\ p \in 1..n + 1
      /\ \A j \in 1..p - 1 : due[queue[j]] <= due[t]
      /\ p <= n => due[queue[p]] > due[t]
  BY AddPositionProperties
<1> HIDE DEF p
<1>3. /\ a \in Seq(S)
      /\ Len(a) = n + 1
      /\ \A k \in 1..n + 1 : a[k] = IF k < p THEN queue[k]
                                     ELSE IF k = p THEN t ELSE queue[k - 1]
  <2>1. a = InsertAt(queue, p, t)
    BY DEF Added, p
  <2>2. /\ InsertAt(queue, p, t) \in Seq(S)
        /\ Len(InsertAt(queue, p, t)) = Len(queue) + 1
        /\ \A k \in 1..Len(queue) + 1 :
             InsertAt(queue, p, t)[k] =
               IF k < p THEN queue[k] ELSE IF k = p THEN t ELSE queue[k - 1]
    BY <1>2, InsertAtProperties
  <2> HIDE DEF a
  <2> QED
    BY <2>1, <2>2
<1> HIDE DEF a
<1>8. \A k \in 1..n + 1 :
        /\ k < p => k \in 1..n /\ a[k] = queue[k]
        /\ k = p => a[k] = t
        /\ k > p => k - 1 \in 1..n /\ a[k] = queue[k - 1]
  <2> SUFFICES ASSUME NEW k \in 1..n + 1
               PROVE  /\ k < p => k \in 1..n /\ a[k] = queue[k]
                      /\ k = p => a[k] = t
                      /\ k > p => k - 1 \in 1..n /\ a[k] = queue[k - 1]
    OBVIOUS
  <2>1. n \in Nat /\ p \in 1..n + 1
    BY <1>1, <1>2
  <2>2. a[k] = IF k < p THEN queue[k] ELSE IF k = p THEN t ELSE queue[k - 1]
    BY <1>3
  <2>3. k < p => k \in 1..n /\ a[k] = queue[k]
    BY <2>1, <2>2
  <2>4. k = p => a[k] = t
    BY <2>1, <2>2
  <2>5. k > p => k - 1 \in 1..n /\ a[k] = queue[k - 1]
    BY <2>1, <2>2
  <2> QED
    BY <2>3, <2>4, <2>5
<1>4. Distinct(a)
  <2> SUFFICES ASSUME NEW i \in 1..n + 1, NEW j \in 1..n + 1, a[i] = a[j]
               PROVE  i = j
    BY <1>3 DEF Distinct
  <2>1. \A k \in 1..n, l \in 1..n : queue[k] = queue[l] => k = l
    BY DEF Distinct
  <2>2. i = p <=> j = p
    <3>1. \A k \in 1..n + 1 : k # p => a[k] # t
      <4> SUFFICES ASSUME NEW k \in 1..n + 1, k # p PROVE a[k] # t
        OBVIOUS
      <4>1. CASE k < p
        BY <1>1, <1>8, <4>1
      <4>2. CASE k > p
        BY <1>1, <1>8, <4>2
      <4> QED
        BY <1>2, <4>1, <4>2
    <3> QED
      BY <1>8, <3>1
  <2>3. CASE i < p /\ j < p
    BY <1>8, <2>1, <2>3
  <2>4. CASE i > p /\ j > p
    <3>1. i - 1 \in 1..n /\ j - 1 \in 1..n /\ queue[i - 1] = queue[j - 1]
      BY <1>8, <2>4
    <3> QED
      BY <2>1, <3>1
  <2>5. CASE i < p /\ j > p
    <3>1. i \in 1..n /\ j - 1 \in 1..n /\ queue[i] = queue[j - 1] /\ i # j - 1
      BY <1>2, <1>8, <2>5
    <3> QED
      BY <2>1, <3>1
  <2>6. CASE i > p /\ j < p
    <3>1. i - 1 \in 1..n /\ j \in 1..n /\ queue[i - 1] = queue[j] /\ i - 1 # j
      BY <1>2, <1>8, <2>6
    <3> QED
      BY <2>1, <3>1
  <2> QED
    BY <1>2, <2>2, <2>3, <2>4, <2>5, <2>6
<1>5. Elements(a) = Elements(queue) \cup {t}
  <2>1. \A i \in 1..n + 1 : a[i] \in Elements(queue) \cup {t}
    BY <1>1, <1>2, <1>3 DEF Elements
  <2>2. \A k \in 1..n : queue[k] \in Elements(a)
    <3> SUFFICES ASSUME NEW k \in 1..n PROVE \E i \in 1..Len(a) : a[i] = queue[k]
      BY DEF Elements
    <3>1. CASE k < p
      <4>1. k \in 1..Len(a) /\ a[k] = queue[k]
        BY <1>1, <1>2, <1>3, <3>1
      <4> QED
        BY <4>1
    <3>2. CASE ~(k < p)
      <4>1. k + 1 \in 1..Len(a) /\ a[k + 1] = queue[k]
        BY <1>1, <1>2, <1>3, <3>2
      <4> QED
        BY <4>1
    <3> QED
      BY <3>1, <3>2
  <2>3. t \in Elements(a)
    <3>1. p \in 1..Len(a) /\ a[p] = t
      BY <1>1, <1>2, <1>3
    <3> QED
      BY <3>1 DEF Elements
  <2> QED
    BY <1>3, <2>1, <2>2, <2>3 DEF Elements
<1>6. IsSortedBy(a, due)
  <2> SUFFICES ASSUME NEW i \in 1..n + 1, NEW j \in 1..n + 1, i < j
               PROVE  due[a[i]] <= due[a[j]]
    BY <1>3 DEF IsSortedBy
  <2>1. \A k \in 1..n, l \in 1..n : k < l => due[queue[k]] <= due[queue[l]]
    BY DEF IsSortedBy
  <2>2. due[t] \in Nat /\ \A k \in 1..n : due[queue[k]] \in Nat
    BY <1>1
  <2>3. CASE j < p
    <3>1. i < p
      BY <1>2, <2>3
    <3> QED
      BY <1>8, <2>1, <2>3, <3>1
  <2>4. CASE i < p /\ j = p
    <3>1. i \in 1..p - 1
      BY <1>2, <2>4
    <3> QED
      BY <1>2, <1>8, <2>4, <3>1
  <2>5. CASE i < p /\ j > p
    <3>1. i \in 1..n /\ j - 1 \in 1..n /\ i <= j - 1
      BY <1>1, <1>2, <2>5
    <3>2. a[i] = queue[i] /\ a[j] = queue[j - 1]
      BY <1>1, <1>2, <1>3, <2>5
    <3>3. i = j - 1 \/ i < j - 1
      BY <3>1
    <3> QED
      BY <2>1, <2>2, <3>1, <3>2, <3>3
  <2>6. CASE i = p
    <3>1. j - 1 \in 1..n /\ p \in 1..n /\ p <= j - 1 /\ a[i] = t /\ a[j] = queue[j - 1]
      BY <1>1, <1>2, <1>3, <2>6
    <3>2. due[queue[p]] > due[t]
      BY <1>2, <3>1
    <3>3. p = j - 1 \/ due[queue[p]] <= due[queue[j - 1]]
      BY <2>1, <3>1
    <3>4. due[queue[p]] \in Nat /\ due[queue[j - 1]] \in Nat
      BY <2>2, <3>1
    <3> QED
      BY <2>2, <3>1, <3>2, <3>3, <3>4
  <2>7. CASE i > p
    <3>1. i - 1 \in 1..n /\ j - 1 \in 1..n /\ i - 1 < j - 1
      BY <1>1, <1>2, <2>7
    <3>2. a[i] = queue[i - 1] /\ a[j] = queue[j - 1]
      <4>1. j > p
        BY <1>2, <2>7
      <4> QED
        BY <1>8, <2>7, <4>1
    <3> QED
      BY <2>1, <3>1, <3>2
  <2> QED
    BY <1>2, <2>3, <2>4, <2>5, <2>6, <2>7
<1>7. a[1] = t \/ (queue # <<>> /\ a[1] = queue[1])
  <2>1. CASE p = 1
    BY <1>1, <1>3, <2>1
  <2>2. CASE p # 1
    <3>1. n >= 1
      BY <1>1, <1>2, <2>2
    <3>2. queue # <<>>
      BY <3>1
    <3> QED
      BY <1>1, <1>2, <1>3, <2>2, <3>2
  <2> QED
    BY <2>1, <2>2
<1> QED
  BY <1>3, <1>4, <1>5, <1>6, <1>7 DEF a

(***************************************************************************)
(* Timer::Remove: the timer leaves and the others keep their order.        *)
(***************************************************************************)
LEMMA RemovedProperties ==
  ASSUME NEW S, NEW queue \in Seq(S), NEW t \in Elements(queue),
         Distinct(queue)
  PROVE  /\ Removed(queue, t) \in Seq(S)
         /\ Distinct(Removed(queue, t))
         /\ Elements(Removed(queue, t)) = Elements(queue) \ {t}
         /\ \A due : IsSortedBy(queue, due) => IsSortedBy(Removed(queue, t), due)
         /\ t = queue[1] =>
              /\ Len(Removed(queue, t)) = Len(queue) - 1
              /\ \A k \in 1..Len(queue) - 1 : Removed(queue, t)[k] = queue[k + 1]
         /\ t # queue[1] => Removed(queue, t)[1] = queue[1]
<1> DEFINE p == PositionOf(queue, t)
           r == Removed(queue, t)
           n == Len(queue)
<1>1. /\ n \in Nat
      /\ \A k \in 1..n : queue[k] \in S
      /\ \A k, l \in 1..n : queue[k] = queue[l] => k = l
  BY LenProperties DEF Distinct
<1>2. p \in 1..n /\ queue[p] = t
  <2>1. \E i \in 1..n : queue[i] = t
    BY DEF Elements
  <2> QED
    BY <2>1 DEF PositionOf
<1> HIDE DEF p
<1>3. /\ r \in Seq(S)
      /\ Len(r) = n - 1
      /\ \A k \in 1..n - 1 : r[k] = IF k < p THEN queue[k] ELSE queue[k + 1]
  BY <1>2, RemoveAtProperties DEF Removed, p
<1> HIDE DEF r
<1>4. Distinct(r)
  <2> SUFFICES ASSUME NEW i \in 1..n - 1, NEW j \in 1..n - 1, r[i] = r[j]
               PROVE  i = j
    BY <1>3 DEF Distinct
  <2> QED
    BY <1>1, <1>2, <1>3
<1>5. Elements(r) = Elements(queue) \ {t}
  <2>1. \A i \in 1..n - 1 : r[i] \in Elements(queue) \ {t}
    <3> SUFFICES ASSUME NEW i \in 1..n - 1 PROVE r[i] \in Elements(queue) /\ r[i] # t
      OBVIOUS
    <3>1. CASE i < p
      <4>1. i \in 1..n /\ r[i] = queue[i] /\ i # p
        BY <1>1, <1>2, <1>3, <3>1
      <4> QED
        BY <1>1, <1>2, <4>1 DEF Elements
    <3>2. CASE ~(i < p)
      <4>1. i + 1 \in 1..n /\ r[i] = queue[i + 1] /\ i + 1 # p
        BY <1>1, <1>2, <1>3, <3>2
      <4> QED
        BY <1>1, <1>2, <4>1 DEF Elements
    <3> QED
      BY <3>1, <3>2
  <2>2. \A k \in 1..n : k # p => queue[k] \in Elements(r)
    <3> SUFFICES ASSUME NEW k \in 1..n, k # p
                 PROVE  \E i \in 1..Len(r) : r[i] = queue[k]
      BY DEF Elements
    <3>1. CASE k < p
      <4>1. k \in 1..Len(r) /\ r[k] = queue[k]
        BY <1>1, <1>2, <1>3, <3>1
      <4> QED
        BY <4>1
    <3>2. CASE ~(k < p)
      <4>1. k - 1 \in 1..Len(r) /\ r[k - 1] = queue[k]
        BY <1>1, <1>2, <1>3, <3>2
      <4> QED
        BY <4>1
    <3> QED
      BY <3>1, <3>2
  <2> QED
    BY <1>2, <1>3, <2>1, <2>2 DEF Elements
<1>6. ASSUME NEW due, IsSortedBy(queue, due)
      PROVE  IsSortedBy(r, due)
  <2> SUFFICES ASSUME NEW i \in 1..n - 1, NEW j \in 1..n - 1, i < j
               PROVE  due[r[i]] <= due[r[j]]
    BY <1>3 DEF IsSortedBy
  <2>1. \A k, l \in 1..n : k < l => due[queue[k]] <= due[queue[l]]
    BY <1>6 DEF IsSortedBy
  <2>2. CASE j < p
    <3>1. i \in 1..n /\ j \in 1..n /\ r[i] = queue[i] /\ r[j] = queue[j]
      BY <1>1, <1>2, <1>3, <2>2
    <3> QED
      BY <2>1, <3>1
  <2>3. CASE i < p /\ ~(j < p)
    <3>1. i \in 1..n /\ j + 1 \in 1..n /\ i < j + 1 /\ r[i] = queue[i] /\ r[j] = queue[j + 1]
      BY <1>1, <1>2, <1>3, <2>3
    <3> QED
      BY <2>1, <3>1
  <2>4. CASE ~(i < p)
    <3>1. i + 1 \in 1..n /\ j + 1 \in 1..n /\ i + 1 < j + 1
      BY <1>1
    <3>2. r[i] = queue[i + 1] /\ r[j] = queue[j + 1]
      <4>1. ~(j < p)
        BY <1>2, <2>4
      <4> QED
        BY <1>3, <2>4, <4>1
    <3> QED
      BY <2>1, <3>1, <3>2
  <2> QED
    BY <1>2, <2>2, <2>3, <2>4
<1>7. t = queue[1] => /\ Len(r) = n - 1
                      /\ \A k \in 1..n - 1 : r[k] = queue[k + 1]
  BY <1>1, <1>2, <1>3
<1>8. t # queue[1] => r[1] = queue[1]
  <2> SUFFICES ASSUME t # queue[1] PROVE r[1] = queue[1]
    OBVIOUS
  <2>1. p # 1
    BY <1>2
  <2> QED
    BY <1>1, <1>2, <1>3, <2>1
<1> QED
  BY <1>3, <1>4, <1>5, <1>6, <1>7, <1>8 DEF r

(***************************************************************************)
(* The end of ThreadFunction's loop: from a list that is sorted except for *)
(* its head, a sorted list of the same timers.                             *)
(***************************************************************************)
LEMMA RescheduledProperties ==
  ASSUME NEW S, NEW queue \in Seq(S), NEW due \in [S -> Nat], queue # <<>>,
         Distinct(queue),
         \A i, j \in 2..Len(queue) : i < j => due[queue[i]] <= due[queue[j]]
  PROVE  /\ Rescheduled(queue, due) \in Seq(S)
         /\ Distinct(Rescheduled(queue, due))
         /\ Elements(Rescheduled(queue, due)) = Elements(queue)
         /\ IsSortedBy(Rescheduled(queue, due), due)
<1> DEFINE n == Len(queue)
           h == queue[1]
           r == Removed(queue, h)
<1>1. /\ n \in Nat \ {0}
      /\ \A k \in 1..n : queue[k] \in S /\ due[queue[k]] \in Nat
  BY LenProperties, EmptySeq
<1>2. CASE n > 1 /\ due[queue[2]] < due[h]
  <2>1. h \in Elements(queue) /\ h \in S
    BY <1>1 DEF Elements
  <2>2. /\ r \in Seq(S)
        /\ Distinct(r)
        /\ Elements(r) = Elements(queue) \ {h}
        /\ Len(r) = n - 1
        /\ \A k \in 1..n - 1 : r[k] = queue[k + 1]
    BY <2>1, RemovedProperties
  <2> HIDE DEF r
  <2>3. IsSortedBy(r, due)
    <3> SUFFICES ASSUME NEW i \in 1..n - 1, NEW j \in 1..n - 1, i < j
                 PROVE  due[r[i]] <= due[r[j]]
      BY <2>2 DEF IsSortedBy
    <3>1. i + 1 \in 2..n /\ j + 1 \in 2..n /\ i + 1 < j + 1
      BY <1>1
    <3> QED
      BY <2>2, <3>1
  <2>4. Rescheduled(queue, due) = Added(r, due, h)
    BY <1>2 DEF Rescheduled, r
  <2>5. h \notin Elements(r)
    BY <2>2
  <2>6. Elements(r) \cup {h} = Elements(queue)
    BY <2>1, <2>2
  <2> HIDE DEF h
  <2>7. /\ Added(r, due, h) \in Seq(S)
        /\ Distinct(Added(r, due, h))
        /\ Elements(Added(r, due, h)) = Elements(r) \cup {h}
        /\ IsSortedBy(Added(r, due, h), due)
    BY <2>1, <2>2, <2>3, <2>5, AddedProperties
  <2> QED
    BY <2>4, <2>6, <2>7
<1>3. CASE ~(n > 1 /\ due[queue[2]] < due[h])
  <2>1. Rescheduled(queue, due) = queue
    BY <1>3 DEF Rescheduled
  <2>2. IsSortedBy(queue, due)
    <3> SUFFICES ASSUME NEW i \in 1..n, NEW j \in 1..n, i < j
                 PROVE  due[queue[i]] <= due[queue[j]]
      BY DEF IsSortedBy
    <3>1. CASE i = 1
      <4>1. 2 \in 2..n /\ j \in 2..n /\ n > 1
        BY <1>1, <3>1
      <4>2. due[h] <= due[queue[2]]
        BY <1>1, <1>3, <4>1
      <4>3. due[queue[2]] <= due[queue[j]]
        BY <1>1, <4>1
      <4>4. due[h] \in Nat /\ due[queue[2]] \in Nat /\ due[queue[j]] \in Nat
        BY <1>1, <4>1
      <4> QED
        BY <3>1, <4>2, <4>3, <4>4
    <3>2. CASE i # 1
      <4>1. i \in 2..n /\ j \in 2..n
        BY <1>1, <3>2
      <4> QED
        BY <4>1
    <3> QED
      BY <3>1, <3>2
  <2> QED
    BY <2>1, <2>2
<1> QED
  BY <1>2, <1>3

-----------------------------------------------------------------------------
(* The inductive invariant *)

(* The list holds the timers between their Add and their Remove. *)
ListHoldsRegistered == Listed = Registered

InsideLock == {"ctorAdd", "ctorStart", "ctorNotify",
               "dtorRemove", "dtorCheck", "dtorJoin"}

(* mut_startstop belongs to the one call that is past its lock. *)
OwnerIsInside ==
  \A t \in Timers : mut_startstop = t <=> call[t] \in InsideLock

(* A callback runs for the head of the list, under mut_list. *)
FiringIsHead ==
  IF thread = "callback" THEN timeouts # <<>> /\ firing = timeouts[1]
                         ELSE firing = Nobody

(* When the thread exists, has returned, and is joined. *)
ThreadLifetime ==
  /\ \A t \in Timers :
       call[t] \in {"ctorNotify", "live", "dtor", "dtorRemove", "dtorCheck",
                    "dtorJoin"} => thread # "off"
  /\ \A t \in Timers : call[t] = "dtorJoin" => timeouts = <<>> /\ thread # "waiting"
  /\ thread = "done" => timeouts = <<>>
  /\ thread # "off" /\ timeouts = <<>> =>
       \E t \in Timers : call[t] \in {"dtorCheck", "dtorJoin"}

(* Who wakes a thread that sleeps too long. *)
WakeupPending ==
  thread = "waiting" =>
    \/ timeouts # <<>> /\ sleepUntil <= nextTimeout[timeouts[1]]
    \/ timeouts = <<>> /\ \E t \in Timers : call[t] = "dtorCheck"
    \/ timeouts # <<>> /\ call[timeouts[1]] \in {"ctorStart", "ctorNotify"}

Inv ==
  /\ TypeOK
  /\ ListHoldsRegistered
  /\ OwnerIsInside
  /\ FiringIsHead
  /\ ListSorted
  /\ ThreadLifetime
  /\ WakeupPending

-----------------------------------------------------------------------------

LEMMA InvInit == Init => Inv
<1> SUFFICES ASSUME Init PROVE Inv
  OBVIOUS
<1>1. TypeOK
  BY TimersAssumption DEF Init, TypeOK, CallStates, ThreadStates
<1>2. ListHoldsRegistered
  BY DEF Init, ListHoldsRegistered, Listed, Registered
<1>3. OwnerIsInside
  BY TimersAssumption DEF Init, OwnerIsInside, InsideLock
<1>4. FiringIsHead /\ ListSorted /\ ThreadLifetime /\ WakeupPending
  BY DEF Init, FiringIsHead, ListSorted, IsSortedBy, ThreadLifetime, WakeupPending
<1> QED
  BY <1>1, <1>2, <1>3, <1>4 DEF Inv

(* What the invariant says of the list, in the words of these lemmas. *)
LEMMA ListFacts ==
  ASSUME Inv
  PROVE  /\ timeouts \in Seq(Timers)
         /\ Len(timeouts) \in Nat
         /\ \A i \in 1..Len(timeouts) : timeouts[i] \in Timers
         /\ Distinct(timeouts)
         /\ Elements(timeouts) = Registered
         /\ IsSortedBy(timeouts, nextTimeout)
         /\ timeouts = <<>> <=> Registered = {}
         /\ timeouts # <<>> => 1 \in 1..Len(timeouts) /\ timeouts[1] \in Registered
<1>1. timeouts \in Seq(Timers)
  BY DEF Inv, TypeOK
<1>2. /\ Len(timeouts) \in Nat
      /\ \A i \in 1..Len(timeouts) : timeouts[i] \in Timers
      /\ timeouts # <<>> => Len(timeouts) \in Nat \ {0}
      /\ timeouts = <<>> => Len(timeouts) = 0
  BY <1>1, LenProperties, EmptySeq
<1>3. Elements(timeouts) = Registered
  BY DEF Inv, ListHoldsRegistered, Listed, Elements
<1>4. Distinct(timeouts) /\ IsSortedBy(timeouts, nextTimeout)
  BY DEF Inv, TypeOK, Distinct, ListSorted
<1>5. timeouts # <<>> => 1 \in 1..Len(timeouts) /\ timeouts[1] \in Elements(timeouts)
  BY <1>2 DEF Elements
<1>6. timeouts = <<>> => Elements(timeouts) = {}
  BY <1>2 DEF Elements
<1> QED
  BY <1>1, <1>2, <1>3, <1>4, <1>5, <1>6

LEMMA InvStep == Inv /\ [Next]_vars => Inv'
<1> SUFFICES ASSUME Inv, [Next]_vars PROVE Inv'
  OBVIOUS
<1>1. ASSUME NEW t \in Timers, NEW d \in Durations, CtorBegin(t, d) PROVE Inv'
  <2>1. TypeOK'
    BY <1>1, TimersAssumption DEF Inv, CtorBegin, Goto, TypeOK, CallStates, ThreadStates
  <2>2. ListHoldsRegistered'
    BY <1>1, TimersAssumption DEF Inv, CtorBegin, Goto, ListHoldsRegistered, Listed,
       Registered, TypeOK
  <2>3. OwnerIsInside'
    BY <1>1, TimersAssumption DEF Inv, CtorBegin, Goto, OwnerIsInside, InsideLock,
       TypeOK
  <2>4. FiringIsHead'
    BY <1>1, TimersAssumption DEF Inv, CtorBegin, Goto, FiringIsHead, TypeOK
  <2>5. ListSorted'
    <3>1. \A i \in 1..Len(timeouts) : timeouts[i] # t
      <4>1. t \notin Elements(timeouts)
        BY <1>1, ListFacts DEF CtorBegin, Goto, Registered
      <4> QED
        BY <4>1 DEF Elements
    <3>2. \A i \in 1..Len(timeouts) :
            nextTimeout'[timeouts[i]] = nextTimeout[timeouts[i]]
      BY <1>1, <3>1, ListFacts DEF Inv, TypeOK, CtorBegin
    <3> QED
      BY <1>1, <3>2 DEF Inv, ListSorted, IsSortedBy, CtorBegin
  <2>6. ThreadLifetime'
    BY <1>1, TimersAssumption DEF Inv, CtorBegin, Goto, ThreadLifetime, TypeOK,
       OwnerIsInside, InsideLock
  <2>7. WakeupPending'
    <3>1. timeouts # <<>> => timeouts[1] \in Timers /\ timeouts[1] # t
      BY <1>1, ListFacts DEF CtorBegin, Goto, Registered
    <3> QED
      BY <1>1, <3>1 DEF Inv, TypeOK, WakeupPending, CtorBegin, Goto
  <2> QED
    BY <2>1, <2>2, <2>3, <2>4, <2>5, <2>6, <2>7 DEF Inv
<1>2. ASSUME NEW t \in Timers, CtorLock(t) PROVE Inv'
  <2>1. TypeOK'
    BY <1>2, TimersAssumption DEF Inv, CtorLock, Goto, TypeOK, CallStates, ThreadStates
  <2>2. ListHoldsRegistered'
    BY <1>2, TimersAssumption DEF Inv, CtorLock, Goto, ListHoldsRegistered, Listed,
       Registered, TypeOK, CallStates
  <2>3. OwnerIsInside'
    BY <1>2, TimersAssumption DEF Inv, CtorLock, Goto, OwnerIsInside, InsideLock,
       TypeOK, CallStates
  <2>4. FiringIsHead'
    BY <1>2, TimersAssumption DEF Inv, CtorLock, Goto, FiringIsHead, TypeOK
  <2>5. ListSorted'
    BY <1>2, TimersAssumption DEF Inv, CtorLock, Goto, ListSorted, IsSortedBy, TypeOK
  <2>6. ThreadLifetime'
    BY <1>2, TimersAssumption DEF Inv, CtorLock, Goto, ThreadLifetime, TypeOK,
       CallStates, OwnerIsInside, InsideLock, ThreadStates
  <2>7. WakeupPending'
    BY <1>2, TimersAssumption DEF Inv, CtorLock, Goto, WakeupPending, TypeOK,
       CallStates, OwnerIsInside, InsideLock, ThreadLifetime, ThreadStates
  <2> QED
    BY <2>1, <2>2, <2>3, <2>4, <2>5, <2>6, <2>7 DEF Inv
<1>3. ASSUME NEW t \in Timers, CtorAdd(t) PROVE Inv'
  <2> DEFINE new == Added(timeouts, nextTimeout, t)
  <2>0. /\ call[t] = "ctorAdd"
        /\ call' = [call EXCEPT ![t] = "ctorStart"]
        /\ timeouts' = new
        /\ mut_startstop = t
        /\ thread # "callback"
        /\ t \notin Registered
        /\ UNCHANGED <<now, nextTimeout, duration, mut_startstop, thread, sleepUntil, firing>>
    BY <1>3 DEF CtorAdd, Goto, ListUnlocked, Registered, Inv, OwnerIsInside, InsideLock
  <2>8. /\ new \in Seq(Timers)
        /\ Distinct(new)
        /\ Elements(new) = Registered \cup {t}
        /\ IsSortedBy(new, nextTimeout)
        /\ new[1] = t \/ (timeouts # <<>> /\ new[1] = timeouts[1])
    <3>1. /\ t \notin Elements(timeouts)
          /\ nextTimeout \in [Timers -> Nat]
      BY <2>0, ListFacts DEF Inv, TypeOK
    <3> QED
      BY <3>1, ListFacts, AddedProperties
  <2> HIDE DEF new
  <2>9. new # <<>>
    <3>1. Elements(<<>>) = {}
      BY DEF Elements
    <3> QED
      BY <2>8, <3>1
  <2>1. TypeOK'
    BY <2>0, <2>8 DEF Inv, TypeOK, CallStates, Distinct
  <2>2. ListHoldsRegistered'
    <3>1. Registered' = Registered \cup {t}
      BY <2>0 DEF Inv, TypeOK, Registered
    <3> QED
      BY <2>0, <2>8, <3>1 DEF ListHoldsRegistered, Listed, Elements
  <2>3. OwnerIsInside'
    BY <1>3, TimersAssumption DEF Inv, CtorAdd, Goto, ListUnlocked, OwnerIsInside,
       InsideLock, TypeOK
  <2>4. FiringIsHead'
    BY <1>3, TimersAssumption DEF Inv, CtorAdd, Goto, ListUnlocked, FiringIsHead, TypeOK
  <2>5. ListSorted'
    BY <2>0, <2>8 DEF ListSorted
  <2>6. ThreadLifetime'
    <3>1. \A u \in Timers : call[u] \in {"dtorCheck", "dtorJoin"} => u = t
      BY <2>0 DEF Inv, OwnerIsInside, InsideLock
    <3>2. ~\E u \in Timers : call[u] \in {"dtorCheck", "dtorJoin"}
      BY <2>0, <3>1
    <3>3. thread # "done"
      BY <3>2 DEF Inv, ThreadLifetime
    <3> QED
      BY <2>0, <2>9, <3>2, <3>3 DEF Inv, TypeOK, ThreadLifetime
  <2>7. WakeupPending'
    <3>1. \A u \in Timers :
            call[u] \in {"dtorCheck", "ctorStart", "ctorNotify"} => u = t
      BY <2>0 DEF Inv, OwnerIsInside, InsideLock
    <3>2. ~\E u \in Timers : call[u] \in {"dtorCheck", "ctorStart", "ctorNotify"}
      BY <2>0, <3>1
    <3>3. thread = "waiting" =>
            timeouts # <<>> /\ sleepUntil <= nextTimeout[timeouts[1]]
      BY <3>2, ListFacts DEF Inv, WakeupPending, Registered
    <3>4. CASE new[1] = t
      <4>1. call'[t] = "ctorStart"
        BY <1>3, <2>0 DEF Inv, TypeOK
      <4> QED
        BY <2>0, <2>9, <3>4, <4>1 DEF WakeupPending
    <3>5. CASE timeouts # <<>> /\ new[1] = timeouts[1]
      BY <2>0, <2>9, <3>3, <3>5 DEF WakeupPending
    <3> QED
      BY <2>8, <3>4, <3>5
  <2> QED
    BY <2>1, <2>2, <2>3, <2>4, <2>5, <2>6, <2>7 DEF Inv
<1>4. ASSUME NEW t \in Timers, CtorStart(t) PROVE Inv'
  <2>1. TypeOK'
    BY <1>4, TimersAssumption DEF Inv, CtorStart, Goto, Unlock, TypeOK, CallStates,
       ThreadStates
  <2>2. ListHoldsRegistered'
    <3>1. Registered' = Registered
      BY <1>4 DEF Inv, TypeOK, Registered, CtorStart, Goto
    <3>2. Listed' = Listed
      BY <1>4 DEF Listed, CtorStart
    <3> QED
      BY <3>1, <3>2 DEF Inv, ListHoldsRegistered
  <2>3. OwnerIsInside'
    BY <1>4, TimersAssumption DEF Inv, CtorStart, Goto, Unlock, OwnerIsInside,
       InsideLock, TypeOK
  <2>4. FiringIsHead'
    BY <1>4, TimersAssumption DEF Inv, CtorStart, Goto, Unlock, FiringIsHead, TypeOK
  <2>5. ListSorted'
    BY <1>4, TimersAssumption DEF Inv, CtorStart, Goto, Unlock, ListSorted,
       IsSortedBy, TypeOK
  <2>6. ThreadLifetime'
    <3>1. call[t] = "ctorStart" /\ t \in Registered
      BY <1>4 DEF CtorStart, Goto, Registered
    <3>2. timeouts # <<>>
      BY <3>1, ListFacts
    <3> QED
      BY <1>4, <3>1, <3>2 DEF Inv, TypeOK, ThreadLifetime, CtorStart, Goto
  <2>7. WakeupPending'
    BY <1>4, TimersAssumption DEF Inv, CtorStart, Goto, Unlock, WakeupPending,
       TypeOK, OwnerIsInside, InsideLock, ThreadLifetime
  <2> QED
    BY <2>1, <2>2, <2>3, <2>4, <2>5, <2>6, <2>7 DEF Inv
<1>5. ASSUME NEW t \in Timers, CtorNotify(t) PROVE Inv'
  <2>1. TypeOK'
    BY <1>5, TimersAssumption DEF Inv, CtorNotify, Goto, Unlock, Notify, TypeOK,
       CallStates, ThreadStates
  <2>2. ListHoldsRegistered'
    BY <1>5, TimersAssumption DEF Inv, CtorNotify, Goto, Unlock, Notify,
       ListHoldsRegistered, Listed, Registered, TypeOK, CallStates
  <2>3. OwnerIsInside'
    BY <1>5, TimersAssumption DEF Inv, CtorNotify, Goto, Unlock, Notify,
       OwnerIsInside, InsideLock, TypeOK, CallStates
  <2>4. FiringIsHead'
    BY <1>5, TimersAssumption DEF Inv, CtorNotify, Goto, Unlock, Notify,
       FiringIsHead, TypeOK
  <2>5. ListSorted'
    BY <1>5, TimersAssumption DEF Inv, CtorNotify, Goto, Unlock, Notify, ListSorted,
       IsSortedBy, TypeOK
  <2>6. ThreadLifetime'
    BY <1>5, TimersAssumption DEF Inv, CtorNotify, Goto, Unlock, Notify,
       ThreadLifetime, TypeOK, CallStates, OwnerIsInside, InsideLock, ThreadStates
  <2>7. WakeupPending'
    BY <1>5, TimersAssumption DEF Inv, CtorNotify, Goto, Unlock, Notify,
       WakeupPending, TypeOK, CallStates, OwnerIsInside, InsideLock, ThreadLifetime,
       ThreadStates
  <2> QED
    BY <2>1, <2>2, <2>3, <2>4, <2>5, <2>6, <2>7 DEF Inv
<1>6. ASSUME NEW t \in Timers, DtorBegin(t) PROVE Inv'
  <2>1. TypeOK'
    BY <1>6, TimersAssumption DEF Inv, DtorBegin, Goto, TypeOK, CallStates, ThreadStates
  <2>2. ListHoldsRegistered'
    BY <1>6, TimersAssumption DEF Inv, DtorBegin, Goto, ListHoldsRegistered, Listed,
       Registered, TypeOK, CallStates
  <2>3. OwnerIsInside'
    BY <1>6, TimersAssumption DEF Inv, DtorBegin, Goto, OwnerIsInside, InsideLock,
       TypeOK, CallStates
  <2>4. FiringIsHead'
    BY <1>6, TimersAssumption DEF Inv, DtorBegin, Goto, FiringIsHead, TypeOK
  <2>5. ListSorted'
    BY <1>6, TimersAssumption DEF Inv, DtorBegin, Goto, ListSorted, IsSortedBy, TypeOK
  <2>6. ThreadLifetime'
    BY <1>6, TimersAssumption DEF Inv, DtorBegin, Goto, ThreadLifetime, TypeOK,
       CallStates, OwnerIsInside, InsideLock, ThreadStates
  <2>7. WakeupPending'
    BY <1>6, TimersAssumption DEF Inv, DtorBegin, Goto, WakeupPending, TypeOK,
       CallStates, OwnerIsInside, InsideLock, ThreadLifetime, ThreadStates
  <2> QED
    BY <2>1, <2>2, <2>3, <2>4, <2>5, <2>6, <2>7 DEF Inv
<1>7. ASSUME NEW t \in Timers, DtorLock(t) PROVE Inv'
  <2>1. TypeOK'
    BY <1>7, TimersAssumption DEF Inv, DtorLock, Goto, TypeOK, CallStates, ThreadStates
  <2>2. ListHoldsRegistered'
    BY <1>7, TimersAssumption DEF Inv, DtorLock, Goto, ListHoldsRegistered, Listed,
       Registered, TypeOK, CallStates
  <2>3. OwnerIsInside'
    BY <1>7, TimersAssumption DEF Inv, DtorLock, Goto, OwnerIsInside, InsideLock,
       TypeOK, CallStates
  <2>4. FiringIsHead'
    BY <1>7, TimersAssumption DEF Inv, DtorLock, Goto, FiringIsHead, TypeOK
  <2>5. ListSorted'
    BY <1>7, TimersAssumption DEF Inv, DtorLock, Goto, ListSorted, IsSortedBy, TypeOK
  <2>6. ThreadLifetime'
    BY <1>7, TimersAssumption DEF Inv, DtorLock, Goto, ThreadLifetime, TypeOK,
       CallStates, OwnerIsInside, InsideLock, ThreadStates
  <2>7. WakeupPending'
    BY <1>7, TimersAssumption DEF Inv, DtorLock, Goto, WakeupPending, TypeOK,
       CallStates, OwnerIsInside, InsideLock, ThreadLifetime, ThreadStates
  <2> QED
    BY <2>1, <2>2, <2>3, <2>4, <2>5, <2>6, <2>7 DEF Inv
<1>8. ASSUME NEW t \in Timers, DtorRemove(t) PROVE Inv'
  <2> DEFINE new == Removed(timeouts, t)
  <2>0. /\ call[t] = "dtorRemove"
        /\ call' = [call EXCEPT ![t] = "dtorCheck"]
        /\ timeouts' = new
        /\ mut_startstop = t
        /\ thread # "callback"
        /\ t \in Registered
        /\ UNCHANGED <<now, nextTimeout, duration, mut_startstop, thread, sleepUntil, firing>>
    BY <1>8 DEF DtorRemove, Goto, ListUnlocked, Registered, Inv, OwnerIsInside,
       InsideLock
  <2>8. /\ new \in Seq(Timers)
        /\ Distinct(new)
        /\ Elements(new) = Registered \ {t}
        /\ IsSortedBy(new, nextTimeout)
    BY <2>0, ListFacts, RemovedProperties
  <2> HIDE DEF new
  <2>9. new # <<>> => 1 \in 1..Len(new) /\ new[1] \in Elements(new)
    BY <2>8, EmptySeq DEF Elements
  <2>1. TypeOK'
    BY <2>0, <2>8 DEF Inv, TypeOK, CallStates, Distinct
  <2>2. ListHoldsRegistered'
    <3>1. Registered' = Registered \ {t}
      BY <2>0 DEF Inv, TypeOK, Registered
    <3> QED
      BY <2>0, <2>8, <3>1 DEF ListHoldsRegistered, Listed, Elements
  <2>3. OwnerIsInside'
    BY <1>8, TimersAssumption DEF Inv, DtorRemove, Goto, ListUnlocked,
       OwnerIsInside, InsideLock, TypeOK, CallStates
  <2>4. FiringIsHead'
    BY <1>8, TimersAssumption DEF Inv, DtorRemove, Goto, ListUnlocked, FiringIsHead,
       TypeOK
  <2>5. ListSorted'
    BY <2>0, <2>8 DEF ListSorted
  <2>6. ThreadLifetime'
    BY <1>8, TimersAssumption DEF Inv, DtorRemove, Goto, ListUnlocked,
       ThreadLifetime, TypeOK, CallStates, OwnerIsInside, InsideLock, ThreadStates
  <2>7. WakeupPending'
    <3>1. \A u \in Timers : call[u] \in {"dtorCheck", "ctorStart", "ctorNotify"} => u = t
      BY <2>0 DEF Inv, OwnerIsInside, InsideLock
    <3>2. ~\E u \in Timers : call[u] \in {"dtorCheck", "ctorStart", "ctorNotify"}
      BY <2>0, <3>1
    <3>3. thread = "waiting" =>
            timeouts # <<>> /\ sleepUntil <= nextTimeout[timeouts[1]]
      BY <3>2, ListFacts DEF Inv, WakeupPending
    <3>4. CASE new = <<>>
      <4>1. call'[t] = "dtorCheck"
        BY <1>8, <2>0 DEF Inv, TypeOK
      <4> QED
        BY <1>8, <2>0, <3>4, <4>1 DEF WakeupPending
    <3>5. CASE new # <<>> /\ thread = "waiting"
      <4>1. PICK i \in 1..Len(timeouts) : timeouts[i] = new[1]
        BY <2>8, <2>9, <3>5, ListFacts DEF Elements
      <4>2. nextTimeout[timeouts[1]] <= nextTimeout[timeouts[i]]
        <5>1. 1 \in 1..Len(timeouts) /\ timeouts[1] \in Timers /\ timeouts[i] \in Timers
          BY <3>3, <3>5, ListFacts
        <5>2. nextTimeout[timeouts[1]] \in Nat
          BY <5>1 DEF Inv, TypeOK
        <5>3. i = 1 \/ 1 < i
          BY ListFacts
        <5> QED
          BY <5>1, <5>2, <5>3, ListFacts DEF IsSortedBy
      <4>3. /\ sleepUntil \in Nat
            /\ nextTimeout[timeouts[1]] \in Nat
            /\ nextTimeout[timeouts[i]] \in Nat
        BY <3>3, <3>5, ListFacts DEF Inv, TypeOK
      <4>4. sleepUntil <= nextTimeout[new[1]]
        BY <3>3, <3>5, <4>1, <4>2, <4>3
      <4> QED
        BY <2>0, <3>5, <4>4 DEF WakeupPending
    <3> QED
      BY <2>0, <3>4, <3>5 DEF WakeupPending
  <2> QED
    BY <2>1, <2>2, <2>3, <2>4, <2>5, <2>6, <2>7 DEF Inv
<1>9. ASSUME NEW t \in Timers, DtorCheck(t) PROVE Inv'
  <2>1. TypeOK'
    BY <1>9, TimersAssumption DEF Inv, DtorCheck, Goto, Unlock, Notify, TypeOK,
       CallStates, ThreadStates
  <2>2. ListHoldsRegistered'
    <3>1. Registered' = Registered
      BY <1>9 DEF Inv, TypeOK, Registered, DtorCheck, Goto
    <3>2. Listed' = Listed
      BY <1>9 DEF Listed, DtorCheck
    <3> QED
      BY <3>1, <3>2 DEF Inv, ListHoldsRegistered
  <2>3. OwnerIsInside'
    BY <1>9, TimersAssumption DEF Inv, DtorCheck, Goto, Unlock, Notify,
       OwnerIsInside, InsideLock, TypeOK, CallStates
  <2>4. FiringIsHead'
    BY <1>9, TimersAssumption DEF Inv, DtorCheck, Goto, Unlock, Notify,
       FiringIsHead, TypeOK
  <2>5. ListSorted'
    BY <1>9, TimersAssumption DEF Inv, DtorCheck, Goto, Unlock, Notify, ListSorted,
       IsSortedBy, TypeOK
  <2>6. ThreadLifetime'
    BY <1>9, TimersAssumption DEF Inv, DtorCheck, Goto, Unlock, Notify,
       ThreadLifetime, TypeOK, CallStates, OwnerIsInside, InsideLock, ThreadStates
  <2>7. WakeupPending'
    BY <1>9, TimersAssumption DEF Inv, DtorCheck, Goto, Unlock, Notify,
       WakeupPending, TypeOK, CallStates, OwnerIsInside, InsideLock, ThreadLifetime,
       ThreadStates
  <2> QED
    BY <2>1, <2>2, <2>3, <2>4, <2>5, <2>6, <2>7 DEF Inv
<1>10. ASSUME NEW t \in Timers, DtorJoin(t) PROVE Inv'
  <2>1. TypeOK'
    BY <1>10, TimersAssumption DEF Inv, DtorJoin, Goto, Unlock, TypeOK, CallStates,
       ThreadStates
  <2>2. ListHoldsRegistered'
    BY <1>10, TimersAssumption DEF Inv, DtorJoin, Goto, Unlock, ListHoldsRegistered,
       Listed, Registered, TypeOK, CallStates
  <2>3. OwnerIsInside'
    BY <1>10, TimersAssumption DEF Inv, DtorJoin, Goto, Unlock, OwnerIsInside,
       InsideLock, TypeOK, CallStates
  <2>4. FiringIsHead'
    BY <1>10, TimersAssumption DEF Inv, DtorJoin, Goto, Unlock, FiringIsHead, TypeOK
  <2>5. ListSorted'
    BY <1>10, TimersAssumption DEF Inv, DtorJoin, Goto, Unlock, ListSorted,
       IsSortedBy, TypeOK
  <2>6. ThreadLifetime'
    <3>1. call[t] = "dtorJoin" /\ timeouts = <<>>
      BY <1>10 DEF Inv, ThreadLifetime, DtorJoin, Goto
    <3>2. Registered = {}
      BY <3>1, ListFacts
    <3>3. \A u \in Timers : u # t => call[u] \notin InsideLock
      BY <3>1 DEF Inv, OwnerIsInside, InsideLock
    <3>4. \A u \in Timers :
            call'[u] \notin {"ctorNotify", "live", "dtor", "dtorRemove",
                             "dtorCheck", "dtorJoin"}
      BY <1>10, <3>2, <3>3 DEF Inv, TypeOK, Registered, InsideLock, DtorJoin, Goto
    <3> QED
      BY <1>10, <3>1, <3>4 DEF ThreadLifetime, DtorJoin
  <2>7. WakeupPending'
    BY <1>10, TimersAssumption DEF Inv, DtorJoin, Goto, Unlock, WakeupPending,
       TypeOK, CallStates, OwnerIsInside, InsideLock, ThreadLifetime, ThreadStates
  <2> QED
    BY <2>1, <2>2, <2>3, <2>4, <2>5, <2>6, <2>7 DEF Inv
<1>11. CASE ThreadLoop
  <2>1. TypeOK'
    BY <1>11, TimersAssumption DEF Inv, ThreadLoop, TypeOK, CallStates, ThreadStates
  <2>2. ListHoldsRegistered'
    BY <1>11, TimersAssumption DEF Inv, ThreadLoop, ListHoldsRegistered, Listed,
       Registered, TypeOK, CallStates
  <2>3. OwnerIsInside'
    BY <1>11, TimersAssumption DEF Inv, ThreadLoop, OwnerIsInside, InsideLock,
       TypeOK, CallStates
  <2>4. FiringIsHead'
    BY <1>11, TimersAssumption DEF Inv, ThreadLoop, FiringIsHead, TypeOK
  <2>5. ListSorted'
    BY <1>11, TimersAssumption DEF Inv, ThreadLoop, ListSorted, IsSortedBy, TypeOK
  <2>6. ThreadLifetime'
    BY <1>11, TimersAssumption DEF Inv, ThreadLoop, ThreadLifetime, TypeOK,
       CallStates, OwnerIsInside, InsideLock, ThreadStates
  <2>7. WakeupPending'
    BY <1>11, TimersAssumption DEF Inv, ThreadLoop, WakeupPending, TypeOK,
       CallStates, OwnerIsInside, InsideLock, ThreadLifetime, ThreadStates
  <2> QED
    BY <2>1, <2>2, <2>3, <2>4, <2>5, <2>6, <2>7 DEF Inv
<1>12. CASE ThreadTimeout
  <2>1. TypeOK'
    BY <1>12, TimersAssumption DEF Inv, ThreadTimeout, TypeOK, CallStates, ThreadStates
  <2>2. ListHoldsRegistered'
    BY <1>12, TimersAssumption DEF Inv, ThreadTimeout, ListHoldsRegistered, Listed,
       Registered, TypeOK, CallStates
  <2>3. OwnerIsInside'
    BY <1>12, TimersAssumption DEF Inv, ThreadTimeout, OwnerIsInside, InsideLock,
       TypeOK, CallStates
  <2>4. FiringIsHead'
    BY <1>12, TimersAssumption DEF Inv, ThreadTimeout, FiringIsHead, TypeOK
  <2>5. ListSorted'
    BY <1>12, TimersAssumption DEF Inv, ThreadTimeout, ListSorted, IsSortedBy, TypeOK
  <2>6. ThreadLifetime'
    BY <1>12, TimersAssumption DEF Inv, ThreadTimeout, ThreadLifetime, TypeOK,
       CallStates, OwnerIsInside, InsideLock, ThreadStates
  <2>7. WakeupPending'
    BY <1>12, TimersAssumption DEF Inv, ThreadTimeout, WakeupPending, TypeOK,
       CallStates, OwnerIsInside, InsideLock, ThreadLifetime, ThreadStates
  <2> QED
    BY <2>1, <2>2, <2>3, <2>4, <2>5, <2>6, <2>7 DEF Inv
<1>13. CASE ThreadSpuriousWake
  <2>1. TypeOK'
    BY <1>13, TimersAssumption DEF Inv, ThreadSpuriousWake, TypeOK, CallStates,
       ThreadStates
  <2>2. ListHoldsRegistered'
    BY <1>13, TimersAssumption DEF Inv, ThreadSpuriousWake, ListHoldsRegistered,
       Listed, Registered, TypeOK, CallStates
  <2>3. OwnerIsInside'
    BY <1>13, TimersAssumption DEF Inv, ThreadSpuriousWake, OwnerIsInside,
       InsideLock, TypeOK, CallStates
  <2>4. FiringIsHead'
    BY <1>13, TimersAssumption DEF Inv, ThreadSpuriousWake, FiringIsHead, TypeOK
  <2>5. ListSorted'
    BY <1>13, TimersAssumption DEF Inv, ThreadSpuriousWake, ListSorted, IsSortedBy,
       TypeOK
  <2>6. ThreadLifetime'
    BY <1>13, TimersAssumption DEF Inv, ThreadSpuriousWake, ThreadLifetime, TypeOK,
       CallStates, OwnerIsInside, InsideLock, ThreadStates
  <2>7. WakeupPending'
    BY <1>13, TimersAssumption DEF Inv, ThreadSpuriousWake, WakeupPending, TypeOK,
       CallStates, OwnerIsInside, InsideLock, ThreadLifetime, ThreadStates
  <2> QED
    BY <2>1, <2>2, <2>3, <2>4, <2>5, <2>6, <2>7 DEF Inv
<1>14. CASE ThreadWake
  <2>0. UNCHANGED timeouts
    <3>1. \/ UNCHANGED timeouts
          \/ timeouts' = Rescheduled(timeouts, nextTimeout)
      BY <1>14 DEF ThreadWake
    <3>2. Len(timeouts) > 1 => ~(nextTimeout[timeouts[2]] < nextTimeout[timeouts[1]])
      <4> SUFFICES ASSUME Len(timeouts) > 1
                   PROVE  ~(nextTimeout[timeouts[2]] < nextTimeout[timeouts[1]])
        OBVIOUS
      <4>1. 1 \in 1..Len(timeouts) /\ 2 \in 1..Len(timeouts)
        BY ListFacts
      <4>2. nextTimeout[timeouts[1]] \in Nat /\ nextTimeout[timeouts[2]] \in Nat
        BY <4>1, ListFacts DEF Inv, TypeOK
      <4>3. nextTimeout[timeouts[1]] <= nextTimeout[timeouts[2]]
        BY <4>1, ListFacts DEF IsSortedBy
      <4> QED
        BY <4>2, <4>3
    <3> QED
      BY <3>1, <3>2 DEF Rescheduled
  <2>8. timeouts # <<>> => timeouts[1] \in Timers
    BY ListFacts
  <2>1. TypeOK'
    BY <1>14, <2>0, <2>8 DEF Inv, TypeOK, ThreadStates, ThreadWake
  <2>2. ListHoldsRegistered'
    BY <1>14, <2>0 DEF Inv, ListHoldsRegistered, Listed, Registered, ThreadWake
  <2>3. OwnerIsInside'
    BY <1>14, TimersAssumption DEF Inv, ThreadWake, OwnerIsInside, InsideLock,
       TypeOK, CallStates
  <2>4. FiringIsHead'
    BY <1>14, TimersAssumption DEF Inv, ThreadWake, FiringIsHead, TypeOK
  <2>5. ListSorted'
    BY <1>14, <2>0 DEF Inv, ListSorted, IsSortedBy, ThreadWake
  <2>6. ThreadLifetime'
    BY <1>14, <2>0 DEF Inv, ThreadLifetime, ThreadWake
  <2>7. WakeupPending'
    BY <1>14, TimersAssumption DEF Inv, ThreadWake, WakeupPending, TypeOK,
       CallStates, OwnerIsInside, InsideLock, ThreadLifetime, ThreadStates
  <2> QED
    BY <2>1, <2>2, <2>3, <2>4, <2>5, <2>6, <2>7 DEF Inv
<1>15. CASE ThreadCallbackEnd
  <2> DEFINE h == timeouts[1]
             due == [nextTimeout EXCEPT ![h] = @ + duration[h]]
             new == Rescheduled(timeouts, due)
  <2>0. /\ thread = "callback"
        /\ thread' = "lock"
        /\ firing' = Nobody
        /\ nextTimeout' = due
        /\ timeouts' = new
        /\ timeouts # <<>>
        /\ h \in Registered
        /\ UNCHANGED <<now, duration, call, mut_startstop, sleepUntil>>
    BY <1>15, ListFacts DEF ThreadCallbackEnd, Inv, FiringIsHead
  <2>8. due \in [Timers -> Nat]
    <3>1. h \in Timers /\ duration[h] \in Nat /\ nextTimeout[h] \in Nat
      <4>1. h \in Timers
        BY <2>0 DEF Registered
      <4>2. duration[h] \in Durations \cup {0} /\ nextTimeout[h] \in Nat
        BY <4>1 DEF Inv, TypeOK
      <4>3. Durations \cup {0} \subseteq Nat
        BY TimersAssumption
      <4> HIDE DEF h
      <4> QED
        BY <4>1, <4>2, <4>3
    <3> QED
      BY <3>1 DEF Inv, TypeOK
  <2>9. \A i, j \in 2..Len(timeouts) : i < j => due[timeouts[i]] <= due[timeouts[j]]
    <3>1. \A i \in 2..Len(timeouts) :
            i \in 1..Len(timeouts) /\ timeouts[i] \in Timers /\ timeouts[i] # h
      BY <2>0, ListFacts DEF Distinct
    <3>2. \A i \in 2..Len(timeouts) : due[timeouts[i]] = nextTimeout[timeouts[i]]
      BY <3>1 DEF Inv, TypeOK
    <3> HIDE DEF due
    <3> QED
      BY <3>1, <3>2, ListFacts DEF IsSortedBy
  <2> HIDE DEF due
  <2>10. /\ new \in Seq(Timers)
        /\ Distinct(new)
        /\ Elements(new) = Registered
        /\ IsSortedBy(new, due)
    BY <2>0, <2>8, <2>9, ListFacts, RescheduledProperties
  <2> HIDE DEF new
  <2>11. new # <<>>
    <3>1. Elements(<<>>) = {}
      BY DEF Elements
    <3> QED
      BY <2>0, <2>10, <3>1
  <2>1. TypeOK'
    BY <2>0, <2>8, <2>10 DEF Inv, TypeOK, ThreadStates, Distinct
  <2>2. ListHoldsRegistered'
    <3>1. Registered' = Registered
      BY <2>0 DEF Registered
    <3> QED
      BY <2>0, <2>10, <3>1 DEF ListHoldsRegistered, Listed, Elements
  <2>3. OwnerIsInside'
    BY <1>15, TimersAssumption DEF Inv, ThreadCallbackEnd, OwnerIsInside,
       InsideLock, TypeOK, CallStates
  <2>4. FiringIsHead'
    BY <1>15, TimersAssumption DEF Inv, ThreadCallbackEnd, FiringIsHead, TypeOK
  <2>5. ListSorted'
    BY <2>0, <2>10 DEF ListSorted
  <2>6. ThreadLifetime'
    BY <2>0, <2>11 DEF Inv, ThreadLifetime
  <2>7. WakeupPending'
    BY <1>15, TimersAssumption DEF Inv, ThreadCallbackEnd, WakeupPending, TypeOK,
       CallStates, OwnerIsInside, InsideLock, ThreadLifetime, ThreadStates
  <2> QED
    BY <2>1, <2>2, <2>3, <2>4, <2>5, <2>6, <2>7 DEF Inv
<1>16. CASE Tick
  <2>1. TypeOK'
    BY <1>16, TimersAssumption DEF Inv, Tick, TypeOK, CallStates, ThreadStates
  <2>2. ListHoldsRegistered'
    BY <1>16, TimersAssumption DEF Inv, Tick, ListHoldsRegistered, Listed,
       Registered, TypeOK, CallStates
  <2>3. OwnerIsInside'
    BY <1>16, TimersAssumption DEF Inv, Tick, OwnerIsInside, InsideLock, TypeOK,
       CallStates
  <2>4. FiringIsHead'
    BY <1>16, TimersAssumption DEF Inv, Tick, FiringIsHead, TypeOK
  <2>5. ListSorted'
    BY <1>16, TimersAssumption DEF Inv, Tick, ListSorted, IsSortedBy, TypeOK
  <2>6. ThreadLifetime'
    BY <1>16, TimersAssumption DEF Inv, Tick, ThreadLifetime, TypeOK, CallStates,
       OwnerIsInside, InsideLock, ThreadStates
  <2>7. WakeupPending'
    BY <1>16, TimersAssumption DEF Inv, Tick, WakeupPending, TypeOK, CallStates,
       OwnerIsInside, InsideLock, ThreadLifetime, ThreadStates
  <2> QED
    BY <2>1, <2>2, <2>3, <2>4, <2>5, <2>6, <2>7 DEF Inv
<1>17. CASE UNCHANGED vars
  <2>1. TypeOK'
    BY <1>17, TimersAssumption DEF Inv, vars, TypeOK, CallStates, ThreadStates
  <2>2. ListHoldsRegistered'
    BY <1>17, TimersAssumption DEF Inv, vars, ListHoldsRegistered, Listed,
       Registered, TypeOK, CallStates
  <2>3. OwnerIsInside'
    BY <1>17, TimersAssumption DEF Inv, vars, OwnerIsInside, InsideLock, TypeOK,
       CallStates
  <2>4. FiringIsHead'
    BY <1>17, TimersAssumption DEF Inv, vars, FiringIsHead, TypeOK
  <2>5. ListSorted'
    BY <1>17, TimersAssumption DEF Inv, vars, ListSorted, IsSortedBy, TypeOK
  <2>6. ThreadLifetime'
    BY <1>17, TimersAssumption DEF Inv, vars, ThreadLifetime, TypeOK, CallStates,
       OwnerIsInside, InsideLock, ThreadStates
  <2>7. WakeupPending'
    BY <1>17, TimersAssumption DEF Inv, vars, WakeupPending, TypeOK, CallStates,
       OwnerIsInside, InsideLock, ThreadLifetime, ThreadStates
  <2> QED
    BY <2>1, <2>2, <2>3, <2>4, <2>5, <2>6, <2>7 DEF Inv
<1> QED
  BY <1>1, <1>2, <1>3, <1>4, <1>5, <1>6, <1>7, <1>8, <1>9, <1>10, <1>11, <1>12,
     <1>13, <1>14, <1>15, <1>16, <1>17 DEF Next, CallBegin, CallStep, ThreadStep

(***************************************************************************)
(* Constructors, destructors and the thread keep the inductive invariant:  *)
(* who holds which mutex where, which timers are on the list, and who has  *)
(* still to notify a thread that sleeps too long.                          *)
(***************************************************************************)
THEOREM InvariantHolds == Spec => []Inv
<1> QED
  BY InvInit, InvStep, PTL DEF Spec

-----------------------------------------------------------------------------
(* The theorems *)

(* Type correctness: in particular no timer is ever on the list twice. *)
THEOREM TypeCorrect == Spec => []TypeOK
<1>1. Inv => TypeOK
  BY DEF Inv
<1> QED
  BY <1>1, InvariantHolds, PTL

(***************************************************************************)
(* ~Timer is a barrier for the callback, however many timers and clients   *)
(* there are: the callback that runs belongs to the head of the list, and  *)
(* the list holds only timers whose destructor has not got mut_list yet.   *)
(***************************************************************************)
THEOREM DestructorIsABarrier == Spec => []CallbackOnlyWhileRegistered
<1>1. Inv => CallbackOnlyWhileRegistered
  BY ListFacts DEF CallbackOnlyWhileRegistered, Inv, FiringIsHead
<1> QED
  BY <1>1, InvariantHolds, PTL

(* Add, Remove and the move of a fired timer keep the list sorted. *)
THEOREM ListStaysSorted == Spec => []ListSorted
<1>1. Inv => ListSorted
  BY DEF Inv
<1> QED
  BY <1>1, InvariantHolds, PTL

(***************************************************************************)
(* No wake-up is lost although the constructor and the destructor look at  *)
(* timeouts without mut_list: mut_startstop keeps every other constructor  *)
(* and destructor out, and the thread alone never moves a deadline nearer. *)
(***************************************************************************)
THEOREM NoWakeupIsLost == Spec => []NoLostWakeup
<1>1. Inv => NoLostWakeup
  <2> SUFFICES ASSUME Inv, thread = "waiting" PROVE NoLostWakeup
    BY DEF NoLostWakeup
  <2>1. \A t \in Timers :
          call[t] \in {"ctorStart", "ctorNotify", "dtorCheck"} => mut_startstop = t
    BY DEF Inv, OwnerIsInside, InsideLock
  <2>2. timeouts # <<>> => timeouts[1] \in Timers
    BY ListFacts
  <2> QED
    BY <2>1, <2>2 DEF NoLostWakeup, Inv, WakeupPending
<1> QED
  BY <1>1, InvariantHolds, PTL

(* The thread exists exactly while a timer does. *)
THEOREM ThreadLivesWithTimers == Spec => []ThreadIffTimers
<1>1. Inv => ThreadIffTimers
  <2> SUFFICES ASSUME Inv, mut_startstop = Nobody
               PROVE  (thread = "off" <=> timeouts = <<>>) /\ thread # "done"
    BY DEF ThreadIffTimers
  <2>1. \A t \in Timers : call[t] \notin InsideLock
    BY TimersAssumption DEF Inv, OwnerIsInside
  <2>2. thread # "off" => timeouts # <<>>
    BY <2>1 DEF Inv, ThreadLifetime, InsideLock
  <2>3. thread = "off" => Registered = {}
    BY <2>1 DEF Inv, ThreadLifetime, InsideLock, Registered
  <2>4. thread # "done"
    BY <2>2 DEF Inv, ThreadLifetime
  <2> QED
    BY <2>2, <2>3, <2>4, ListFacts
<1> QED
  BY <1>1, InvariantHolds, PTL

-----------------------------------------------------------------------------
(* The promise of TimerService *)

(***************************************************************************)
(* What the service says of deadlines: the constructor sets one it may     *)
(* set, and a callback that runs is due.                                   *)
(***************************************************************************)
DeadlinesFit ==
  /\ \A t \in Timers :
       call[t] \in {"ctor", "ctorAdd"} =>
         nextTimeout[t] \in {n + d : n \in 0..MaxTime, d \in Durations}
  /\ \A t \in Timers : call[t] # "none" => duration[t] \in Durations
  /\ thread = "callback" => nextTimeout[timeouts[1]] <= now

LEMMA DeadlinesStep == Inv /\ DeadlinesFit /\ [Next]_vars => DeadlinesFit'
<1> SUFFICES ASSUME Inv, DeadlinesFit, [Next]_vars PROVE DeadlinesFit'
  OBVIOUS
<1> USE DEF DeadlinesFit
<1>1. ASSUME NEW t \in Timers, NEW d \in Durations, CtorBegin(t, d)
      PROVE  DeadlinesFit'
  <2>1. /\ now \in 0..MaxTime /\ nextTimeout \in [Timers -> Nat]
        /\ duration \in [Timers -> Durations \cup {0}] /\ call \in [Timers -> CallStates]
    BY DEF Inv, TypeOK
  <2>2. /\ \A u \in Timers : nextTimeout'[u] = IF u = t THEN now + d ELSE nextTimeout[u]
        /\ \A u \in Timers : duration'[u] = IF u = t THEN d ELSE duration[u]
        /\ \A u \in Timers : call'[u] = IF u = t THEN "ctor" ELSE call[u]
    BY <1>1, <2>1 DEF CtorBegin, Goto
  <2>3. thread = "callback" => timeouts[1] \in Timers /\ timeouts[1] # t
    BY <1>1, ListFacts DEF Inv, FiringIsHead, CtorBegin, Goto, Registered
  <2>4. thread' = thread /\ timeouts' = timeouts /\ now' = now
    BY <1>1 DEF CtorBegin
  <2> QED
    BY <2>1, <2>2, <2>3, <2>4
<1>2. ASSUME NEW t \in Timers, CtorLock(t) PROVE DeadlinesFit'
  BY <1>2 DEF CtorLock, Goto, Inv, TypeOK
<1>3. ASSUME NEW t \in Timers, CtorAdd(t) PROVE DeadlinesFit'
  BY <1>3 DEF CtorAdd, Goto, Inv, TypeOK, ListUnlocked
<1>4. ASSUME NEW t \in Timers, CtorStart(t) PROVE DeadlinesFit'
  BY <1>4 DEF CtorStart, Goto, Inv, TypeOK
<1>5. ASSUME NEW t \in Timers, CtorNotify(t) PROVE DeadlinesFit'
  BY <1>5 DEF CtorNotify, Notify, Goto, Inv, TypeOK
<1>6. ASSUME NEW t \in Timers, DtorBegin(t) PROVE DeadlinesFit'
  BY <1>6 DEF DtorBegin, Goto, Inv, TypeOK
<1>7. ASSUME NEW t \in Timers, DtorLock(t) PROVE DeadlinesFit'
  BY <1>7 DEF DtorLock, Goto, Inv, TypeOK
<1>8. ASSUME NEW t \in Timers, DtorRemove(t) PROVE DeadlinesFit'
  BY <1>8 DEF DtorRemove, Goto, Inv, TypeOK, ListUnlocked
<1>9. ASSUME NEW t \in Timers, DtorCheck(t) PROVE DeadlinesFit'
  <2>1. thread' = "callback" => thread = "callback"
    BY <1>9 DEF DtorCheck, Notify
  <2>2. \A u \in Timers : call'[u] \in {call[u], "dtorJoin", "none"}
    BY <1>9 DEF DtorCheck, Goto, Inv, TypeOK
  <2>3. UNCHANGED <<now, timeouts, nextTimeout, duration>>
    BY <1>9 DEF DtorCheck
  <2>4. \A u \in Timers : call'[u] # "none" => call[u] # "none"
    BY <1>9, <2>2 DEF DtorCheck, Goto, Inv, TypeOK
  <2> QED
    BY <2>1, <2>2, <2>3, <2>4
<1>10. ASSUME NEW t \in Timers, DtorJoin(t) PROVE DeadlinesFit'
  BY <1>10 DEF DtorJoin, Goto, Inv, TypeOK
<1>11. CASE ThreadLoop
  BY <1>11 DEF ThreadLoop
<1>12. CASE ThreadTimeout \/ ThreadSpuriousWake
  BY <1>12 DEF ThreadTimeout, ThreadSpuriousWake
<1>13. CASE ThreadWake
  BY <1>13 DEF ThreadWake
<1>14. CASE ThreadCallbackEnd
  <2>1. timeouts[1] \in Registered
    BY <1>14, ListFacts DEF ThreadCallbackEnd, Inv, FiringIsHead
  <2>2. \A t \in Timers : t \notin Registered => nextTimeout'[t] = nextTimeout[t]
    BY <1>14, <2>1 DEF ThreadCallbackEnd, Inv, TypeOK
  <2>3. \A t \in Timers : call[t] \in {"ctor", "ctorAdd"} => t \notin Registered
    BY DEF Registered
  <2> QED
    BY <1>14, <2>2, <2>3 DEF ThreadCallbackEnd
<1>15. CASE Tick
  <2>1. thread = "callback" => nextTimeout[timeouts[1]] \in Nat
    BY ListFacts DEF Inv, TypeOK, FiringIsHead
  <2>2. now \in 0..MaxTime /\ MaxTime \in Nat
    BY TimersAssumption DEF Inv, TypeOK
  <2>3. thread = "callback" => nextTimeout[timeouts[1]] <= now + 1
    BY <2>1, <2>2
  <2> QED
    BY <1>15, <2>3 DEF Tick
<1>16. CASE UNCHANGED vars
  BY <1>16 DEF vars
<1> QED
  BY <1>1, <1>2, <1>3, <1>4, <1>5, <1>6, <1>7, <1>8, <1>9, <1>10, <1>11,
     <1>12, <1>13, <1>14, <1>15, <1>16
     DEF Next, CallBegin, CallStep, ThreadStep

LEMMA DeadlinesHold == Spec => []DeadlinesFit
<1>1. Init => DeadlinesFit
  BY DEF Init, DeadlinesFit
<1> QED
  BY <1>1, DeadlinesStep, InvariantHolds, PTL DEF Spec

(* Steps that the service does not see. *)
LEMMA ServiceStutters ==
  ASSUME Registered' = Registered, UNCHANGED <<now, nextTimeout, firing>>
  PROVE  UNCHANGED Service!vars
  BY DEF Service!vars

LEMMA ServiceStep ==
  Inv /\ DeadlinesFit /\ [Next]_vars => [Service!Next]_(Service!vars)
<1> SUFFICES ASSUME Inv, DeadlinesFit, [Next]_vars
             PROVE  [Service!Next]_(Service!vars)
  OBVIOUS
<1> DEFINE due == [t \in Registered |-> nextTimeout[t]]
           Times == {n + d : n \in 0..MaxTime, d \in Durations}
<1>0. /\ call \in [Timers -> CallStates] /\ nextTimeout \in [Timers -> Nat]
      /\ now \in 0..MaxTime /\ MaxTime \in Nat
  BY TimersAssumption DEF Inv, TypeOK
<1>1. ASSUME NEW t \in Timers, NEW d \in Durations, CtorBegin(t, d)
      PROVE  UNCHANGED Service!vars
  <2>1. Registered' = Registered /\ t \notin Registered
    BY <1>0, <1>1 DEF CtorBegin, Goto, Registered
  <2>2. \A u \in Registered : nextTimeout'[u] = nextTimeout[u]
    BY <1>0, <1>1, <2>1 DEF CtorBegin, Registered
  <2> QED
    BY <1>1, <2>1, <2>2 DEF CtorBegin, Service!vars
<1>2. ASSUME NEW t \in Timers, CtorLock(t) PROVE UNCHANGED Service!vars
  BY <1>0, <1>2, ServiceStutters DEF CtorLock, Goto, Registered
<1>3. ASSUME NEW t \in Timers, CtorAdd(t) PROVE Service!Register(t)
  <2>1. Registered' = Registered \cup {t} /\ t \notin Registered
    BY <1>0, <1>3 DEF CtorAdd, Goto, Registered
  <2>2. nextTimeout[t] \in Times
    BY <1>3 DEF CtorAdd, Goto, DeadlinesFit
  <2>3. firing = Nobody
    BY <1>3 DEF CtorAdd, ListUnlocked, Inv, FiringIsHead
  <2>4. due' = [u \in DOMAIN due \cup {t} |-> IF u = t THEN nextTimeout[t] ELSE due[u]]
    BY <1>3, <2>1 DEF CtorAdd
  <2> QED
    BY <1>3, <2>1, <2>2, <2>3, <2>4 DEF CtorAdd, Service!Register
<1>4. ASSUME NEW t \in Timers, CtorStart(t) PROVE UNCHANGED Service!vars
  BY <1>0, <1>4, ServiceStutters DEF CtorStart, Goto, Registered
<1>5. ASSUME NEW t \in Timers, CtorNotify(t) PROVE UNCHANGED Service!vars
  BY <1>0, <1>5, ServiceStutters DEF CtorNotify, Goto, Registered
<1>6. ASSUME NEW t \in Timers, DtorBegin(t) PROVE UNCHANGED Service!vars
  BY <1>0, <1>6, ServiceStutters DEF DtorBegin, Goto, Registered
<1>7. ASSUME NEW t \in Timers, DtorLock(t) PROVE UNCHANGED Service!vars
  BY <1>0, <1>7, ServiceStutters DEF DtorLock, Goto, Registered
<1>8. ASSUME NEW t \in Timers, DtorRemove(t) PROVE Service!Unregister(t)
  <2>1. Registered' = Registered \ {t} /\ t \in Registered
    BY <1>0, <1>8 DEF DtorRemove, Goto, Registered
  <2>2. firing = Nobody
    BY <1>8 DEF DtorRemove, ListUnlocked, Inv, FiringIsHead
  <2>3. due' = Restrict(due, DOMAIN due \ {t})
    BY <1>8, <2>1 DEF DtorRemove, Restrict
  <2> QED
    BY <1>8, <2>1, <2>2, <2>3 DEF DtorRemove, Service!Unregister, Service!Restrict,
       Restrict
<1>9. ASSUME NEW t \in Timers, DtorCheck(t) PROVE UNCHANGED Service!vars
  BY <1>0, <1>9, ServiceStutters DEF DtorCheck, Goto, Registered
<1>10. ASSUME NEW t \in Timers, DtorJoin(t) PROVE UNCHANGED Service!vars
  BY <1>0, <1>10, ServiceStutters DEF DtorJoin, Goto, Registered
<1>11. CASE ThreadLoop \/ ThreadTimeout \/ ThreadSpuriousWake
  BY <1>11, ServiceStutters
     DEF ThreadLoop, ThreadTimeout, ThreadSpuriousWake, Registered
<1>12. CASE ThreadWake
  <2>1. CASE firing' = firing
    BY <1>12, <2>1, ServiceStutters DEF ThreadWake, Registered
  <2>2. CASE firing' # firing
    <3> DEFINE t == timeouts[1]
    <3>1. /\ timeouts # <<>> /\ nextTimeout[t] <= now /\ firing' = t
          /\ thread = "relock" /\ UNCHANGED <<now, nextTimeout, call>>
      BY <1>12, <2>2 DEF ThreadWake
    <3>2. /\ t \in Registered /\ t \in Timers
          /\ Len(timeouts) \in Nat /\ 1 \in 1..Len(timeouts)
          /\ \A u \in Registered : \E i \in 1..Len(timeouts) : timeouts[i] = u
      BY <3>1, ListFacts DEF Elements
    <3>3. \A i \in 1..Len(timeouts) : nextTimeout[t] <= nextTimeout[timeouts[i]]
      <4>1. \A i \in 1..Len(timeouts) : timeouts[i] \in Timers
        BY ListFacts
      <4>2. ASSUME NEW i \in 1..Len(timeouts)
            PROVE  nextTimeout[t] <= nextTimeout[timeouts[i]]
        <5>1. CASE i = 1
          BY <1>0, <3>2, <5>1
        <5>2. CASE i > 1
          BY <3>2, <5>2, ListFacts DEF IsSortedBy
        <5> QED
          BY <3>2, <5>1, <5>2
      <4> QED
        BY <4>2
    <3>4. \A u \in Registered : nextTimeout[t] <= nextTimeout[u]
      BY <3>2, <3>3
    <3>5. firing = Nobody
      BY <3>1 DEF Inv, FiringIsHead
    <3>6. Registered' = Registered
      BY <3>1 DEF Registered
    <3> HIDE DEF t
    <3>7. due' = due /\ DOMAIN due = Registered /\ \A u \in Registered : due[u] = nextTimeout[u]
      BY <3>1, <3>6
    <3>8. Service!Start(t)
      BY <3>1, <3>2, <3>4, <3>5, <3>7 DEF Service!Start
    <3> QED
      BY <3>2, <3>8 DEF Service!Next
  <2> QED
    BY <2>1, <2>2
<1>13. CASE ThreadCallbackEnd
  <2> DEFINE t == timeouts[1]
             d == nextTimeout[t] + duration[t]
  <2>1. /\ t \in Registered /\ t \in Timers /\ firing = t /\ firing' = Nobody
        /\ nextTimeout[t] <= now /\ UNCHANGED <<now, call>>
        /\ nextTimeout' = [nextTimeout EXCEPT ![t] = d]
    BY <1>13, ListFacts
       DEF ThreadCallbackEnd, Inv, FiringIsHead, Registered, DeadlinesFit
  <2>2. duration[t] \in Durations
    BY <2>1 DEF DeadlinesFit, Registered
  <2>3. nextTimeout[t] \in 0..MaxTime
    BY <1>0, <2>1
  <2>4. d \in Times
    BY <2>2, <2>3
  <2>5. d > nextTimeout[t]
    <3>1. duration[t] \in Nat \ {0}
      BY <2>2, TimersAssumption
    <3> QED
      BY <2>3, <3>1
  <2>6. Registered' = Registered
    BY <2>1 DEF Registered
  <2>7. firing # Nobody
    BY <2>1, TimersAssumption
  <2> HIDE DEF d
  <2>8. due' = [due EXCEPT ![t] = d] /\ due[t] = nextTimeout[t]
    BY <1>0, <2>1, <2>6 DEF Registered
  <2>9. Service!Finish
    BY <2>1, <2>4, <2>5, <2>7, <2>8 DEF Service!Finish
  <2> QED
    BY <2>9 DEF Service!Next
<1>14. CASE Tick
  <2>1. now' = now + 1 /\ UNCHANGED <<nextTimeout, firing>> /\ Registered' = Registered
    BY <1>14 DEF Tick, Registered
  <2>2. Service!Tick
    BY <2>1 DEF Service!Tick
  <2> QED
    BY <2>2 DEF Service!Next
<1>15. CASE UNCHANGED vars
  BY <1>15, ServiceStutters DEF vars, Registered
<1>16. \A t \in Timers : Service!Register(t) \/ Service!Unregister(t) => Service!Next
  BY DEF Service!Next
<1> QED
  BY <1>1, <1>2, <1>3, <1>4, <1>5, <1>6, <1>7, <1>8, <1>9, <1>10, <1>11,
     <1>12, <1>13, <1>14, <1>15, <1>16
     DEF Next, CallBegin, CallStep, ThreadStep

(***************************************************************************)
(* However the threads, the locks and the list work together, their users  *)
(* see a TimerService: nothing fires early, out of its turn, while another *)
(* callback runs or after it was taken out, and a deadline only ever moves *)
(* on.  (The safety part of ImplementsTimerService: that a callback comes  *)
(* at all needs fairness.)                                                 *)
(***************************************************************************)
THEOREM TimersAreServed == Spec => Service!Init /\ [][Service!Next]_(Service!vars)
<1>1. Init => Service!Init
  <2> SUFFICES ASSUME Init PROVE Service!Init
    OBVIOUS
  <2>1. Registered = {}
    BY DEF Init, Registered
  <2>2. [t \in Registered |-> nextTimeout[t]] = <<>>
    BY <2>1
  <2> QED
    BY <2>2 DEF Init, Service!Init
<1> QED
  BY <1>1, ServiceStep, InvariantHolds, DeadlinesHold, PTL DEF Spec

=============================================================================
