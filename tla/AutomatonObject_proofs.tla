-------------------------- MODULE AutomatonObject_proofs --------------------------
(***************************************************************************)
(* Theorems about AutomatonObject: whatever calls are made, the vectors    *)
(* keep their order, and the object is what AutomatonValue says it is.     *)
(***************************************************************************)
EXTENDS AutomatonObject, Automata_proofs, FiniteSetTheorems, SequenceTheorems, TLAPS

------------------------------------------------------------------------------
(* Ordered vectors.                                                         *)

IsVector(v) == v \in Seq(Nat) /\ is_sorted(v)

(* Neighbours in ascending order are enough.                                *)
LEMMA SortedAscends ==
  ASSUME NEW v \in Seq(Nat), is_sorted(v)
  PROVE  \A i, j \in 1 .. Len(v) : i < j => v[i] < v[j]
<1>1. Len(v) \in Nat /\ DOMAIN v = 1 .. Len(v) /\ \A n \in 1 .. Len(v) : v[n] \in Nat
  BY LenProperties
<1> SUFFICES ASSUME NEW i \in 1 .. Len(v) PROVE \A j \in 1 .. Len(v) : i < j => v[i] < v[j]
  OBVIOUS
<1> DEFINE T == {d \in Nat : i + d + 1 <= Len(v) => v[i] < v[i + d + 1]}
<1>2. 0 \in T
  BY <1>1 DEF is_sorted
<1>3. ASSUME NEW d \in Nat, d \in T PROVE d + 1 \in T
  <2> SUFFICES ASSUME i + (d + 1) + 1 <= Len(v) PROVE v[i] < v[i + (d + 1) + 1]
    OBVIOUS
  <2>1. /\ i + d + 1 \in 1 .. Len(v) - 1 /\ i + d + 1 \in 1 .. Len(v)
        /\ i + (d + 1) + 1 \in 1 .. Len(v) /\ i + (d + 1) + 1 = (i + d + 1) + 1
    BY <1>1
  <2>2. v[i] < v[i + d + 1] /\ v[i + d + 1] < v[(i + d + 1) + 1]
    BY <1>3, <2>1 DEF is_sorted
  <2>3. v[i] \in Nat /\ v[i + d + 1] \in Nat /\ v[(i + d + 1) + 1] \in Nat
    BY <1>1, <2>1
  <2>4. QED
    BY <2>1, <2>2, <2>3
<1>4. Nat \subseteq T
  <2> HIDE DEF T
  <2>1. QED
    BY <1>2, <1>3, SetInduction
<1>5. ASSUME NEW j \in 1 .. Len(v), i < j PROVE v[i] < v[j]
  <2>1. (j - i) - 1 \in Nat /\ i + ((j - i) - 1) + 1 = j
    BY <1>1, <1>5
  <2>2. (j - i) - 1 \in T
    BY <1>4, <2>1
  <2>3. QED
    BY <1>1, <2>1, <2>2
<1>6. QED
  BY <1>5

(* What lower_bound finds.                                                  *)
IsLowerBound(v, key, pos) ==
  /\ pos \in 1 .. Len(v) + 1
  /\ pos <= Len(v) => v[pos] >= key
  /\ \A k \in 1 .. pos - 1 : v[k] < key

LEMMA LowerBoundIsThere ==
  ASSUME NEW v \in Seq(Nat), NEW key \in Nat
  PROVE  IsLowerBound(v, key, lower_bound(v, key))
<1>1. Len(v) \in Nat /\ \A n \in 1 .. Len(v) : v[n] \in Nat
  BY LenProperties
<1> DEFINE T == {n \in 1 .. Len(v) + 1 : n = Len(v) + 1 \/ v[n] >= key}
           P(n) == /\ n = Len(v) + 1 \/ v[n] >= key
                   /\ \A k \in 1 .. n - 1 : v[k] < key
<1>2. T \in SUBSET Nat /\ T # {}
  <2>1. Len(v) + 1 \in T
    BY <1>1
  <2>2. QED
    BY <1>1, <2>1
<1>3. PICK n \in T : \A m \in T : n <= m
  <2> HIDE DEF T
  <2>1. QED
    BY <1>2, LeastElement
<1>4. \A k \in 1 .. n - 1 : v[k] < key
  <2> SUFFICES ASSUME NEW k \in 1 .. n - 1 PROVE v[k] < key
    OBVIOUS
  <2>1. n \in Nat /\ n <= Len(v) + 1
    BY <1>1, <1>3
  <2>2. k \in 1 .. Len(v) /\ k \in 1 .. Len(v) + 1 /\ ~(n <= k) /\ k # Len(v) + 1
    BY <1>1, <2>1
  <2>3. k \notin T
    BY <1>3, <2>2
  <2>4. QED
    BY <1>1, <2>2, <2>3
<1>5. n \in 1 .. Len(v) + 1 /\ P(n)
  BY <1>3, <1>4
<1>6. lower_bound(v, key) = CHOOSE k \in 1 .. Len(v) + 1 : P(k)
  BY DEF lower_bound
<1>7. lower_bound(v, key) \in 1 .. Len(v) + 1 /\ P(lower_bound(v, key))
  <2> HIDE DEF P
  <2>1. QED
    BY <1>5, <1>6
<1>8. QED
  BY <1>1, <1>7 DEF IsLowerBound

(* In an ordered vector the key is at that position or nowhere.             *)
LEMMA LowerBoundFinds ==
  ASSUME NEW v, IsVector(v), NEW key \in Nat, NEW pos, IsLowerBound(v, key, pos)
  PROVE  /\ IsAt(v, pos, key) <=> key \in ElementsOf(v)
         /\ ~ IsAt(v, pos, key) => \A k \in 1 .. Len(v) : k >= pos => v[k] > key
<1>1. /\ v \in Seq(Nat) /\ Len(v) \in Nat /\ DOMAIN v = 1 .. Len(v)
      /\ \A n \in 1 .. Len(v) : v[n] \in Nat
  BY LenProperties DEF IsVector
<1>2. pos \in Nat /\ pos >= 1 /\ pos <= Len(v) + 1
  BY <1>1 DEF IsLowerBound
<1>3. IsAt(v, pos, key) => key \in ElementsOf(v)
  BY <1>1, <1>2 DEF IsAt, ElementsOf
<1>4. ASSUME ~ IsAt(v, pos, key), NEW k \in 1 .. Len(v), k >= pos PROVE v[k] > key
  <2>1. pos \in 1 .. Len(v)
    BY <1>1, <1>2, <1>4
  <2>2. v[pos] > key
    BY <1>1, <1>4, <2>1 DEF IsAt, IsLowerBound
  <2>3. CASE k = pos
    BY <2>2, <2>3
  <2>4. CASE k > pos
    <3>1. v[pos] < v[k]
      BY <1>1, <2>1, <2>4, SortedAscends DEF IsVector
    <3>2. QED
      BY <1>1, <2>1, <2>2, <3>1
  <2>5. QED
    BY <1>2, <1>4, <2>3, <2>4
<1>5. ASSUME ~ IsAt(v, pos, key), key \in ElementsOf(v) PROVE FALSE
  <2>1. PICK k \in 1 .. Len(v) : v[k] = key
    BY <1>1, <1>5 DEF ElementsOf
  <2>2. CASE k >= pos
    BY <1>4, <1>5, <2>1, <2>2
  <2>3. CASE ~(k >= pos)
    <3>1. k \in 1 .. pos - 1
      BY <1>2, <2>3
    <3>2. v[k] < key
      BY <3>1 DEF IsLowerBound
    <3>3. QED
      BY <2>1, <3>2
  <2>4. QED
    BY <2>2, <2>3
<1>6. QED
  BY <1>3, <1>4, <1>5

(* One element more, at position n.                                         *)
LEMMA InsertedAtIs ==
  ASSUME NEW S, NEW v \in Seq(S), NEW n \in 1 .. Len(v) + 1, NEW x \in S
  PROVE  /\ InsertedAt(v, n, x) \in Seq(S)
         /\ Len(InsertedAt(v, n, x)) = Len(v) + 1
         /\ \A k \in 1 .. Len(v) + 1 :
              InsertedAt(v, n, x)[k] = IF k < n THEN v[k] ELSE IF k = n THEN x ELSE v[k - 1]
<1> DEFINE one == SubSeq(v, 1, n - 1)
           two == <<x>>
           three == SubSeq(v, n, Len(v))
<1>1. Len(v) \in Nat /\ n \in Nat /\ n >= 1 /\ n <= Len(v) + 1 /\ \A k \in 1 .. Len(v) : v[k] \in S
  BY LenProperties
<1>2. /\ one \in Seq(S) /\ Len(one) = n - 1 /\ \A k \in 1 .. n - 1 : one[k] = v[k]
  <2>1. \A k \in 1 .. n - 1 : v[k] \in S
    BY <1>1
  <2>2. /\ one \in Seq(S) /\ Len(one) = (IF 1 <= n - 1 THEN (n - 1) - 1 + 1 ELSE 0)
        /\ \A k \in 1 .. (n - 1) - 1 + 1 : one[k] = v[1 + k - 1]
    BY <1>1, <2>1, SubSeqProperties
  <2> HIDE DEF one
  <2>3. QED
    BY <1>1, <2>2
<1>3. /\ three \in Seq(S) /\ Len(three) = Len(v) - n + 1
      /\ \A k \in 1 .. Len(v) - n + 1 : three[k] = v[n + k - 1]
  <2>1. \A k \in n .. Len(v) : v[k] \in S
    BY <1>1
  <2>2. /\ three \in Seq(S) /\ Len(three) = (IF n <= Len(v) THEN Len(v) - n + 1 ELSE 0)
        /\ \A k \in 1 .. Len(v) - n + 1 : three[k] = v[n + k - 1]
    BY <1>1, <2>1, SubSeqProperties
  <2> HIDE DEF three
  <2>3. QED
    BY <1>1, <2>2
<1>4. two \in Seq(S) /\ Len(two) = 1 /\ two[1] = x
  OBVIOUS
<1>5. InsertedAt(v, n, x) = one \o two \o three
  BY DEF InsertedAt
<1> HIDE DEF one, two, three
<1> DEFINE front == one \o two
<1>6. /\ front \in Seq(S) /\ Len(front) = Len(one) + Len(two)
      /\ \A k \in 1 .. Len(one) + Len(two) : front[k] = IF k <= Len(one) THEN one[k] ELSE two[k - Len(one)]
  BY <1>2, <1>4, ConcatProperties
<1> HIDE DEF front
<1>7. Len(front) = n /\ \A k \in 1 .. n - 1 : front[k] = v[k]
  BY <1>1, <1>2, <1>4, <1>6
<1>8. front[n] = x
  <2>1. n \in 1 .. Len(one) + Len(two) /\ ~(n <= Len(one)) /\ n - Len(one) = 1
    BY <1>1, <1>2, <1>4
  <2>2. QED
    BY <1>4, <1>6, <2>1
<1> DEFINE whole == front \o three
<1>9. /\ whole \in Seq(S) /\ Len(whole) = Len(front) + Len(three)
      /\ \A k \in 1 .. Len(front) + Len(three) :
           whole[k] = IF k <= Len(front) THEN front[k] ELSE three[k - Len(front)]
  <2>1. front \in Seq(S) /\ three \in Seq(S)
    BY <1>3, <1>6
  <2>2. QED
    BY <2>1, ConcatProperties
<1>10. InsertedAt(v, n, x) = whole
  BY <1>5 DEF whole, front
<1> HIDE DEF whole
<1>11. Len(whole) = Len(v) + 1
  BY <1>1, <1>3, <1>7, <1>9
<1>12. ASSUME NEW k \in 1 .. Len(v) + 1
       PROVE  whole[k] = IF k < n THEN v[k] ELSE IF k = n THEN x ELSE v[k - 1]
  <2>1. whole[k] = IF k <= n THEN front[k] ELSE three[k - n]
    BY <1>9, <1>7, <1>11
  <2>2. CASE k < n
    BY <1>1, <1>7, <2>1, <2>2
  <2>3. CASE k = n
    BY <1>1, <1>8, <2>1, <2>3
  <2>4. CASE k > n
    <3>1. k - n \in 1 .. Len(v) - n + 1 /\ ~(k <= n) /\ n + (k - n) - 1 = k - 1 /\ ~(k < n) /\ k # n
      BY <1>1, <2>4
    <3>2. QED
      BY <1>3, <2>1, <3>1
  <2>5. QED
    BY <1>1, <2>2, <2>3, <2>4
<1>13. QED
  BY <1>9, <1>10, <1>11, <1>12

(* The element at position n less.                                          *)
LEMMA ErasedAtIs ==
  ASSUME NEW S, NEW v \in Seq(S), NEW n \in 1 .. Len(v)
  PROVE  /\ ErasedAt(v, n) \in Seq(S)
         /\ Len(ErasedAt(v, n)) = Len(v) - 1
         /\ \A k \in 1 .. Len(v) - 1 : ErasedAt(v, n)[k] = IF k < n THEN v[k] ELSE v[k + 1]
<1> DEFINE one == SubSeq(v, 1, n - 1)
           three == SubSeq(v, n + 1, Len(v))
<1>1. Len(v) \in Nat /\ n \in Nat /\ n >= 1 /\ n <= Len(v) /\ \A k \in 1 .. Len(v) : v[k] \in S
  BY LenProperties
<1>2. /\ one \in Seq(S) /\ Len(one) = n - 1 /\ \A k \in 1 .. n - 1 : one[k] = v[k]
  <2>1. \A k \in 1 .. n - 1 : v[k] \in S
    BY <1>1
  <2>2. /\ one \in Seq(S) /\ Len(one) = (IF 1 <= n - 1 THEN (n - 1) - 1 + 1 ELSE 0)
        /\ \A k \in 1 .. (n - 1) - 1 + 1 : one[k] = v[1 + k - 1]
    BY <1>1, <2>1, SubSeqProperties
  <2> HIDE DEF one
  <2>3. QED
    BY <1>1, <2>2
<1>3. /\ three \in Seq(S) /\ Len(three) = Len(v) - n /\ \A k \in 1 .. Len(v) - n : three[k] = v[n + k]
  <2>1. \A k \in n + 1 .. Len(v) : v[k] \in S
    BY <1>1
  <2>2. /\ three \in Seq(S) /\ Len(three) = (IF n + 1 <= Len(v) THEN Len(v) - (n + 1) + 1 ELSE 0)
        /\ \A k \in 1 .. Len(v) - (n + 1) + 1 : three[k] = v[(n + 1) + k - 1]
    BY <1>1, <2>1, SubSeqProperties
  <2> HIDE DEF three
  <2>3. QED
    BY <1>1, <2>2
<1>4. ErasedAt(v, n) = one \o three
  BY DEF ErasedAt
<1> HIDE DEF one, three
<1> DEFINE whole == one \o three
<1>5. /\ whole \in Seq(S) /\ Len(whole) = Len(one) + Len(three)
      /\ \A k \in 1 .. Len(one) + Len(three) :
           whole[k] = IF k <= Len(one) THEN one[k] ELSE three[k - Len(one)]
  BY <1>2, <1>3, ConcatProperties
<1>6. ErasedAt(v, n) = whole
  BY <1>4 DEF whole
<1> HIDE DEF whole
<1>7. Len(whole) = Len(v) - 1
  BY <1>1, <1>2, <1>3, <1>5
<1>8. ASSUME NEW k \in 1 .. Len(v) - 1
      PROVE  whole[k] = IF k < n THEN v[k] ELSE v[k + 1]
  <2>1. whole[k] = IF k <= n - 1 THEN one[k] ELSE three[k - (n - 1)]
    BY <1>2, <1>5, <1>7
  <2>2. CASE k < n
    BY <1>1, <1>2, <2>1, <2>2
  <2>3. CASE ~(k < n)
    <3>1. k - (n - 1) \in 1 .. Len(v) - n /\ ~(k <= n - 1) /\ n + (k - (n - 1)) = k + 1
      BY <1>1, <2>3
    <3>2. QED
      BY <1>3, <2>1, <2>3, <3>1
  <2>4. QED
    BY <2>2, <2>3
<1>9. QED
  BY <1>5, <1>6, <1>7, <1>8

(* The values of a vector one longer, or one shorter, than an ordered one.  *)
HasInserted(w, v, n, x) ==
  /\ w \in Seq(Nat) /\ Len(w) = Len(v) + 1
  /\ \A k \in 1 .. Len(v) + 1 : w[k] = IF k < n THEN v[k] ELSE IF k = n THEN x ELSE v[k - 1]
HasErased(w, v, n) ==
  /\ w \in Seq(Nat) /\ Len(w) = Len(v) - 1
  /\ \A k \in 1 .. Len(v) - 1 : w[k] = IF k < n THEN v[k] ELSE v[k + 1]

LEMMA InsertedIsVector ==
  ASSUME NEW v, IsVector(v), NEW x \in Nat, NEW n, IsLowerBound(v, x, n), ~ IsAt(v, n, x),
         NEW w, HasInserted(w, v, n, x)
  PROVE  IsVector(w) /\ ElementsOf(w) = ElementsOf(v) \cup {x}
<1>1. /\ v \in Seq(Nat) /\ Len(v) \in Nat /\ DOMAIN v = 1 .. Len(v)
      /\ \A k \in 1 .. Len(v) : v[k] \in Nat
  BY LenProperties DEF IsVector
<1>2. /\ w \in Seq(Nat) /\ Len(w) = Len(v) + 1 /\ DOMAIN w = 1 .. Len(w)
      /\ \A k \in 1 .. Len(v) + 1 : w[k] = IF k < n THEN v[k] ELSE IF k = n THEN x ELSE v[k - 1]
  BY LenProperties DEF HasInserted
<1>3. n \in Nat /\ n >= 1 /\ n <= Len(v) + 1 /\ \A k \in 1 .. n - 1 : v[k] < x
  BY <1>1 DEF IsLowerBound
<1>4. \A k \in 1 .. Len(v) : k >= n => v[k] > x
  BY LowerBoundFinds
<1>5. ASSUME NEW k \in 1 .. Len(w) - 1 PROVE w[k] < w[k + 1]
  <2>1. k \in 1 .. Len(v) + 1 /\ k + 1 \in 1 .. Len(v) + 1 /\ k \in 1 .. Len(v)
    BY <1>1, <1>2
  <2>2. CASE k + 1 < n
    <3>1. k \in 1 .. Len(v) - 1 /\ k < n
      BY <1>1, <1>3, <2>2
    <3>2. v[k] < v[k + 1]
      BY <3>1 DEF IsVector, is_sorted
    <3>3. QED
      BY <1>2, <2>1, <2>2, <3>1, <3>2
  <2>3. CASE k + 1 = n
    <3>1. k \in 1 .. n - 1 /\ k < n /\ ~(n < n)
      BY <1>3, <2>3
    <3>2. w[k] = v[k] /\ w[k + 1] = x
      BY <1>2, <2>1, <2>3, <3>1
    <3>3. QED
      BY <1>3, <3>1, <3>2
  <2>4. CASE k = n
    <3>1. ~(k < n) /\ ~(k + 1 < n) /\ k + 1 # n /\ (k + 1) - 1 = k /\ k >= n
      BY <1>3, <2>4
    <3>2. w[k] = x /\ w[k + 1] = v[k]
      BY <1>2, <2>1, <2>4, <3>1
    <3>3. v[k] > x /\ v[k] \in Nat
      BY <1>1, <1>4, <2>1, <3>1
    <3>4. QED
      BY <3>2, <3>3
  <2>5. CASE k > n
    <3>1. ~(k < n) /\ k # n /\ ~(k + 1 < n) /\ k + 1 # n /\ (k + 1) - 1 = k /\ k - 1 \in 1 .. Len(v) - 1 /\ (k - 1) + 1 = k
      BY <1>1, <1>3, <2>1, <2>5
    <3>2. v[k - 1] < v[(k - 1) + 1]
      BY <3>1 DEF IsVector, is_sorted
    <3>3. w[k] = v[k - 1] /\ w[k + 1] = v[k]
      BY <1>2, <2>1, <3>1
    <3>4. QED
      BY <3>1, <3>2, <3>3
  <2>6. QED
    BY <1>3, <2>1, <2>2, <2>3, <2>4, <2>5
<1>6. ASSUME NEW y \in ElementsOf(w) PROVE y \in ElementsOf(v) \cup {x}
  <2>1. PICK k \in 1 .. Len(v) + 1 : y = w[k]
    BY <1>2 DEF ElementsOf
  <2>2. CASE k < n
    <3>1. k \in 1 .. Len(v)
      BY <1>1, <1>3, <2>2
    <3>2. QED
      BY <1>1, <1>2, <2>1, <2>2, <3>1 DEF ElementsOf
  <2>3. CASE k = n
    BY <1>2, <1>3, <2>1, <2>3
  <2>4. CASE k > n
    <3>1. k - 1 \in 1 .. Len(v) /\ ~(k < n) /\ k # n
      BY <1>1, <1>3, <2>4
    <3>2. y = v[k - 1]
      BY <1>2, <2>1, <3>1
    <3>3. QED
      BY <1>1, <3>1, <3>2 DEF ElementsOf
  <2>5. QED
    BY <1>3, <2>2, <2>3, <2>4
<1>7. ASSUME NEW y \in ElementsOf(v) \cup {x} PROVE y \in ElementsOf(w)
  <2>1. CASE y = x
    <3>1. n \in 1 .. Len(v) + 1 /\ ~(n < n)
      BY <1>1, <1>3
    <3>2. w[n] = x
      BY <1>2, <3>1
    <3>3. QED
      BY <1>2, <2>1, <3>1, <3>2 DEF ElementsOf
  <2>2. CASE y \in ElementsOf(v)
    <3>1. PICK k \in 1 .. Len(v) : y = v[k]
      BY <1>1, <2>2 DEF ElementsOf
    <3>2. CASE k < n
      <4>1. k \in 1 .. Len(v) + 1
        BY <1>1
      <4>2. w[k] = y
        BY <1>2, <3>1, <3>2, <4>1
      <4>3. QED
        BY <1>2, <4>1, <4>2 DEF ElementsOf
    <3>3. CASE ~(k < n)
      <4>1. k + 1 \in 1 .. Len(v) + 1 /\ ~(k + 1 < n) /\ k + 1 # n /\ (k + 1) - 1 = k
        BY <1>1, <1>3, <3>3
      <4>2. w[k + 1] = y
        BY <1>2, <3>1, <4>1
      <4>3. QED
        BY <1>2, <4>1, <4>2 DEF ElementsOf
    <3>4. QED
      BY <3>2, <3>3
  <2>3. QED
    BY <2>1, <2>2
<1>8. QED
  BY <1>2, <1>5, <1>6, <1>7 DEF IsVector, is_sorted

LEMMA ErasedIsVector ==
  ASSUME NEW v, IsVector(v), NEW n \in 1 .. Len(v), NEW w, HasErased(w, v, n)
  PROVE  IsVector(w) /\ ElementsOf(w) = ElementsOf(v) \ {v[n]}
<1>1. /\ v \in Seq(Nat) /\ Len(v) \in Nat /\ DOMAIN v = 1 .. Len(v)
      /\ \A k \in 1 .. Len(v) : v[k] \in Nat
  BY LenProperties DEF IsVector
<1>2. /\ w \in Seq(Nat) /\ Len(w) = Len(v) - 1 /\ DOMAIN w = 1 .. Len(w)
      /\ \A k \in 1 .. Len(v) - 1 : w[k] = IF k < n THEN v[k] ELSE v[k + 1]
  BY LenProperties DEF HasErased
<1>3. \A i, j \in 1 .. Len(v) : i < j => v[i] < v[j]
  BY SortedAscends DEF IsVector
<1>4. n \in Nat /\ n >= 1 /\ n <= Len(v)
  BY <1>1
<1>5. ASSUME NEW k \in 1 .. Len(w) - 1 PROVE w[k] < w[k + 1]
  <2>1. k \in 1 .. Len(v) - 1 /\ k + 1 \in 1 .. Len(v) - 1 /\ k \in 1 .. Len(v) /\ k + 1 \in 1 .. Len(v)
        /\ (k + 1) + 1 \in 1 .. Len(v) /\ k < k + 1 /\ k < (k + 1) + 1 /\ k + 1 < (k + 1) + 1
    BY SMTT(30), <1>1, <1>2
  <2>2. v[k] < v[k + 1] /\ v[k] < v[(k + 1) + 1] /\ v[k + 1] < v[(k + 1) + 1]
    BY <1>3, <2>1
  <2>3. w[k] = (IF k < n THEN v[k] ELSE v[k + 1])
        /\ w[k + 1] = (IF k + 1 < n THEN v[k + 1] ELSE v[(k + 1) + 1])
    BY <1>2, <2>1
  <2>4. k + 1 < n => k < n
    BY <1>4, <2>1
  <2>5. QED
    BY <2>2, <2>3, <2>4
<1>6. ASSUME NEW y \in ElementsOf(w) PROVE y \in ElementsOf(v) \ {v[n]}
  <2>1. PICK k \in 1 .. Len(v) - 1 : y = w[k]
    BY <1>2 DEF ElementsOf
  <2>2. k \in 1 .. Len(v) /\ k + 1 \in 1 .. Len(v)
    BY <1>1
  <2>3. CASE k < n
    <3>1. y = v[k] /\ v[k] < v[n] /\ v[k] \in Nat
      BY <1>1, <1>2, <1>3, <2>1, <2>2, <2>3
    <3>2. v[k] # v[n]
      BY <3>1
    <3>3. QED
      BY <1>1, <2>2, <3>1, <3>2 DEF ElementsOf
  <2>4. CASE ~(k < n)
    <3>1. n < k + 1
      BY <1>4, <2>4
    <3>2. y = v[k + 1] /\ v[n] < v[k + 1] /\ v[k + 1] \in Nat /\ v[n] \in Nat
      BY <1>1, <1>2, <1>3, <2>1, <2>2, <2>4, <3>1
    <3>3. v[k + 1] # v[n]
      BY <3>2
    <3>4. QED
      BY <1>1, <2>2, <3>2, <3>3 DEF ElementsOf
  <2>5. QED
    BY <2>3, <2>4
<1>7. ASSUME NEW y \in ElementsOf(v) \ {v[n]} PROVE y \in ElementsOf(w)
  <2>1. PICK k \in 1 .. Len(v) : y = v[k] /\ k # n
    BY <1>1, <1>7 DEF ElementsOf
  <2>2. CASE k < n
    <3>1. k \in 1 .. Len(v) - 1
      BY <1>1, <1>4, <2>2
    <3>2. w[k] = y
      BY <1>2, <2>1, <2>2, <3>1
    <3>3. QED
      BY <1>2, <3>1, <3>2 DEF ElementsOf
  <2>3. CASE ~(k < n)
    <3>1. k - 1 \in 1 .. Len(v) - 1 /\ ~(k - 1 < n) /\ (k - 1) + 1 = k
      BY <1>1, <1>4, <2>1, <2>3
    <3>2. w[k - 1] = y
      BY <1>2, <2>1, <3>1
    <3>3. QED
      BY <1>2, <3>1, <3>2 DEF ElementsOf
  <2>4. QED
    BY <2>2, <2>3
<1>8. QED
  BY <1>2, <1>5, <1>6, <1>7 DEF IsVector, is_sorted

(* What insert, erase and contains of OrdVector do to the set they keep.    *)
LEMMA InsertIs ==
  ASSUME NEW v, IsVector(v), NEW x \in Nat
  PROVE  IsVector(insert(v, x)) /\ ElementsOf(insert(v, x)) = ElementsOf(v) \cup {x}
<1> DEFINE n == lower_bound(v, x)
<1>1. v \in Seq(Nat) /\ Len(v) \in Nat
  BY LenProperties DEF IsVector
<1>2. IsLowerBound(v, x, n)
  BY <1>1, LowerBoundIsThere
<1>3. insert(v, x) = IF IsAt(v, n, x) THEN v ELSE InsertedAt(v, n, x)
  BY DEF insert
<1> HIDE DEF n
<1>4. CASE IsAt(v, n, x)
  BY <1>2, <1>3, <1>4, LowerBoundFinds
<1>5. CASE ~ IsAt(v, n, x)
  <2>1. n \in 1 .. Len(v) + 1
    BY <1>2 DEF IsLowerBound
  <2>2. HasInserted(InsertedAt(v, n, x), v, n, x)
    BY <1>1, <2>1, InsertedAtIs DEF HasInserted
  <2>3. QED
    BY <1>2, <1>3, <1>5, <2>2, InsertedIsVector
<1>6. QED
  BY <1>4, <1>5

LEMMA EraseIs ==
  ASSUME NEW v, IsVector(v), NEW x \in Nat
  PROVE  IsVector(erase(v, x)) /\ ElementsOf(erase(v, x)) = ElementsOf(v) \ {x}
<1> DEFINE n == lower_bound(v, x)
<1>1. v \in Seq(Nat) /\ Len(v) \in Nat
  BY LenProperties DEF IsVector
<1>2. IsLowerBound(v, x, n)
  BY <1>1, LowerBoundIsThere
<1>3. erase(v, x) = IF IsAt(v, n, x) THEN ErasedAt(v, n) ELSE v
  BY DEF erase
<1> HIDE DEF n
<1>4. CASE ~ IsAt(v, n, x)
  BY <1>2, <1>3, <1>4, LowerBoundFinds
<1>5. CASE IsAt(v, n, x)
  <2>1. n \in 1 .. Len(v) /\ v[n] = x
    BY <1>1, <1>2, <1>5 DEF IsLowerBound, IsAt
  <2>2. HasErased(ErasedAt(v, n), v, n)
    BY <1>1, <2>1, ErasedAtIs DEF HasErased
  <2>3. QED
    BY <1>3, <1>5, <2>1, <2>2, ErasedIsVector
<1>6. QED
  BY <1>4, <1>5

LEMMA ContainsIs ==
  ASSUME NEW v, IsVector(v), NEW x \in Nat
  PROVE  contains(v, x) <=> x \in ElementsOf(v)
<1>1. v \in Seq(Nat)
  BY DEF IsVector
<1>2. QED
  BY <1>1, LowerBoundIsThere, LowerBoundFinds DEF contains

(* Elements of vectors, and of vectors that are empty.                      *)
LEMMA VectorElements ==
  ASSUME NEW v, IsVector(v)
  PROVE  /\ ElementsOf(v) \in SUBSET Nat
         /\ v = << >> <=> ElementsOf(v) = {}
<1>1. /\ v \in Seq(Nat) /\ Len(v) \in Nat /\ DOMAIN v = 1 .. Len(v)
      /\ \A k \in 1 .. Len(v) : v[k] \in Nat
  BY LenProperties DEF IsVector
<1>2. v = << >> <=> Len(v) = 0
  BY <1>1, EmptySeq
<1>3. Len(v) # 0 => 1 \in DOMAIN v
  BY <1>1
<1>4. Len(v) = 0 => DOMAIN v = {}
  BY <1>1
<1>5. QED
  BY <1>1, <1>2, <1>3, <1>4 DEF ElementsOf

LEMMA EmptyIsVector == IsVector(<< >>) /\ ElementsOf(<< >>) = {}
<1>1. << >> \in Seq(Nat) /\ Len(<< >>) = 0
  BY EmptySeq
<1>2. is_sorted(<< >>)
  BY <1>1 DEF is_sorted
<1>3. DOMAIN << >> = {}
  OBVIOUS
<1>4. QED
  BY <1>1, <1>2, <1>3 DEF IsVector, ElementsOf

(* SymbolPost::insert of a set.                                             *)
LEMMA InsertAllIs ==
  ASSUME NEW v, IsVector(v), NEW more \in Seq(Nat)
  PROVE  IsVector(InsertAll(v, more)) /\ ElementsOf(InsertAll(v, more)) = ElementsOf(v) \cup ElementsOf(more)
<1> DEFINE Vectors == {w \in Seq(Nat) : IsVector(w)}
           F == [n \in 1 .. Len(more) |-> [w \in Vectors |-> insert(w, more[n])]]
           EqOf(f) == f = [n \in 0 .. Len(more) |-> IF n = 0 THEN v ELSE insert(f[n - 1], more[n])]
           inserted == CHOOSE f : EqOf(f)
<1>1. Len(more) \in Nat /\ DOMAIN more = 1 .. Len(more) /\ \A n \in 1 .. Len(more) : more[n] \in Nat
  BY LenProperties
<1>2. \A w \in Vectors : \A x \in Nat : insert(w, x) \in Vectors
  BY InsertIs DEF IsVector
<1>3. v \in Vectors
  BY DEF IsVector
<1>4. IsStepwise(Vectors, Len(more), F)
  <2> HIDE DEF Vectors
  <2>1. QED
    BY <1>1, <1>2 DEF IsStepwise
<1>5. PICK f : IsRecursion(Vectors, Len(more), v, F, f)
  <2> HIDE DEF Vectors, F
  <2>1. QED
    BY <1>1, <1>3, <1>4, RecursionExists
<1>6. EqOf(f)
  <2>1. f \in [0 .. Len(more) -> Vectors] /\ f[0] = v /\ \A n \in 1 .. Len(more) : f[n] = F[n][f[n - 1]]
    BY <1>5 DEF IsRecursion
  <2> HIDE DEF Vectors
  <2>2. \A n \in 0 .. Len(more) : f[n] = IF n = 0 THEN v ELSE insert(f[n - 1], more[n])
    <3> SUFFICES ASSUME NEW n \in 0 .. Len(more), n # 0 PROVE f[n] = insert(f[n - 1], more[n])
      BY <2>1
    <3>1. n \in 1 .. Len(more) /\ n - 1 \in 0 .. Len(more)
      BY <1>1
    <3>2. QED
      BY <2>1, <3>1
  <2>3. QED
    BY <2>1, <2>2
<1>7. EqOf(inserted)
  <2> HIDE DEF EqOf
  <2>1. QED
    BY <1>6
<1>8. InsertAll(v, more) = inserted[Len(more)]
  BY DEF InsertAll
<1> HIDE DEF inserted
<1> DEFINE Given(n) == {more[k] : k \in 1 .. n}
           T == {n \in Nat : n <= Len(more) =>
                   IsVector(inserted[n]) /\ ElementsOf(inserted[n]) = ElementsOf(v) \cup Given(n)}
<1>9. 0 \in T
  <2>1. inserted[0] = v /\ Given(0) = {}
    BY <1>1, <1>7
  <2> HIDE DEF Given
  <2>2. QED
    BY <2>1
<1>10. ASSUME NEW n \in Nat, n \in T PROVE n + 1 \in T
  <2> SUFFICES ASSUME n + 1 <= Len(more)
               PROVE  /\ IsVector(inserted[n + 1])
                      /\ ElementsOf(inserted[n + 1]) = ElementsOf(v) \cup Given(n + 1)
    OBVIOUS
  <2>1. n + 1 \in 0 .. Len(more) /\ n + 1 # 0 /\ (n + 1) - 1 = n /\ n + 1 \in 1 .. Len(more)
    BY <1>1
  <2>2. inserted[n + 1] = insert(inserted[n], more[n + 1])
    BY <1>7, <2>1
  <2>3. Given(n + 1) = Given(n) \cup {more[n + 1]}
    <3>1. \A k : k \in 1 .. n + 1 <=> k \in 1 .. n \/ k = n + 1
      OBVIOUS
    <3>2. QED
      BY <3>1
  <2> HIDE DEF Given, EqOf
  <2>4. IsVector(inserted[n]) /\ ElementsOf(inserted[n]) = ElementsOf(v) \cup Given(n)
    BY <1>1, <1>10
  <2>5. more[n + 1] \in Nat
    BY <1>1, <2>1
  <2>6. /\ IsVector(insert(inserted[n], more[n + 1]))
        /\ ElementsOf(insert(inserted[n], more[n + 1])) = ElementsOf(inserted[n]) \cup {more[n + 1]}
    BY <2>4, <2>5, InsertIs
  <2>7. QED
    BY <2>2, <2>3, <2>4, <2>6
<1>11. Nat \subseteq T
  <2> HIDE DEF T
  <2>1. QED
    BY <1>9, <1>10, SetInduction
<1>12. Given(Len(more)) = ElementsOf(more)
  BY <1>1 DEF ElementsOf
<1> HIDE DEF Given
<1>13. QED
  BY <1>1, <1>8, <1>11, <1>12

------------------------------------------------------------------------------
(* State posts.                                                             *)

SymbolPosts == [symbol : Nat, targets : Seq(Nat)]
HasTargets(e) == IsVector(e.targets) /\ e.targets # << >>
IsPost(p) ==
  /\ p \in Seq(SymbolPosts) /\ IsVector(SymbolsOf(p))
  /\ \A n \in 1 .. Len(p) : HasTargets(p[n])
HasMove(p, a, t) == \E n \in 1 .. Len(p) : p[n].symbol = a /\ t \in ElementsOf(p[n].targets)

LEMMA SymbolsAre ==
  ASSUME NEW p \in Seq(SymbolPosts)
  PROVE  /\ Len(p) \in Nat /\ DOMAIN p = 1 .. Len(p) /\ \A n \in 1 .. Len(p) : p[n] \in SymbolPosts
         /\ SymbolsOf(p) \in Seq(Nat) /\ Len(SymbolsOf(p)) = Len(p)
         /\ \A n \in 1 .. Len(p) : SymbolsOf(p)[n] = p[n].symbol /\ p[n].symbol \in Nat
<1>1. Len(p) \in Nat /\ DOMAIN p = 1 .. Len(p) /\ \A n \in 1 .. Len(p) : p[n] \in SymbolPosts
  BY LenProperties
<1>2. \A n \in 1 .. Len(p) : p[n].symbol \in Nat
  BY <1>1 DEF SymbolPosts
<1>3. SymbolsOf(p) = [n \in 1 .. Len(p) |-> p[n].symbol]
  BY <1>1 DEF SymbolsOf
<1>4. SymbolsOf(p) \in Seq(Nat) /\ Len(SymbolsOf(p)) = Len(p)
  BY <1>1, <1>2, <1>3, IsASeq
<1>5. QED
  BY <1>1, <1>2, <1>3, <1>4

(* No symbol has two posts.                                                 *)
LEMMA SymbolsDiffer ==
  ASSUME NEW p, IsPost(p), NEW n \in 1 .. Len(p), NEW k \in 1 .. Len(p), p[n].symbol = p[k].symbol
  PROVE  n = k
<1>1. p \in Seq(SymbolPosts) /\ SymbolsOf(p) \in Seq(Nat) /\ is_sorted(SymbolsOf(p))
  BY DEF IsPost, IsVector
<1>2. /\ Len(p) \in Nat /\ Len(SymbolsOf(p)) = Len(p)
      /\ \A i \in 1 .. Len(p) : SymbolsOf(p)[i] = p[i].symbol /\ p[i].symbol \in Nat
  BY <1>1, SymbolsAre
<1>3. \A i, j \in 1 .. Len(p) : i < j => SymbolsOf(p)[i] < SymbolsOf(p)[j]
  BY <1>1, <1>2, SortedAscends
<1>4. \A i, j \in 1 .. Len(p) : i < j => p[i].symbol < p[j].symbol
  BY <1>2, <1>3
<1>5. ~(n < k) /\ ~(k < n)
  BY <1>2, <1>4
<1>6. QED
  BY <1>2, <1>5

LEMMA MoveOfPost ==
  ASSUME NEW p, IsPost(p), NEW n \in 1 .. Len(p), NEW t
  PROVE  HasMove(p, p[n].symbol, t) <=> t \in ElementsOf(p[n].targets)
BY SymbolsDiffer DEF HasMove

LEMMA MovesAreNumbers ==
  ASSUME NEW p, IsPost(p), NEW a, NEW t, HasMove(p, a, t)
  PROVE  a \in Nat /\ t \in Nat
<1>1. PICK n \in 1 .. Len(p) : p[n].symbol = a /\ t \in ElementsOf(p[n].targets)
  BY DEF HasMove
<1>2. p[n].symbol \in Nat
  BY SymbolsAre DEF IsPost
<1>3. IsVector(p[n].targets)
  BY DEF IsPost, HasTargets
<1>4. ElementsOf(p[n].targets) \in SUBSET Nat
  BY <1>3, VectorElements
<1>5. QED
  BY <1>1, <1>2, <1>4

LEMMA FindIs ==
  ASSUME NEW p, IsPost(p), NEW a \in Nat
  PROVE  /\ HasSymbol(p, a) <=> \E n \in 1 .. Len(p) : p[n].symbol = a
         /\ HasSymbol(p, a) => find(p, a) \in 1 .. Len(p) /\ p[find(p, a)].symbol = a
         /\ ~ HasSymbol(p, a) => ~ IsAt(SymbolsOf(p), lower_bound(SymbolsOf(p), a), a)
         /\ IsLowerBound(SymbolsOf(p), a, lower_bound(SymbolsOf(p), a))
<1> DEFINE pos == lower_bound(SymbolsOf(p), a)
<1>1. p \in Seq(SymbolPosts) /\ IsVector(SymbolsOf(p)) /\ SymbolsOf(p) \in Seq(Nat)
  BY DEF IsPost, IsVector
<1>2. /\ Len(p) \in Nat /\ Len(SymbolsOf(p)) = Len(p)
      /\ \A i \in 1 .. Len(p) : SymbolsOf(p)[i] = p[i].symbol /\ p[i].symbol \in Nat
  BY <1>1, SymbolsAre
<1>3. IsLowerBound(SymbolsOf(p), a, pos)
  BY <1>1, LowerBoundIsThere
<1>4. find(p, a) = IF IsAt(SymbolsOf(p), pos, a) THEN pos ELSE Len(p) + 1
  BY DEF find
<1> HIDE DEF pos
<1>5. IsAt(SymbolsOf(p), pos, a) <=> a \in ElementsOf(SymbolsOf(p))
  BY <1>1, <1>3, LowerBoundFinds
<1>6. a \in ElementsOf(SymbolsOf(p)) <=> \E n \in 1 .. Len(p) : p[n].symbol = a
  <2>1. DOMAIN SymbolsOf(p) = 1 .. Len(p)
    BY <1>1, <1>2, LenProperties
  <2>2. QED
    BY <1>2, <2>1 DEF ElementsOf
<1>7. IsAt(SymbolsOf(p), pos, a) => pos \in 1 .. Len(p) /\ p[pos].symbol = a
  <2> SUFFICES ASSUME IsAt(SymbolsOf(p), pos, a) PROVE pos \in 1 .. Len(p) /\ p[pos].symbol = a
    OBVIOUS
  <2>1. pos \in 1 .. Len(p)
    BY <1>2, <1>3 DEF IsAt, IsLowerBound
  <2>2. QED
    BY <1>2, <2>1 DEF IsAt
<1>8. HasSymbol(p, a) <=> IsAt(SymbolsOf(p), pos, a)
  <2>1. pos \in 1 .. Len(p) => pos # Len(p) + 1
    BY <1>2
  <2>2. QED
    BY <1>4, <1>7, <2>1 DEF HasSymbol
<1>9. QED
  BY <1>3, <1>4, <1>5, <1>6, <1>7, <1>8 DEF pos

(* Other targets for a symbol of the post.                                  *)
LEMMA PostReplaced ==
  ASSUME NEW p, IsPost(p), NEW n \in 1 .. Len(p), NEW ts, IsVector(ts), ts # << >>
  PROVE  /\ IsPost([p EXCEPT ![n].targets = ts])
         /\ \A a, t : HasMove([p EXCEPT ![n].targets = ts], a, t) <=>
                        IF a = p[n].symbol THEN t \in ElementsOf(ts) ELSE HasMove(p, a, t)
<1> DEFINE w == [p EXCEPT ![n].targets = ts]
<1>1. p \in Seq(SymbolPosts)
  BY DEF IsPost
<1>2. /\ Len(p) \in Nat /\ DOMAIN p = 1 .. Len(p) /\ \A k \in 1 .. Len(p) : p[k] \in SymbolPosts
      /\ SymbolsOf(p) \in Seq(Nat) /\ Len(SymbolsOf(p)) = Len(p)
      /\ \A k \in 1 .. Len(p) : SymbolsOf(p)[k] = p[k].symbol /\ p[k].symbol \in Nat
  BY <1>1, SymbolsAre
<1>3. /\ w = [k \in 1 .. Len(p) |-> IF k = n THEN [p[n] EXCEPT !.targets = ts] ELSE p[k]]
  BY <1>2
<1>4. [p[n] EXCEPT !.targets = ts] = [symbol |-> p[n].symbol, targets |-> ts]
  BY <1>2 DEF SymbolPosts
<1> HIDE DEF w
<1>5. \A k \in 1 .. Len(p) : w[k] = IF k = n THEN [symbol |-> p[n].symbol, targets |-> ts] ELSE p[k]
  BY <1>3, <1>4
<1>6. \A k \in 1 .. Len(p) : w[k] \in SymbolPosts
  <2>1. [symbol |-> p[n].symbol, targets |-> ts] \in SymbolPosts
    <3>1. p[n].symbol \in Nat /\ ts \in Seq(Nat)
      BY <1>2 DEF IsVector
    <3>2. QED
      BY <3>1 DEF SymbolPosts
  <2>2. QED
    BY <1>2, <1>5, <2>1
<1>7. w \in Seq(SymbolPosts) /\ Len(w) = Len(p)
  <2>1. w = [k \in 1 .. Len(p) |-> w[k]]
    BY <1>3
  <2>2. QED
    BY <1>2, <1>6, <2>1, IsASeq
<1>8. DOMAIN w = 1 .. Len(p)
  BY <1>3
<1>9. SymbolsOf(w) = SymbolsOf(p)
  BY <1>2, <1>5, <1>8 DEF SymbolsOf
<1>10. \A k \in 1 .. Len(p) : HasTargets(w[k])
  BY <1>5 DEF IsPost, HasTargets
<1>11. IsPost(w)
  BY <1>7, <1>9, <1>10 DEF IsPost
<1>12. ASSUME NEW a, NEW t
       PROVE  HasMove(w, a, t) <=> IF a = p[n].symbol THEN t \in ElementsOf(ts) ELSE HasMove(p, a, t)
  <2>1. CASE a = p[n].symbol
    <3>1. w[n].symbol = a /\ w[n].targets = ts /\ n \in 1 .. Len(w)
      BY <1>5, <1>7, <2>1
    <3>2. HasMove(w, w[n].symbol, t) <=> t \in ElementsOf(w[n].targets)
      BY <1>11, <3>1, MoveOfPost
    <3>3. QED
      BY <2>1, <3>1, <3>2
  <2>2. CASE a # p[n].symbol
    <3>1. \A k \in 1 .. Len(p) : (w[k].symbol = a /\ t \in ElementsOf(w[k].targets))
                                  <=> (p[k].symbol = a /\ t \in ElementsOf(p[k].targets))
      <4> SUFFICES ASSUME NEW k \in 1 .. Len(p)
                   PROVE  (w[k].symbol = a /\ t \in ElementsOf(w[k].targets))
                           <=> (p[k].symbol = a /\ t \in ElementsOf(p[k].targets))
        OBVIOUS
      <4>1. CASE k = n
        BY <1>5, <2>2, <4>1
      <4>2. CASE k # n
        BY <1>5, <4>2
      <4>3. QED
        BY <4>1, <4>2
    <3>2. QED
      BY <1>7, <2>2, <3>1 DEF HasMove
  <2>3. QED
    BY <2>1, <2>2
<1>13. QED
  BY <1>11, <1>12 DEF w

(* A post of a symbol that had none.                                        *)
LEMMA PostInserted ==
  ASSUME NEW p, IsPost(p), NEW a \in Nat, ~ HasSymbol(p, a), NEW ts, IsVector(ts), ts # << >>
  PROVE  LET w == InsertedAt(p, lower_bound(SymbolsOf(p), a), SymbolPost(a, ts))
         IN /\ IsPost(w)
            /\ \A b, t : HasMove(w, b, t) <=> IF b = a THEN t \in ElementsOf(ts) ELSE HasMove(p, b, t)
<1> DEFINE n == lower_bound(SymbolsOf(p), a)
           e == SymbolPost(a, ts)
           w == InsertedAt(p, n, e)
<1>1. p \in Seq(SymbolPosts) /\ IsVector(SymbolsOf(p))
  BY DEF IsPost
<1>2. /\ Len(p) \in Nat /\ DOMAIN p = 1 .. Len(p) /\ \A k \in 1 .. Len(p) : p[k] \in SymbolPosts
      /\ SymbolsOf(p) \in Seq(Nat) /\ Len(SymbolsOf(p)) = Len(p)
      /\ \A k \in 1 .. Len(p) : SymbolsOf(p)[k] = p[k].symbol /\ p[k].symbol \in Nat
  BY <1>1, SymbolsAre
<1>3. IsLowerBound(SymbolsOf(p), a, n) /\ ~ IsAt(SymbolsOf(p), n, a)
  BY FindIs
<1>4. e.symbol = a /\ e.targets = ts /\ e \in SymbolPosts
  BY DEF SymbolPost, SymbolPosts, IsVector
<1> HIDE DEF n, e
<1>5. n \in 1 .. Len(p) + 1 /\ n \in Nat /\ n >= 1
  BY <1>2, <1>3 DEF IsLowerBound
<1>6. /\ w \in Seq(SymbolPosts) /\ Len(w) = Len(p) + 1
      /\ \A k \in 1 .. Len(p) + 1 : w[k] = IF k < n THEN p[k] ELSE IF k = n THEN e ELSE p[k - 1]
  BY <1>1, <1>4, <1>5, InsertedAtIs
<1> HIDE DEF w
<1>7. /\ Len(w) \in Nat /\ SymbolsOf(w) \in Seq(Nat) /\ Len(SymbolsOf(w)) = Len(w)
      /\ \A k \in 1 .. Len(w) : SymbolsOf(w)[k] = w[k].symbol
  BY <1>6, SymbolsAre
<1>8. HasInserted(SymbolsOf(w), SymbolsOf(p), n, a)
  <2>1. ASSUME NEW k \in 1 .. Len(p) + 1
        PROVE  SymbolsOf(w)[k] = IF k < n THEN SymbolsOf(p)[k] ELSE IF k = n THEN a ELSE SymbolsOf(p)[k - 1]
    <3>1. SymbolsOf(w)[k] = w[k].symbol
      BY <1>6, <1>7
    <3>2. CASE k < n
      <4>1. k \in 1 .. Len(p)
        BY <1>2, <1>5, <3>2
      <4>2. QED
        BY <1>2, <1>6, <3>1, <3>2, <4>1
    <3>3. CASE k = n
      BY <1>4, <1>6, <3>1, <3>3, <1>5
    <3>4. CASE k > n
      <4>1. k - 1 \in 1 .. Len(p) /\ ~(k < n) /\ k # n
        BY <1>2, <1>5, <3>4
      <4>2. QED
        BY <1>2, <1>6, <3>1, <4>1
    <3>5. QED
      BY <1>5, <3>2, <3>3, <3>4
  <2>2. QED
    BY <1>2, <1>6, <1>7, <2>1 DEF HasInserted
<1>9. IsVector(SymbolsOf(w))
  BY <1>1, <1>3, <1>8, InsertedIsVector
<1>10. ASSUME NEW k \in 1 .. Len(p) + 1
       PROVE  \/ w[k] = e
              \/ \E j \in 1 .. Len(p) : w[k] = p[j]
  <2>1. CASE k < n
    <3>1. k \in 1 .. Len(p)
      BY <1>2, <1>5, <2>1
    <3>2. QED
      BY <1>6, <2>1, <3>1
  <2>2. CASE k = n
    BY <1>5, <1>6, <2>2
  <2>3. CASE k > n
    <3>1. k - 1 \in 1 .. Len(p) /\ ~(k < n) /\ k # n
      BY <1>2, <1>5, <2>3
    <3>2. QED
      BY <1>6, <3>1
  <2>4. QED
    BY <1>5, <2>1, <2>2, <2>3
<1>11. ASSUME NEW j \in 1 .. Len(p) PROVE \E k \in 1 .. Len(p) + 1 : w[k] = p[j]
  <2>1. CASE j < n
    <3>1. j \in 1 .. Len(p) + 1 /\ w[j] = p[j]
      BY <1>2, <1>6, <2>1
    <3>2. QED
      BY <3>1
  <2>2. CASE ~(j < n)
    <3>1. j + 1 \in 1 .. Len(p) + 1 /\ ~(j + 1 < n) /\ j + 1 # n /\ (j + 1) - 1 = j
      BY <1>2, <1>5, <2>2
    <3>2. w[j + 1] = p[j]
      BY <1>6, <3>1
    <3>3. QED
      BY <3>1, <3>2
  <2>3. QED
    BY <2>1, <2>2
<1>12. \E k \in 1 .. Len(p) + 1 : w[k] = e
  <2>1. ~(n < n) /\ w[n] = e
    BY <1>5, <1>6
  <2>2. QED
    BY <1>5, <2>1
<1>13. HasTargets(e)
  BY <1>4 DEF HasTargets
<1>14. \A k \in 1 .. Len(w) : HasTargets(w[k])
  BY <1>6, <1>10, <1>13 DEF IsPost
<1>15. IsPost(w)
  BY <1>6, <1>9, <1>14 DEF IsPost
<1>16. ASSUME NEW b, NEW t
       PROVE  HasMove(w, b, t) <=> IF b = a THEN t \in ElementsOf(ts) ELSE HasMove(p, b, t)
  <2>1. \A j \in 1 .. Len(p) : p[j].symbol # a
    BY FindIs
  <2>2. ASSUME HasMove(w, b, t)
        PROVE  IF b = a THEN t \in ElementsOf(ts) ELSE HasMove(p, b, t)
    <3>1. PICK k \in 1 .. Len(p) + 1 : w[k].symbol = b /\ t \in ElementsOf(w[k].targets)
      BY <1>6, <2>2 DEF HasMove
    <3>2. CASE w[k] = e
      BY <1>4, <3>1, <3>2
    <3>3. CASE \E j \in 1 .. Len(p) : w[k] = p[j]
      BY <2>1, <3>1, <3>3 DEF HasMove
    <3>4. QED
      BY <1>10, <3>2, <3>3
  <2>3. ASSUME IF b = a THEN t \in ElementsOf(ts) ELSE HasMove(p, b, t)
        PROVE  HasMove(w, b, t)
    <3>1. CASE b = a
      BY <1>4, <1>6, <1>12, <2>3, <3>1 DEF HasMove
    <3>2. CASE b # a
      <4>1. PICK j \in 1 .. Len(p) : p[j].symbol = b /\ t \in ElementsOf(p[j].targets)
        BY <2>3, <3>2 DEF HasMove
      <4>2. PICK k \in 1 .. Len(p) + 1 : w[k] = p[j]
        BY <1>11
      <4>3. QED
        BY <1>6, <4>1, <4>2 DEF HasMove
    <3>3. QED
      BY <3>1, <3>2
  <2>4. QED
    BY <2>2, <2>3
<1>17. QED
  BY <1>15, <1>16 DEF w, n, e

(* A symbol less.                                                           *)
LEMMA PostErased ==
  ASSUME NEW p, IsPost(p), NEW n \in 1 .. Len(p)
  PROVE  /\ IsPost(ErasedAt(p, n))
         /\ \A b, t : HasMove(ErasedAt(p, n), b, t) <=> b # p[n].symbol /\ HasMove(p, b, t)
<1> DEFINE w == ErasedAt(p, n)
<1>1. p \in Seq(SymbolPosts) /\ IsVector(SymbolsOf(p))
  BY DEF IsPost
<1>2. /\ Len(p) \in Nat /\ DOMAIN p = 1 .. Len(p) /\ \A k \in 1 .. Len(p) : p[k] \in SymbolPosts
      /\ SymbolsOf(p) \in Seq(Nat) /\ Len(SymbolsOf(p)) = Len(p)
      /\ \A k \in 1 .. Len(p) : SymbolsOf(p)[k] = p[k].symbol /\ p[k].symbol \in Nat
  BY <1>1, SymbolsAre
<1>3. n \in Nat /\ n >= 1 /\ n <= Len(p)
  BY <1>2
<1>4. /\ w \in Seq(SymbolPosts) /\ Len(w) = Len(p) - 1
      /\ \A k \in 1 .. Len(p) - 1 : w[k] = IF k < n THEN p[k] ELSE p[k + 1]
  BY <1>1, ErasedAtIs
<1> HIDE DEF w
<1>5. /\ Len(w) \in Nat /\ SymbolsOf(w) \in Seq(Nat) /\ Len(SymbolsOf(w)) = Len(w)
      /\ \A k \in 1 .. Len(w) : SymbolsOf(w)[k] = w[k].symbol
  BY <1>4, SymbolsAre
<1>6. \A k \in 1 .. Len(p) - 1 : k \in 1 .. Len(p) /\ k + 1 \in 1 .. Len(p) /\ k # k + 1
  BY <1>2
<1>7. HasErased(SymbolsOf(w), SymbolsOf(p), n)
  <2>1. \A k \in 1 .. Len(p) - 1 : SymbolsOf(w)[k] = IF k < n THEN SymbolsOf(p)[k] ELSE SymbolsOf(p)[k + 1]
    BY <1>2, <1>4, <1>5, <1>6
  <2>2. QED
    BY <1>2, <1>4, <1>5, <2>1 DEF HasErased
<1>8. IsVector(SymbolsOf(w))
  <2>1. n \in 1 .. Len(SymbolsOf(p))
    BY <1>2
  <2>2. QED
    BY <1>1, <1>7, <2>1, ErasedIsVector
<1>9. ASSUME NEW k \in 1 .. Len(p) - 1
      PROVE  \E j \in 1 .. Len(p) : j # n /\ w[k] = p[j]
  <2>1. CASE k < n
    BY <1>3, <1>4, <1>6, <2>1
  <2>2. CASE ~(k < n)
    <3>1. k + 1 # n /\ k + 1 \in 1 .. Len(p)
      BY <1>3, <1>6, <2>2
    <3>2. QED
      BY <1>4, <2>2, <3>1
  <2>3. QED
    BY <2>1, <2>2
<1>10. ASSUME NEW j \in 1 .. Len(p), j # n PROVE \E k \in 1 .. Len(p) - 1 : w[k] = p[j]
  <2>1. CASE j < n
    <3>1. j \in 1 .. Len(p) - 1
      BY <1>2, <1>3, <2>1
    <3>2. QED
      BY <1>4, <2>1, <3>1
  <2>2. CASE ~(j < n)
    <3>1. j - 1 \in 1 .. Len(p) - 1 /\ ~(j - 1 < n) /\ (j - 1) + 1 = j
      BY <1>2, <1>3, <1>10, <2>2
    <3>2. w[j - 1] = p[j]
      BY <1>4, <3>1
    <3>3. QED
      BY <3>1, <3>2
  <2>3. QED
    BY <2>1, <2>2
<1>11. \A k \in 1 .. Len(w) : HasTargets(w[k])
  BY <1>4, <1>9 DEF IsPost
<1>12. IsPost(w)
  BY <1>4, <1>8, <1>11 DEF IsPost
<1>13. ASSUME NEW b, NEW t
       PROVE  HasMove(w, b, t) <=> b # p[n].symbol /\ HasMove(p, b, t)
  <2>1. ASSUME HasMove(w, b, t) PROVE b # p[n].symbol /\ HasMove(p, b, t)
    <3>1. PICK k \in 1 .. Len(p) - 1 : w[k].symbol = b /\ t \in ElementsOf(w[k].targets)
      BY <1>4, <2>1 DEF HasMove
    <3>2. PICK j \in 1 .. Len(p) : j # n /\ w[k] = p[j]
      BY <1>9
    <3>3. QED
      BY <3>1, <3>2, SymbolsDiffer DEF HasMove
  <2>2. ASSUME b # p[n].symbol, HasMove(p, b, t) PROVE HasMove(w, b, t)
    <3>1. PICK j \in 1 .. Len(p) : p[j].symbol = b /\ t \in ElementsOf(p[j].targets)
      BY <2>2 DEF HasMove
    <3>2. PICK k \in 1 .. Len(p) - 1 : w[k] = p[j]
      BY <1>10, <2>2, <3>1
    <3>3. QED
      BY <1>4, <3>1, <3>2 DEF HasMove
  <2>3. QED
    BY <2>1, <2>2
<1>14. QED
  BY <1>12, <1>13 DEF w

------------------------------------------------------------------------------
(* Relations.                                                               *)

IsRelation(d) == d \in Seq(Seq(SymbolPosts)) /\ \A n \in 1 .. Len(d) : IsPost(d[n])
MovedBy(d, q, a, t) == q \in 0 .. Len(d) - 1 /\ HasMove(d[q + 1], a, t)

LEMMA RelationIs ==
  ASSUME NEW d, IsRelation(d)
  PROVE  /\ d \in Seq(Seq(SymbolPosts)) /\ Len(d) \in Nat /\ DOMAIN d = 1 .. Len(d)
         /\ d = [n \in 1 .. Len(d) |-> d[n]]
         /\ \A n \in 1 .. Len(d) : d[n] \in Seq(SymbolPosts) /\ IsPost(d[n])
BY LenProperties DEF IsRelation

LEMMA MovesAre ==
  ASSUME NEW d, IsRelation(d)
  PROVE  /\ \A q, a, t : <<q, a, t>> \in MovesOf(d) <=> MovedBy(d, q, a, t)
         /\ \A m \in MovesOf(d) : m \in Nat \X Nat \X Nat /\ m = <<m[1], m[2], m[3]>>
<1>1. Len(d) \in Nat /\ DOMAIN d = 1 .. Len(d) /\ \A n \in 1 .. Len(d) : IsPost(d[n])
  BY RelationIs
<1>2. \A n \in 1 .. Len(d) : Len(d[n]) \in Nat /\ DOMAIN d[n] = 1 .. Len(d[n])
  BY <1>1, SymbolsAre DEF IsPost
<1>3. ASSUME NEW m \in MovesOf(d)
      PROVE  \E n \in 1 .. Len(d) : \E k \in 1 .. Len(d[n]) : \E t \in ElementsOf(d[n][k].targets) :
               m = <<n - 1, d[n][k].symbol, t>>
  BY <1>1, <1>2 DEF MovesOf, ElementsOf
<1>4. ASSUME NEW n \in 1 .. Len(d), NEW k \in 1 .. Len(d[n]), NEW t \in ElementsOf(d[n][k].targets)
      PROVE  <<n - 1, d[n][k].symbol, t>> \in MovesOf(d)
  <2>1. d[n][k] \in ElementsOf(d[n])
    BY <1>2 DEF ElementsOf
  <2>2. QED
    BY <1>1, <2>1 DEF MovesOf
<1>5. ASSUME NEW q, NEW a, NEW t, <<q, a, t>> \in MovesOf(d) PROVE MovedBy(d, q, a, t)
  <2>1. PICK n \in 1 .. Len(d) : \E k \in 1 .. Len(d[n]) : \E u \in ElementsOf(d[n][k].targets) :
               <<q, a, t>> = <<n - 1, d[n][k].symbol, u>>
    BY <1>3, <1>5
  <2>2. q = n - 1 /\ HasMove(d[n], a, t)
    BY <2>1 DEF HasMove
  <2>3. q \in 0 .. Len(d) - 1 /\ q + 1 = n
    BY <1>1, <2>2
  <2>4. QED
    BY <2>2, <2>3 DEF MovedBy
<1>6. ASSUME NEW q, NEW a, NEW t, MovedBy(d, q, a, t) PROVE <<q, a, t>> \in MovesOf(d)
  <2>1. q \in 0 .. Len(d) - 1 /\ HasMove(d[q + 1], a, t)
    BY <1>6 DEF MovedBy
  <2>2. q + 1 \in 1 .. Len(d) /\ (q + 1) - 1 = q
    BY <1>1, <2>1
  <2>3. PICK k \in 1 .. Len(d[q + 1]) : d[q + 1][k].symbol = a /\ t \in ElementsOf(d[q + 1][k].targets)
    BY <2>1 DEF HasMove
  <2>4. <<(q + 1) - 1, d[q + 1][k].symbol, t>> \in MovesOf(d)
    BY <1>4, <2>2, <2>3
  <2>5. QED
    BY <2>2, <2>3, <2>4
<1>7. ASSUME NEW m \in MovesOf(d) PROVE m \in Nat \X Nat \X Nat /\ m = <<m[1], m[2], m[3]>>
  <2>1. PICK n \in 1 .. Len(d) : \E k \in 1 .. Len(d[n]) : \E u \in ElementsOf(d[n][k].targets) :
               m = <<n - 1, d[n][k].symbol, u>>
    BY <1>3
  <2>2. PICK k \in 1 .. Len(d[n]) : \E u \in ElementsOf(d[n][k].targets) : m = <<n - 1, d[n][k].symbol, u>>
    BY <2>1
  <2>3. PICK u \in ElementsOf(d[n][k].targets) : m = <<n - 1, d[n][k].symbol, u>>
    BY <2>2
  <2>4. HasMove(d[n], d[n][k].symbol, u) /\ IsPost(d[n])
    BY <1>1 DEF HasMove
  <2>5. d[n][k].symbol \in Nat /\ u \in Nat
    BY <2>4, MovesAreNumbers
  <2>6. n - 1 \in Nat
    BY <1>1
  <2>7. QED
    BY <2>3, <2>5, <2>6
<1>8. QED
  BY <1>5, <1>6, <1>7

(* Two relations have the same moves when they move the same way.           *)
LEMMA SameMoves ==
  ASSUME NEW d, IsRelation(d), NEW S, \A m \in S : m = <<m[1], m[2], m[3]>>,
         \A q, a, t : MovedBy(d, q, a, t) <=> <<q, a, t>> \in S
  PROVE  MovesOf(d) = S
<1>1. \A m \in MovesOf(d) : m = <<m[1], m[2], m[3]>>
  BY MovesAre
<1>2. \A m \in MovesOf(d) : m \in S
  <2> SUFFICES ASSUME NEW m \in MovesOf(d) PROVE m \in S
    OBVIOUS
  <2>1. m = <<m[1], m[2], m[3]>>
    BY <1>1
  <2>2. MovedBy(d, m[1], m[2], m[3])
    BY <2>1, MovesAre
  <2>3. QED
    BY <2>1, <2>2
<1>3. \A m \in S : m \in MovesOf(d)
  <2> SUFFICES ASSUME NEW m \in S PROVE m \in MovesOf(d)
    OBVIOUS
  <2>1. m = <<m[1], m[2], m[3]>>
    OBVIOUS
  <2>2. MovedBy(d, m[1], m[2], m[3])
    BY <2>1
  <2>3. <<m[1], m[2], m[3]>> \in MovesOf(d)
    BY <2>2, MovesAre
  <2>4. QED
    BY <2>1, <2>3
<1>4. QED
  BY <1>2, <1>3

(* A relation without posts.                                                *)
LEMMA EmptyRelation == IsRelation(<< >>) /\ MovesOf(<< >>) = {} /\ Len(<< >>) = 0
<1>1. << >> \in Seq(Seq(SymbolPosts)) /\ Len(<< >>) = 0
  BY EmptySeq
<1>2. IsRelation(<< >>)
  BY <1>1 DEF IsRelation
<1>3. DOMAIN << >> = {}
  OBVIOUS
<1>4. MovesOf(<< >>) = {}
  BY <1>3 DEF MovesOf
<1>5. QED
  BY <1>1, <1>2, <1>4

LEMMA EmptyPost == IsPost(<< >>) /\ (\A a, t : ~ HasMove(<< >>, a, t)) /\ \A a : ~ HasSymbol(<< >>, a)
<1>1. << >> \in Seq(SymbolPosts) /\ Len(<< >>) = 0
  BY EmptySeq
<1>2. SymbolsOf(<< >>) = << >>
  BY DEF SymbolsOf
<1>3. IsPost(<< >>)
  BY <1>1, <1>2, EmptyIsVector DEF IsPost
<1>4. \A a, t : ~ HasMove(<< >>, a, t)
  BY <1>1 DEF HasMove
<1>5. ASSUME NEW a PROVE ~ HasSymbol(<< >>, a)
  <2>1. lower_bound(<< >>, a) = 1
    <3>1. \A n \in 1 .. Len(<< >>) + 1 : n = 1
      BY <1>1
    <3>2. 1 \in 1 .. Len(<< >>) + 1 /\ 1 = Len(<< >>) + 1 /\ 1 .. 1 - 1 = {}
      BY <1>1
    <3>3. QED
      BY <3>1, <3>2 DEF lower_bound
  <2>2. ~ IsAt(<< >>, lower_bound(<< >>, a), a)
    BY <1>1, <2>1 DEF IsAt
  <2>3. find(<< >>, a) = Len(<< >>) + 1
    BY <1>2, <2>2 DEF find
  <2>4. QED
    BY <2>3 DEF HasSymbol
<1>6. QED
  BY <1>3, <1>4, <1>5

(* The post of a state, whether the vector reaches it or not.               *)
LEMMA StatePostIs ==
  ASSUME NEW d, IsRelation(d), NEW q \in Nat
  PROVE  IsPost(state_post(d, q)) /\ \A a, t : HasMove(state_post(d, q), a, t) <=> MovedBy(d, q, a, t)
<1>1. Len(d) \in Nat /\ \A n \in 1 .. Len(d) : IsPost(d[n])
  BY RelationIs
<1>2. CASE q < Len(d)
  <2>1. q + 1 \in 1 .. Len(d) /\ q \in 0 .. Len(d) - 1
    BY <1>1, <1>2
  <2>2. state_post(d, q) = d[q + 1]
    BY <1>2 DEF state_post
  <2>3. QED
    BY <1>1, <2>1, <2>2 DEF MovedBy
<1>3. CASE ~(q < Len(d))
  <2>1. state_post(d, q) = << >> /\ q \notin 0 .. Len(d) - 1
    BY <1>1, <1>3 DEF state_post
  <2>2. QED
    BY <2>1, EmptyPost DEF MovedBy
<1>4. QED
  BY <1>2, <1>3

(* allocate adds only empty posts.                                          *)
LEMMA AllocateIs ==
  ASSUME NEW d, IsRelation(d), NEW size \in Nat
  PROVE  /\ IsRelation(allocate(d, size)) /\ MovesOf(allocate(d, size)) = MovesOf(d)
         /\ Len(allocate(d, size)) = Larger(Len(d), size)
         /\ \A q \in 0 .. Larger(Len(d), size) - 1 : allocate(d, size)[q + 1] = state_post(d, q)
<1> DEFINE w == allocate(d, size)
           L == Larger(Len(d), size)
<1>1. Len(d) \in Nat /\ \A n \in 1 .. Len(d) : IsPost(d[n])
  BY RelationIs
<1>2. L \in Nat /\ L >= Len(d) /\ L >= size
  BY <1>1 DEF Larger
<1>3. w = [n \in 1 .. L |-> state_post(d, n - 1)]
  <2>1. L = IF size > Len(d) THEN size ELSE Len(d)
    BY <1>1 DEF Larger
  <2>2. QED
    BY <2>1 DEF allocate
<1> HIDE DEF w, L
<1>4. \A n \in 1 .. L : n - 1 \in Nat
  BY <1>2
<1>5. \A n \in 1 .. L : IsPost(state_post(d, n - 1))
  BY <1>4, StatePostIs
<1>6. \A n \in 1 .. L : state_post(d, n - 1) \in Seq(SymbolPosts)
  BY <1>5 DEF IsPost
<1>7. w \in Seq(Seq(SymbolPosts)) /\ Len(w) = L
  BY <1>2, <1>3, <1>6, IsASeq
<1>8. IsRelation(w)
  BY <1>3, <1>5, <1>7 DEF IsRelation
<1>9. \A q \in 0 .. L - 1 : w[q + 1] = state_post(d, q)
  <2> SUFFICES ASSUME NEW q \in 0 .. L - 1 PROVE w[q + 1] = state_post(d, q)
    OBVIOUS
  <2>1. q + 1 \in 1 .. L /\ (q + 1) - 1 = q
    BY <1>2
  <2>2. QED
    BY <1>3, <2>1
<1>10. ASSUME NEW q, NEW a, NEW t PROVE MovedBy(w, q, a, t) <=> MovedBy(d, q, a, t)
  <2>1. CASE q \in 0 .. L - 1
    <3>1. q \in Nat
      BY <1>2, <2>1
    <3>2. MovedBy(w, q, a, t) <=> HasMove(state_post(d, q), a, t)
      BY <1>7, <1>9, <2>1 DEF MovedBy
    <3>3. QED
      BY <3>1, <3>2, StatePostIs
  <2>2. CASE q \notin 0 .. L - 1
    <3>1. q \notin 0 .. Len(d) - 1
      BY <1>1, <1>2, <2>2
    <3>2. QED
      BY <1>7, <2>2, <3>1 DEF MovedBy
  <2>3. QED
    BY <2>1, <2>2
<1>11. MovesOf(w) = MovesOf(d)
  <2>1. \A m \in MovesOf(d) : m = <<m[1], m[2], m[3]>>
    BY MovesAre
  <2>2. \A q, a, t : MovedBy(w, q, a, t) <=> <<q, a, t>> \in MovesOf(d)
    BY <1>10, MovesAre
  <2>3. QED
    BY <1>8, <2>1, <2>2, SameMoves
<1>12. QED
  BY <1>7, <1>8, <1>9, <1>11 DEF w, L

(* Another post for a state.                                                *)
LEMMA RelationReplaced ==
  ASSUME NEW d, IsRelation(d), NEW s \in 0 .. Len(d) - 1, NEW p, IsPost(p)
  PROVE  /\ IsRelation([d EXCEPT ![s + 1] = p]) /\ Len([d EXCEPT ![s + 1] = p]) = Len(d)
         /\ \A q, a, t : MovedBy([d EXCEPT ![s + 1] = p], q, a, t) <=>
                           IF q = s THEN HasMove(p, a, t) ELSE MovedBy(d, q, a, t)
<1> DEFINE w == [d EXCEPT ![s + 1] = p]
<1>1. /\ Len(d) \in Nat /\ DOMAIN d = 1 .. Len(d)
      /\ \A n \in 1 .. Len(d) : d[n] \in Seq(SymbolPosts) /\ IsPost(d[n])
  BY RelationIs
<1>2. s \in Nat /\ s + 1 \in 1 .. Len(d)
  BY <1>1
<1>3. w = [n \in 1 .. Len(d) |-> IF n = s + 1 THEN p ELSE d[n]]
  BY <1>1, <1>2
<1>4. p \in Seq(SymbolPosts)
  BY DEF IsPost
<1> HIDE DEF w
<1>5. w \in Seq(Seq(SymbolPosts)) /\ Len(w) = Len(d)
  <2>1. \A n \in 1 .. Len(d) : (IF n = s + 1 THEN p ELSE d[n]) \in Seq(SymbolPosts)
    BY <1>1, <1>4
  <2>2. QED
    BY <1>1, <1>3, <2>1, IsASeq
<1>6. IsRelation(w)
  BY <1>1, <1>3, <1>5 DEF IsRelation
<1>7. ASSUME NEW q, NEW a, NEW t
      PROVE  MovedBy(w, q, a, t) <=> IF q = s THEN HasMove(p, a, t) ELSE MovedBy(d, q, a, t)
  <2>1. CASE q = s
    BY <1>2, <1>3, <1>5, <2>1 DEF MovedBy
  <2>2. CASE q # s /\ q \in 0 .. Len(d) - 1
    <3>1. q + 1 \in 1 .. Len(d) /\ q + 1 # s + 1
      BY <1>1, <1>2, <2>2
    <3>2. w[q + 1] = d[q + 1]
      BY <1>3, <3>1
    <3>3. QED
      BY <1>5, <2>2, <3>2 DEF MovedBy
  <2>3. CASE q # s /\ q \notin 0 .. Len(d) - 1
    BY <1>5, <2>3 DEF MovedBy
  <2>4. QED
    BY <2>1, <2>2, <2>3
<1>8. QED
  BY <1>5, <1>6, <1>7 DEF w

(* The last element of an ordered vector is its largest.                    *)
LEMMA LastIsLargest ==
  ASSUME NEW v, IsVector(v), v # << >>
  PROVE  v[Len(v)] \in ElementsOf(v) /\ v[Len(v)] \in Nat /\ \A x \in ElementsOf(v) : x <= v[Len(v)]
<1>1. /\ v \in Seq(Nat) /\ Len(v) \in Nat /\ DOMAIN v = 1 .. Len(v)
      /\ \A k \in 1 .. Len(v) : v[k] \in Nat
  BY LenProperties DEF IsVector
<1>2. Len(v) # 0
  BY <1>1, EmptySeq
<1>3. Len(v) \in 1 .. Len(v)
  BY <1>1, <1>2
<1>4. ASSUME NEW x \in ElementsOf(v) PROVE x <= v[Len(v)]
  <2>1. PICK k \in 1 .. Len(v) : x = v[k]
    BY <1>1 DEF ElementsOf
  <2>2. k < Len(v) => v[k] < v[Len(v)]
    BY <1>1, <1>3, SortedAscends DEF IsVector
  <2>3. v[k] \in Nat /\ v[Len(v)] \in Nat
    BY <1>1, <1>3
  <2>4. k = Len(v) \/ k < Len(v)
    <3>1. Len(v) \in Nat /\ k \in 1 .. Len(v)
      BY <1>1, <2>1
    <3>2. QED
      BY <3>1
  <2>5. QED
    BY <2>1, <2>2, <2>3, <2>4
<1>5. QED
  BY <1>1, <1>3, <1>4 DEF ElementsOf

(* What a call of add does to the post of the source.                       *)
PostWith(p, a, ts) ==
  IF HasSymbol(p, a) THEN [p EXCEPT ![find(p, a)].targets = InsertAll(@, ts)]
  ELSE InsertedAt(p, lower_bound(SymbolsOf(p), a), SymbolPost(a, ts))

LEMMA PostWithIs ==
  ASSUME NEW p, IsPost(p), NEW a \in Nat, NEW ts, IsVector(ts), ts # << >>
  PROVE  /\ IsPost(PostWith(p, a, ts))
         /\ \A b, t : HasMove(PostWith(p, a, ts), b, t) <=>
                        HasMove(p, b, t) \/ (b = a /\ t \in ElementsOf(ts))
<1>1. CASE HasSymbol(p, a)
  <2> DEFINE n == find(p, a)
             new == InsertAll(p[n].targets, ts)
  <2>1. n \in 1 .. Len(p) /\ p[n].symbol = a
    BY <1>1, FindIs
  <2>2. p \in Seq(SymbolPosts)
    BY DEF IsPost
  <2>3. DOMAIN p = 1 .. Len(p)
    BY <2>2, SymbolsAre
  <2>4. IsVector(p[n].targets) /\ p[n].targets # << >>
    BY <2>1 DEF IsPost, HasTargets
  <2>5. PostWith(p, a, ts) = [p EXCEPT ![n].targets = new]
    BY <1>1, <2>1, <2>3 DEF PostWith
  <2> HIDE DEF n
  <2>6. ts \in Seq(Nat)
    BY DEF IsVector
  <2>7. IsVector(new) /\ ElementsOf(new) = ElementsOf(p[n].targets) \cup ElementsOf(ts)
    BY <2>4, <2>6, InsertAllIs
  <2> HIDE DEF new
  <2>8. new # << >>
    BY <2>4, <2>7, VectorElements
  <2>9. /\ IsPost([p EXCEPT ![n].targets = new])
        /\ \A b, t : HasMove([p EXCEPT ![n].targets = new], b, t) <=>
                       IF b = p[n].symbol THEN t \in ElementsOf(new) ELSE HasMove(p, b, t)
    BY <2>1, <2>7, <2>8, PostReplaced
  <2>10. \A t : HasMove(p, a, t) <=> t \in ElementsOf(p[n].targets)
    BY <2>1, MoveOfPost
  <2>11. QED
    BY <2>1, <2>5, <2>7, <2>9, <2>10
<1>2. CASE ~ HasSymbol(p, a)
  <2> DEFINE w == InsertedAt(p, lower_bound(SymbolsOf(p), a), SymbolPost(a, ts))
  <2>1. /\ IsPost(w)
        /\ \A b, t : HasMove(w, b, t) <=> IF b = a THEN t \in ElementsOf(ts) ELSE HasMove(p, b, t)
    BY <1>2, PostInserted
  <2>2. PostWith(p, a, ts) = w
    BY <1>2 DEF PostWith
  <2> HIDE DEF w
  <2>3. \A t : ~ HasMove(p, a, t)
    BY <1>2, FindIs DEF HasMove
  <2>4. QED
    BY <2>1, <2>2, <2>3
<1>3. QED
  BY <1>1, <1>2

(* Delta::add: the transitions that were there and the new ones, over at    *)
(* least as many states as they need.                                       *)
LEMMA AddIs ==
  ASSUME NEW d, IsRelation(d), NEW s \in Nat, NEW a \in Nat, NEW ts, IsVector(ts)
  PROVE  /\ IsRelation(add(d, s, a, ts))
         /\ MovesOf(add(d, s, a, ts)) = MovesOf(d) \cup ({s} \X {a} \X ElementsOf(ts))
         /\ ts = << >> => Len(add(d, s, a, ts)) = Len(d)
         /\ ts # << >> => Len(add(d, s, a, ts)) = Larger(Len(d), 1 + Larger(s, ts[Len(ts)]))
<1>1. CASE ts = << >>
  <2>1. add(d, s, a, ts) = d
    BY <1>1 DEF add
  <2>2. ElementsOf(ts) = {}
    BY <1>1, EmptyIsVector
  <2>3. QED
    BY <1>1, <2>1, <2>2
<1>2. CASE ts # << >>
  <2> DEFINE size == 1 + Larger(s, ts[Len(ts)])
             grown == allocate(d, size)
             p == grown[s + 1]
             w == [grown EXCEPT ![s + 1] = PostWith(p, a, ts)]
  <2>1. ts[Len(ts)] \in Nat
    BY <1>2, LastIsLargest
  <2>2. Larger(s, ts[Len(ts)]) = IF s > ts[Len(ts)] THEN s ELSE ts[Len(ts)]
    BY <2>1 DEF Larger
  <2>3. size \in Nat /\ s < size
    BY <2>1, <2>2
  <2>4. add(d, s, a, ts) = w
    BY <1>2, <2>2 DEF add, PostWith
  <2> HIDE DEF size
  <2>5. /\ IsRelation(grown) /\ MovesOf(grown) = MovesOf(d)
        /\ Len(grown) = Larger(Len(d), size)
    BY <2>3, AllocateIs
  <2> HIDE DEF grown
  <2>6. Len(grown) \in Nat /\ s \in 0 .. Len(grown) - 1 /\ s + 1 \in 1 .. Len(grown)
    <3>1. Len(d) \in Nat
      BY RelationIs
    <3>2. QED
      BY <2>3, <2>5, <3>1 DEF Larger
  <2>7. IsPost(p)
    BY <2>5, <2>6, RelationIs
  <2>8. \A b, t : HasMove(p, b, t) <=> MovedBy(grown, s, b, t)
    BY <2>6 DEF MovedBy
  <2> HIDE DEF p
  <2> DEFINE new == PostWith(p, a, ts)
  <2>9. /\ IsPost(new)
        /\ \A b, t : HasMove(new, b, t) <=> HasMove(p, b, t) \/ (b = a /\ t \in ElementsOf(ts))
    BY <1>2, <2>7, PostWithIs
  <2>10. w = [grown EXCEPT ![s + 1] = new]
    OBVIOUS
  <2> HIDE DEF new, w
  <2>11. /\ IsRelation(w) /\ Len(w) = Len(grown)
         /\ \A q, b, t : MovedBy(w, q, b, t) <=> IF q = s THEN HasMove(new, b, t) ELSE MovedBy(grown, q, b, t)
    BY <2>5, <2>6, <2>9, <2>10, RelationReplaced
  <2> DEFINE S == MovesOf(d) \cup ({s} \X {a} \X ElementsOf(ts))
  <2>12. \A m \in S : m = <<m[1], m[2], m[3]>>
    <3>1. \A m \in MovesOf(d) : m = <<m[1], m[2], m[3]>>
      BY MovesAre
    <3>2. QED
      BY <3>1
  <2>13. \A q, b, t : MovedBy(grown, q, b, t) <=> <<q, b, t>> \in MovesOf(d)
    BY <2>5, MovesAre
  <2>14. \A q, b, t : MovedBy(w, q, b, t) <=> <<q, b, t>> \in S
    <3> SUFFICES ASSUME NEW q, NEW b, NEW t PROVE MovedBy(w, q, b, t) <=> <<q, b, t>> \in S
      OBVIOUS
    <3>1. <<q, b, t>> \in S <=> <<q, b, t>> \in MovesOf(d) \/ (q = s /\ b = a /\ t \in ElementsOf(ts))
      OBVIOUS
    <3>2. QED
      BY <2>8, <2>9, <2>11, <2>13, <3>1
  <2> HIDE DEF S
  <2>15. MovesOf(w) = S
    BY <2>11, <2>12, <2>14, SameMoves
  <2>16. QED
    BY <1>2, <2>4, <2>5, <2>11, <2>15 DEF size, S
<1>3. QED
  BY <1>1, <1>2

(* Delta::remove: one transition less, and never a symbol without targets.  *)
RemovesTo(d, s, a, t, w) ==
  IsRelation(w) /\ Len(w) = Len(d) /\ MovesOf(w) = MovesOf(d) \ {<<s, a, t>>}

LEMMA RemoveIs ==
  ASSUME NEW d, IsRelation(d), NEW s \in Nat, NEW a \in Nat, NEW t \in Nat
  PROVE  /\ RemovesTo(d, s, a, t, remove(d, s, a, t))
         /\ RemoveThrows(d, s, a) => <<s, a, t>> \notin MovesOf(d)
<1>1. Len(d) \in Nat /\ \A n \in 1 .. Len(d) : IsPost(d[n])
  BY RelationIs
<1>2. CASE s >= Len(d) \/ RemoveThrows(d, s, a)
  <2>1. remove(d, s, a, t) = d
    BY <1>2 DEF remove
  <2>2. ~ MovedBy(d, s, a, t)
    <3>1. CASE s >= Len(d)
      BY <1>1, <3>1 DEF MovedBy
    <3>2. CASE s < Len(d) /\ ~ HasSymbol(d[s + 1], a)
      <4>1. s + 1 \in 1 .. Len(d)
        BY <1>1, <3>2
      <4>2. IsPost(d[s + 1])
        BY <1>1, <4>1
      <4>3. ~ \E n \in 1 .. Len(d[s + 1]) : d[s + 1][n].symbol = a
        BY <3>2, <4>2, FindIs
      <4>4. QED
        BY <4>3 DEF MovedBy, HasMove
    <3>3. QED
      BY <1>2, <3>1, <3>2 DEF RemoveThrows
  <2>3. <<s, a, t>> \notin MovesOf(d)
    BY <2>2, MovesAre
  <2>4. QED
    BY <2>1, <2>3 DEF RemovesTo
<1>3. CASE ~(s >= Len(d) \/ RemoveThrows(d, s, a))
  <2> DEFINE p == d[s + 1]
             n == find(p, a)
             left == erase(p[n].targets, t)
             new == IF left = << >> THEN ErasedAt(p, n) ELSE [p EXCEPT ![n].targets = left]
             w == [d EXCEPT ![s + 1] = new]
  <2>1. remove(d, s, a, t) = w
    BY <1>3 DEF remove
  <2>2. s \in 0 .. Len(d) - 1 /\ s + 1 \in 1 .. Len(d) /\ HasSymbol(p, a)
    BY <1>1, <1>3 DEF RemoveThrows
  <2>3. IsPost(p)
    BY <1>1, <2>2
  <2>4. \A b, u : HasMove(p, b, u) <=> MovedBy(d, s, b, u)
    BY <2>2 DEF MovedBy
  <2> HIDE DEF p
  <2>5. n \in 1 .. Len(p) /\ p[n].symbol = a
    BY <2>2, <2>3, FindIs
  <2> HIDE DEF n
  <2>6. IsVector(p[n].targets)
    BY <2>3, <2>5 DEF IsPost, HasTargets
  <2>7. IsVector(left) /\ ElementsOf(left) = ElementsOf(p[n].targets) \ {t}
    BY <2>6, EraseIs
  <2> HIDE DEF left
  <2>8. \A u : HasMove(p, a, u) <=> u \in ElementsOf(p[n].targets)
    BY <2>3, <2>5, MoveOfPost
  <2>9. IsPost(new) /\ \A b, u : HasMove(new, b, u) <=> HasMove(p, b, u) /\ ~(b = a /\ u = t)
    <3>1. CASE left = << >>
      <4>1. /\ IsPost(ErasedAt(p, n))
            /\ \A b, u : HasMove(ErasedAt(p, n), b, u) <=> b # p[n].symbol /\ HasMove(p, b, u)
        BY <2>3, <2>5, PostErased
      <4>2. ElementsOf(left) = {}
        BY <2>7, <3>1, VectorElements
      <4>3. QED
        BY <2>5, <2>7, <2>8, <3>1, <4>1, <4>2
    <3>2. CASE left # << >>
      <4>1. /\ IsPost([p EXCEPT ![n].targets = left])
            /\ \A b, u : HasMove([p EXCEPT ![n].targets = left], b, u) <=>
                           IF b = p[n].symbol THEN u \in ElementsOf(left) ELSE HasMove(p, b, u)
        BY <2>3, <2>5, <2>7, <3>2, PostReplaced
      <4>2. QED
        BY <2>5, <2>7, <2>8, <3>2, <4>1
    <3>3. QED
      BY <3>1, <3>2
  <2> HIDE DEF new
  <2>10. /\ IsRelation(w) /\ Len(w) = Len(d)
         /\ \A q, b, u : MovedBy(w, q, b, u) <=> IF q = s THEN HasMove(new, b, u) ELSE MovedBy(d, q, b, u)
    BY <2>2, <2>9, RelationReplaced
  <2> HIDE DEF w
  <2> DEFINE S == MovesOf(d) \ {<<s, a, t>>}
  <2>11. \A m \in S : m = <<m[1], m[2], m[3]>>
    BY MovesAre
  <2>12. \A q, b, u : MovedBy(w, q, b, u) <=> <<q, b, u>> \in S
    <3> SUFFICES ASSUME NEW q, NEW b, NEW u PROVE MovedBy(w, q, b, u) <=> <<q, b, u>> \in S
      OBVIOUS
    <3>1. <<q, b, u>> \in S <=> MovedBy(d, q, b, u) /\ ~(q = s /\ b = a /\ u = t)
      BY MovesAre
    <3>2. QED
      BY <2>4, <2>9, <2>10, <3>1
  <2> HIDE DEF S
  <2>13. MovesOf(w) = S
    BY <2>10, <2>11, <2>12, SameMoves
  <2>14. QED
    BY <1>3, <2>1, <2>10, <2>13 DEF S, RemovesTo
<1>4. QED
  BY <1>2, <1>3

------------------------------------------------------------------------------
(* The elements of a finite set, listed in order.                           *)

LEMMA FiniteHasBound ==
  ASSUME NEW S \in SUBSET Nat, IsFiniteSet(S)
  PROVE  \E M \in Nat : \A q \in S : q < M
<1> DEFINE T == {n \in Nat : \A R \in SUBSET Nat : IsFiniteSet(R) /\ Cardinality(R) = n
                                 => \E M \in Nat : \A q \in R : q < M}
<1>1. 0 \in T
  <2> SUFFICES ASSUME NEW R \in SUBSET Nat, IsFiniteSet(R), Cardinality(R) = 0
               PROVE  \E M \in Nat : \A q \in R : q < M
    OBVIOUS
  <2>1. R = {}
    BY FS_EmptySet
  <2>2. QED
    BY <2>1
<1>2. ASSUME NEW n \in Nat, n \in T PROVE n + 1 \in T
  <2> SUFFICES ASSUME NEW R \in SUBSET Nat, IsFiniteSet(R), Cardinality(R) = n + 1
               PROVE  \E M \in Nat : \A q \in R : q < M
    OBVIOUS
  <2>1. R # {}
    BY FS_EmptySet
  <2>2. PICK x \in R : TRUE
    BY <2>1
  <2>3. IsFiniteSet(R \ {x}) /\ Cardinality(R \ {x}) = n
    <3>1. /\ IsFiniteSet(R \ {x})
          /\ Cardinality(R \ {x}) = IF x \in R THEN Cardinality(R) - 1 ELSE Cardinality(R)
      BY FS_RemoveElement
    <3>2. QED
      BY <2>2, <3>1
  <2>4. PICK M \in Nat : \A q \in R \ {x} : q < M
    BY <1>2, <2>3
  <2>5. PICK N \in Nat : N = IF M < x + 1 THEN x + 1 ELSE M
    OBVIOUS
  <2>6. x \in Nat /\ \A q \in R : q \in Nat
    BY <2>2
  <2>7. \A q \in R : q < N
    BY <2>4, <2>5, <2>6
  <2>8. QED
    BY <2>7
<1>3. Nat \subseteq T
  <2> HIDE DEF T
  <2>1. QED
    BY <1>1, <1>2, SetInduction
<1>4. Cardinality(S) \in Nat
  BY FS_CardinalityType
<1>5. QED
  BY <1>3, <1>4

LEMMA AscendingIs ==
  ASSUME NEW S \in SUBSET Nat, IsFiniteSet(S)
  PROVE  IsVector(ascending(S)) /\ ElementsOf(ascending(S)) = S
<1> DEFINE C == Cardinality(S)
           Nth(n) == CHOOSE q \in S : Cardinality({p \in S : p < q}) = n - 1
<1>1. C \in Nat
  BY FS_CardinalityType
<1>2. PICK M \in Nat : \A q \in S : q < M
  BY FiniteHasBound
<1>3. CountBelow(S, M) = C
  <2>1. {r \in S : r < M} = S
    BY <1>2
  <2>2. QED
    BY <2>1 DEF CountBelow
<1>4. \A n \in 1 .. C : Nth(n) \in S /\ CountBelow(S, Nth(n)) = n - 1
  <2> SUFFICES ASSUME NEW n \in 1 .. C PROVE Nth(n) \in S /\ CountBelow(S, Nth(n)) = n - 1
    OBVIOUS
  <2>1. n - 1 \in 0 .. CountBelow(S, M) - 1
    BY <1>1, <1>3
  <2>2. \E q \in S : q < M /\ n - 1 = CountBelow(S, q)
    BY <2>1, CountReaches
  <2>3. \E q \in S : Cardinality({p \in S : p < q}) = n - 1
    BY <2>2 DEF CountBelow
  <2>4. QED
    BY <2>3 DEF CountBelow
<1> HIDE DEF C
<1>5. \A n \in 1 .. C : Nth(n) \in Nat
  BY <1>4
<1>6. \A q, r \in S : q < r => CountBelow(S, q) < CountBelow(S, r)
  BY CountGrows
<1>7. \A q \in S : q \in Nat /\ CountBelow(S, q) \in Nat /\ CountBelow(S, q) < C
  <2> SUFFICES ASSUME NEW q \in S PROVE q \in Nat /\ CountBelow(S, q) \in Nat /\ CountBelow(S, q) < C
    OBVIOUS
  <2>1. q \in Nat /\ q < M
    BY <1>2
  <2>2. CountBelow(S, q) < CountBelow(S, M)
    BY <2>1, CountGrows
  <2>3. CountBelow(S, q) \in Nat
    BY <2>1, CountIsNumber
  <2>4. QED
    BY <1>3, <2>1, <2>2, <2>3
<1>8. \A n, k \in 1 .. C : n < k => Nth(n) < Nth(k)
  <2> SUFFICES ASSUME NEW n \in 1 .. C, NEW k \in 1 .. C, n < k PROVE Nth(n) < Nth(k)
    OBVIOUS
  <2>1. PICK q \in S : q = Nth(n) /\ CountBelow(S, q) = n - 1
    BY <1>4
  <2>2. PICK r \in S : r = Nth(k) /\ CountBelow(S, r) = k - 1
    BY <1>4
  <2>3. ~(r < q)
    <3>1. r < q => CountBelow(S, r) < CountBelow(S, q)
      BY <1>6
    <3>2. QED
      BY <1>1, <2>1, <2>2, <3>1
  <2>4. n \in Nat /\ k \in Nat /\ n - 1 # k - 1
    BY <1>1
  <2>5. r # q
    BY <2>1, <2>2, <2>4
  <2>6. q \in Nat /\ r \in Nat
    OBVIOUS
  <2>7. q < r
    BY <2>3, <2>5, <2>6
  <2>8. QED
    BY <2>1, <2>2, <2>7
<1>9. \A q \in S : \E n \in 1 .. C : q = Nth(n)
  <2> SUFFICES ASSUME NEW q \in S PROVE \E n \in 1 .. C : q = Nth(n)
    OBVIOUS
  <2>1. PICK n \in 1 .. C : n = CountBelow(S, q) + 1
    BY <1>1, <1>7
  <2>2. PICK r \in S : r = Nth(n) /\ CountBelow(S, r) = n - 1
    BY <1>4
  <2>3. CountBelow(S, r) = CountBelow(S, q) /\ CountBelow(S, q) \in Nat
    BY <1>7, <2>1, <2>2
  <2>4. r = q
    <3>1. r \in Nat /\ q \in Nat
      OBVIOUS
    <3>2. ~(r < q) /\ ~(q < r)
      BY <1>6, <2>3
    <3>3. QED
      BY <3>1, <3>2
  <2>5. QED
    BY <2>2, <2>4
<1> DEFINE EqOf(f) == f = [n \in 0 .. C |-> IF n = 0 THEN << >> ELSE Append(f[n - 1], Nth(n))]
           listed == CHOOSE f : EqOf(f)
           F == [n \in 1 .. C |-> [w \in Seq(Nat) |-> Append(w, Nth(n))]]
<1>10. ascending(S) = listed[C]
  BY DEF ascending, C
<1> HIDE DEF Nth
<1>11. IsStepwise(Seq(Nat), C, F)
  <2>1. \A n \in 1 .. C : \A w \in Seq(Nat) : Append(w, Nth(n)) \in Seq(Nat)
    BY <1>5, AppendProperties
  <2>2. QED
    BY <1>1, <2>1 DEF IsStepwise
<1>12. PICK f : IsRecursion(Seq(Nat), C, << >>, F, f)
  <2> HIDE DEF F
  <2>1. << >> \in Seq(Nat)
    OBVIOUS
  <2>2. QED
    BY <1>1, <1>11, <2>1, RecursionExists
<1>13. EqOf(f)
  <2>1. f \in [0 .. C -> Seq(Nat)] /\ f[0] = << >> /\ \A n \in 1 .. C : f[n] = F[n][f[n - 1]]
    BY <1>12 DEF IsRecursion
  <2>2. \A n \in 0 .. C : f[n] = IF n = 0 THEN << >> ELSE Append(f[n - 1], Nth(n))
    <3> SUFFICES ASSUME NEW n \in 0 .. C, n # 0 PROVE f[n] = Append(f[n - 1], Nth(n))
      BY <2>1
    <3>1. n \in 1 .. C /\ n - 1 \in 0 .. C
      BY <1>1
    <3>2. QED
      BY <2>1, <3>1
  <2>3. QED
    BY <2>1, <2>2
<1>14. EqOf(listed)
  <2> HIDE DEF EqOf
  <2>1. QED
    BY <1>13
<1> HIDE DEF listed
<1> DEFINE T == {n \in Nat : n <= C =>
                   /\ listed[n] \in Seq(Nat) /\ Len(listed[n]) = n
                   /\ \A k \in 1 .. n : listed[n][k] = Nth(k)}
<1>15. 0 \in T
  <2>1. listed[0] = << >>
    BY <1>1, <1>14
  <2>2. << >> \in Seq(Nat) /\ Len(<< >>) = 0 /\ 1 .. 0 = {}
    OBVIOUS
  <2>3. QED
    BY <2>1, <2>2
<1>16. ASSUME NEW n \in Nat, n \in T PROVE n + 1 \in T
  <2> SUFFICES ASSUME n + 1 <= C
               PROVE  /\ listed[n + 1] \in Seq(Nat) /\ Len(listed[n + 1]) = n + 1
                      /\ \A k \in 1 .. n + 1 : listed[n + 1][k] = Nth(k)
    OBVIOUS
  <2>1. n + 1 \in 0 .. C /\ n + 1 # 0 /\ (n + 1) - 1 = n /\ n + 1 \in 1 .. C /\ n <= C
    BY <1>1
  <2>2. listed[n + 1] = Append(listed[n], Nth(n + 1))
    BY <1>14, <2>1
  <2>3. PICK w \in Seq(Nat) : w = listed[n] /\ Len(w) = n /\ \A k \in 1 .. n : w[k] = Nth(k)
    BY <1>16, <2>1
  <2>4. PICK x \in Nat : x = Nth(n + 1)
    BY <1>5, <2>1
  <2>5. /\ Append(w, x) \in Seq(Nat) /\ Len(Append(w, x)) = Len(w) + 1
        /\ \A k \in 1 .. Len(w) : Append(w, x)[k] = w[k]
        /\ Append(w, x)[Len(w) + 1] = x
    BY AppendProperties
  <2>6. \A k \in 1 .. n + 1 : k \in 1 .. n \/ k = n + 1
    OBVIOUS
  <2>7. \A k \in 1 .. n + 1 : Append(w, x)[k] = Nth(k)
    BY <2>3, <2>4, <2>5, <2>6
  <2>8. QED
    BY <2>2, <2>3, <2>4, <2>5, <2>7
<1>17. C \in T
  <2> HIDE DEF T
  <2>1. QED
    BY <1>1, <1>15, <1>16, SetInduction
<1>18. PICK w \in Seq(Nat) : w = ascending(S) /\ Len(w) = C /\ \A k \in 1 .. C : w[k] = Nth(k)
  BY <1>10, <1>17, <1>1
<1>19. is_sorted(w)
  <2>1. \A n \in 1 .. C - 1 : n \in 1 .. C /\ n + 1 \in 1 .. C /\ n < n + 1
    BY <1>1
  <2>2. QED
    BY <1>8, <1>18, <2>1 DEF is_sorted
<1>20. ElementsOf(w) = S
  <2>1. DOMAIN w = 1 .. C
    BY <1>18, LenProperties
  <2>2. \A x \in ElementsOf(w) : x \in S
    BY <1>4, <1>18, <2>1 DEF ElementsOf
  <2>3. \A q \in S : q \in ElementsOf(w)
    <3> SUFFICES ASSUME NEW q \in S PROVE q \in ElementsOf(w)
      OBVIOUS
    <3>1. PICK n \in 1 .. C : q = Nth(n)
      BY <1>9
    <3>2. n \in DOMAIN w /\ w[n] = q
      BY <1>18, <2>1, <3>1
    <3>3. QED
      BY <3>2 DEF ElementsOf
  <2>4. QED
    BY <2>2, <2>3
<1>21. QED
  BY <1>18, <1>19, <1>20 DEF IsVector

------------------------------------------------------------------------------
(* The moves of a state post, one after the other.                          *)

LEMMA ElementsOfConcat ==
  ASSUME NEW S, NEW s \in Seq(S), NEW t \in Seq(S)
  PROVE  s \o t \in Seq(S) /\ ElementsOf(s \o t) = ElementsOf(s) \cup ElementsOf(t)
<1>1. /\ s \o t \in Seq(S) /\ Len(s \o t) = Len(s) + Len(t)
      /\ \A k \in 1 .. Len(s) + Len(t) : (s \o t)[k] = IF k <= Len(s) THEN s[k] ELSE t[k - Len(s)]
  BY ConcatProperties
<1> DEFINE w == s \o t
<1>2. /\ Len(s) \in Nat /\ DOMAIN s = 1 .. Len(s) /\ Len(t) \in Nat /\ DOMAIN t = 1 .. Len(t)
  BY LenProperties
<1>3. DOMAIN w = 1 .. Len(s) + Len(t)
  BY <1>1, LenProperties
<1>4. \A k \in 1 .. Len(s) + Len(t) : w[k] = IF k <= Len(s) THEN s[k] ELSE t[k - Len(s)]
  BY <1>1
<1> HIDE DEF w
<1>5. ASSUME NEW x \in ElementsOf(w) PROVE x \in ElementsOf(s) \cup ElementsOf(t)
  <2>1. PICK k \in 1 .. Len(s) + Len(t) : x = w[k]
    BY <1>3 DEF ElementsOf
  <2>2. CASE k <= Len(s)
    <3>1. k \in 1 .. Len(s)
      BY <1>2, <2>2
    <3>2. QED
      BY <1>2, <1>4, <2>1, <2>2, <3>1 DEF ElementsOf
  <2>3. CASE ~(k <= Len(s))
    <3>1. k - Len(s) \in 1 .. Len(t)
      BY <1>2, <2>3
    <3>2. QED
      BY <1>2, <1>4, <2>1, <2>3, <3>1 DEF ElementsOf
  <2>4. QED
    BY <2>2, <2>3
<1>6. ASSUME NEW x \in ElementsOf(s) PROVE x \in ElementsOf(w)
  <2>1. PICK k \in 1 .. Len(s) : x = s[k]
    BY <1>2 DEF ElementsOf
  <2>2. k \in 1 .. Len(s) + Len(t) /\ k <= Len(s)
    BY <1>2
  <2>3. w[k] = x
    BY <1>4, <2>1, <2>2
  <2>4. QED
    BY <1>3, <2>2, <2>3 DEF ElementsOf
<1>7. ASSUME NEW x \in ElementsOf(t) PROVE x \in ElementsOf(w)
  <2>1. PICK k \in 1 .. Len(t) : x = t[k]
    BY <1>2 DEF ElementsOf
  <2>2. k + Len(s) \in 1 .. Len(s) + Len(t) /\ ~(k + Len(s) <= Len(s)) /\ (k + Len(s)) - Len(s) = k
    BY <1>2
  <2>3. w[k + Len(s)] = x
    BY <1>4, <2>1, <2>2
  <2>4. QED
    BY <1>3, <2>2, <2>3 DEF ElementsOf
<1>8. ElementsOf(w) = ElementsOf(s) \cup ElementsOf(t)
  BY <1>5, <1>6, <1>7
<1>9. QED
  BY <1>1, <1>8 DEF w

LEMMA ElementsOfFront ==
  ASSUME NEW S, NEW x \in S, NEW t \in Seq(S)
  PROVE  <<x>> \o t \in Seq(S) /\ ElementsOf(<<x>> \o t) = {x} \cup ElementsOf(t)
<1>1. <<x>> \in Seq(S)
  OBVIOUS
<1>2. ElementsOf(<<x>>) = {x}
  BY DEF ElementsOf
<1>3. PICK s \in Seq(S) : s = <<x>>
  BY <1>1
<1>4. s \o t \in Seq(S) /\ ElementsOf(s \o t) = ElementsOf(s) \cup ElementsOf(t)
  BY ElementsOfConcat
<1>5. QED
  BY <1>2, <1>3, <1>4

(* The iterator as a function of the position it stands at.                 *)
Walks(p, at) ==
  at = [here \in Positions(p) \X Nat |->
          LET n == here[1]
              k == here[2]
          IN IF n >= Len(p) + 1 THEN << >>
             ELSE <<<<p[n].symbol, p[n].targets[k]>>>>
                  \o at[IF k < Len(p[n].targets) THEN <<n, k + 1>> ELSE <<n + 1, 1>>]]

(* The part of it that reads the targets of one symbol.                     *)
IsRow(h, V, L, c, r) ==
  h \in [Nat -> Seq(V)] /\ \A k \in Nat : h[k] = <<c[k]>> \o (IF k < L THEN h[k + 1] ELSE r)

LEMMA RowExists ==
  ASSUME NEW V, NEW L \in Nat, NEW c \in [Nat -> V], NEW r \in Seq(V)
  PROVE  \E h : IsRow(h, V, L, c, r)
<1> DEFINE Holds(h, k) == h[k] = <<c[k]>> \o (IF k < L THEN h[k + 1] ELSE r)
           Filled(j) == \E h \in [Nat -> Seq(V)] : \A k \in Nat : k >= L - j => Holds(h, k)
           T == {j \in Nat : j <= L => Filled(j)}
<1>1. \A x \in V : \A s \in Seq(V) : <<x>> \o s \in Seq(V)
  BY ElementsOfFront
<1>2. 0 \in T
  <2> DEFINE h == [k \in Nat |-> <<c[k]>> \o r]
  <2>1. h \in [Nat -> Seq(V)]
    BY <1>1
  <2>2. \A k \in Nat : k >= L - 0 => Holds(h, k)
    OBVIOUS
  <2> HIDE DEF h, Holds
  <2>3. QED
    BY <2>1, <2>2
<1>3. ASSUME NEW j \in Nat, j \in T PROVE j + 1 \in T
  <2> HIDE DEF Filled
  <2> SUFFICES ASSUME j + 1 <= L PROVE Filled(j + 1)
    OBVIOUS
  <2> USE DEF Filled
  <2>1. PICK g \in [Nat -> Seq(V)] : \A k \in Nat : k >= L - j => Holds(g, k)
    <3> HIDE DEF Holds
    <3>1. j <= L
      OBVIOUS
    <3>2. QED
      BY <1>3, <3>1
  <2>2. PICK i \in Nat : i = L - (j + 1)
    OBVIOUS
  <2> DEFINE h == [k \in Nat |-> IF k = i THEN <<c[i]>> \o g[i + 1] ELSE g[k]]
  <2>3. h \in [Nat -> Seq(V)]
    BY <1>1
  <2>4. ASSUME NEW k \in Nat, k >= L - (j + 1) PROVE Holds(h, k)
    <3>1. CASE k = i
      <4>1. k < L /\ k + 1 # i /\ k + 1 \in Nat
        BY <2>2, <3>1
      <4>2. h[k] = <<c[k]>> \o g[k + 1] /\ h[k + 1] = g[k + 1]
        BY <3>1, <4>1
      <4> HIDE DEF h
      <4>3. QED
        BY <4>1, <4>2
    <3>2. CASE k # i
      <4>1. k >= L - j /\ k + 1 # i /\ k + 1 \in Nat
        BY <2>2, <2>4, <3>2
      <4>2. h[k] = g[k] /\ h[k + 1] = g[k + 1]
        BY <3>2, <4>1
      <4>3. Holds(g, k)
        BY <2>1, <4>1
      <4> HIDE DEF h
      <4>4. QED
        BY <4>2, <4>3
    <3>3. QED
      BY <3>1, <3>2
  <2> HIDE DEF h, Holds
  <2>5. QED
    BY <2>3, <2>4
<1>4. L \in T
  <2> HIDE DEF T
  <2>1. QED
    BY <1>2, <1>3, SetInduction
<1>5. PICK h \in [Nat -> Seq(V)] : \A k \in Nat : k >= L - L => Holds(h, k)
  <2> HIDE DEF Holds
  <2>1. L <= L
    OBVIOUS
  <2>2. QED
    BY <1>4, <2>1
<1>6. \A k \in Nat : Holds(h, k)
  <2>1. \A k \in Nat : k >= L - L
    OBVIOUS
  <2> HIDE DEF Holds
  <2>2. QED
    BY <1>5, <2>1
<1>7. IsRow(h, V, L, c, r)
  BY <1>6 DEF IsRow
<1>8. QED
  BY <1>7

LEMMA WalkExists ==
  ASSUME NEW p, IsPost(p)
  PROVE  \E at : Walks(p, at)
<1>1. Len(p) \in Nat /\ p \in Seq(SymbolPosts)
  BY SymbolsAre DEF IsPost
<1>2. \A n \in 1 .. Len(p) : Len(p[n].targets) \in Nat
  BY LenProperties DEF IsPost, HasTargets, IsVector
<1> DEFINE E == Len(p) + 1
           c(n, k) == <<p[n].symbol, p[n].targets[k]>>
           V == {c(n, k) : n \in 1 .. Len(p), k \in Nat}
           D == 1 .. E
           Holds(g, n, k) ==
             g[n][k] = IF n >= E THEN << >>
                       ELSE <<c(n, k)>> \o (IF k < Len(p[n].targets) THEN g[n][k + 1] ELSE g[n + 1][1])
           T == {j \in Nat : j <= Len(p) => \E g \in [D -> [Nat -> Seq(V)]] :
                               \A n \in D : n >= E - j => \A k \in Nat : Holds(g, n, k)}
<1>3. \A n \in 1 .. Len(p) : \A k \in Nat : c(n, k) \in V
  OBVIOUS
<1>4. D = Positions(p) /\ E \in Nat /\ E \in D
  BY <1>1 DEF Positions
<1> HIDE DEF V, c
<1>5. 0 \in T
  <2> DEFINE g == [n \in D |-> [k \in Nat |-> << >>]]
  <2>1. << >> \in Seq(V)
    OBVIOUS
  <2>2. g \in [D -> [Nat -> Seq(V)]]
    BY <2>1
  <2>3. \A n \in D : n >= E - 0 => \A k \in Nat : Holds(g, n, k)
    BY <1>4
  <2> HIDE DEF g, Holds
  <2>4. QED
    BY <2>2, <2>3
<1>6. ASSUME NEW j \in Nat, j \in T PROVE j + 1 \in T
  <2> SUFFICES ASSUME j + 1 <= Len(p)
               PROVE  \E g \in [D -> [Nat -> Seq(V)]] :
                        \A n \in D : n >= E - (j + 1) => \A k \in Nat : Holds(g, n, k)
    OBVIOUS
  <2>1. PICK g \in [D -> [Nat -> Seq(V)]] : \A n \in D : n >= E - j => \A k \in Nat : Holds(g, n, k)
    <3> HIDE DEF Holds
    <3>1. j <= Len(p)
      BY <1>1
    <3>2. QED
      BY <1>6, <3>1
  <2>2. PICK i \in 1 .. Len(p) : i = E - (j + 1)
    <3>1. E - (j + 1) \in 1 .. Len(p)
      BY <1>1
    <3>2. QED
      BY <3>1
  <2>3. i \in D /\ i + 1 \in D /\ i + 1 # i /\ i < E /\ ~(i >= E)
    BY <1>1, <2>2
  <2>4. [k \in Nat |-> c(i, k)] \in [Nat -> V] /\ g[i + 1][1] \in Seq(V) /\ Len(p[i].targets) \in Nat
    BY <1>2, <1>3, <2>3
  <2>5. PICK h \in [Nat -> Seq(V)] :
          \A k \in Nat : h[k] = <<[m \in Nat |-> c(i, m)][k]>>
                                \o (IF k < Len(p[i].targets) THEN h[k + 1] ELSE g[i + 1][1])
    <3>1. PICK L \in Nat : L = Len(p[i].targets)
      BY <2>4
    <3>2. PICK r \in Seq(V) : r = g[i + 1][1]
      BY <2>4
    <3>3. PICK row \in [Nat -> V] : row = [k \in Nat |-> c(i, k)]
      BY <2>4
    <3>4. PICK h : IsRow(h, V, L, row, r)
      BY RowExists
    <3>5. QED
      BY <3>1, <3>2, <3>3, <3>4 DEF IsRow
  <2> DEFINE f == [n \in D |-> IF n = i THEN h ELSE g[n]]
  <2>6. f \in [D -> [Nat -> Seq(V)]]
    OBVIOUS
  <2>7. f[i] = h /\ f[i + 1] = g[i + 1]
    BY <2>3
  <2>8. \A n \in D : n # i => f[n] = g[n]
    OBVIOUS
  <2> HIDE DEF f
  <2>9. ASSUME NEW n \in D, n >= E - (j + 1), NEW k \in Nat PROVE Holds(f, n, k)
    <3>1. CASE n = i
      BY <2>3, <2>5, <2>7, <3>1
    <3>2. CASE n # i
      <4>1. n >= E - j /\ n \in Nat
        <5>1. n \in 1 .. E /\ n >= E - (j + 1) /\ n # E - (j + 1) /\ E \in Nat
          BY <1>4, <2>2, <2>9, <3>2
        <5> HIDE DEF E
        <5>2. QED
          BY <5>1
      <4>2. Holds(g, n, k)
        BY <2>1, <4>1
      <4>3. n < E => n + 1 \in D /\ n + 1 # i
        <5>1. n \in Nat /\ n >= 1 /\ i \in Nat /\ i = E - (j + 1) /\ n >= E - j /\ E \in Nat
          BY <1>4, <2>2, <4>1
        <5> HIDE DEF E
        <5>2. QED
          BY <5>1
      <4>4. f[n] = g[n] /\ (n < E => f[n + 1] = g[n + 1])
        BY <2>8, <3>2, <4>3
      <4>5. n >= E \/ n < E
        BY <1>1, <4>1
      <4>6. QED
        BY <4>2, <4>4, <4>5
    <3>3. QED
      BY <3>1, <3>2
  <2> HIDE DEF Holds
  <2>10. QED
    BY <2>6, <2>9
<1>7. Len(p) \in T
  <2> HIDE DEF T
  <2>1. QED
    BY <1>1, <1>5, <1>6, SetInduction
<1>8. PICK g \in [D -> [Nat -> Seq(V)]] : \A n \in D : n >= E - Len(p) => \A k \in Nat : Holds(g, n, k)
  <2> HIDE DEF Holds
  <2>1. QED
    BY <1>7
<1>9. \A n \in D : \A k \in Nat : Holds(g, n, k)
  <2>1. \A n \in D : n >= E - Len(p)
    BY <1>1
  <2> HIDE DEF Holds
  <2>2. QED
    BY <1>8, <2>1
<1> DEFINE at == [here \in Positions(p) \X Nat |-> g[here[1]][here[2]]]
<1>10. \A n \in Positions(p) : \A k \in Nat : at[<<n, k>>] = g[n][k]
  OBVIOUS
<1>11. ASSUME NEW here \in Positions(p) \X Nat
       PROVE  at[here] = LET n == here[1]
                             k == here[2]
                         IN IF n >= Len(p) + 1 THEN << >>
                            ELSE <<<<p[n].symbol, p[n].targets[k]>>>>
                                 \o at[IF k < Len(p[n].targets) THEN <<n, k + 1>> ELSE <<n + 1, 1>>]
  <2>1. PICK n \in Positions(p), k \in Nat : here = <<n, k>>
    OBVIOUS
  <2>2. Holds(g, n, k)
    BY <1>4, <1>9
  <2>3. k + 1 \in Nat /\ 1 \in Nat
    OBVIOUS
  <2>4. ~(n >= Len(p) + 1) => n + 1 \in Positions(p)
    BY <1>1 DEF Positions
  <2> HIDE DEF at
  <2>5. at[<<n, k>>] = g[n][k] /\ at[<<n, k + 1>>] = g[n][k + 1]
    BY <1>10, <2>3
  <2>6. ~(n >= Len(p) + 1) => at[<<n + 1, 1>>] = g[n + 1][1]
    BY <1>10, <2>3, <2>4
  <2>7. g[n][k] = IF n >= Len(p) + 1 THEN << >>
                  ELSE <<c(n, k)>> \o at[IF k < Len(p[n].targets) THEN <<n, k + 1>> ELSE <<n + 1, 1>>]
    <3>1. CASE n >= Len(p) + 1
      BY <2>2, <3>1
    <3>2. CASE ~(n >= Len(p) + 1) /\ k < Len(p[n].targets)
      BY <2>2, <2>5, <3>2
    <3>3. CASE ~(n >= Len(p) + 1) /\ ~(k < Len(p[n].targets))
      BY <2>2, <2>6, <3>3
    <3>4. QED
      BY <3>1, <3>2, <3>3
  <2>8. here[1] = n /\ here[2] = k
    BY <2>1
  <2>9. QED
    BY <2>1, <2>5, <2>7, <2>8 DEF c
<1>12. Walks(p, at)
  <2>1. at = [here \in Positions(p) \X Nat |-> at[here]]
    OBVIOUS
  <2> HIDE DEF at
  <2>2. QED
    BY <1>11, <2>1 DEF Walks
<1>13. QED
  BY <1>12

(* What any such walk reads, from where it stands.                          *)
Ahead(p, n, k) == {<<p[n].symbol, p[n].targets[j]>> : j \in k .. Len(p[n].targets)}
MovesFromSymbol(p, n) == {m \in Nat \X Nat : \E i \in n .. Len(p) : m[1] = p[i].symbol /\ m[2] \in ElementsOf(p[i].targets)}

LEMMA WalkReads ==
  ASSUME NEW p, IsPost(p), NEW at, Walks(p, at)
  PROVE  at[<<1, 1>>] \in Seq(Nat \X Nat) /\ ElementsOf(at[<<1, 1>>]) = {m \in Nat \X Nat : HasMove(p, m[1], m[2])}
<1>1. Len(p) \in Nat /\ p \in Seq(SymbolPosts) /\ \A n \in 1 .. Len(p) : p[n].symbol \in Nat
  BY SymbolsAre DEF IsPost
<1>2. \A n \in 1 .. Len(p) : /\ Len(p[n].targets) \in Nat /\ DOMAIN p[n].targets = 1 .. Len(p[n].targets)
                             /\ \A k \in 1 .. Len(p[n].targets) : p[n].targets[k] \in Nat
  BY LenProperties DEF IsPost, HasTargets, IsVector
<1>3. \A n \in 1 .. Len(p) : Len(p[n].targets) >= 1
  <2> SUFFICES ASSUME NEW n \in 1 .. Len(p) PROVE Len(p[n].targets) >= 1
    OBVIOUS
  <2>1. p[n].targets \in Seq(Nat) /\ p[n].targets # << >>
    BY DEF IsPost, HasTargets, IsVector
  <2>2. Len(p[n].targets) # 0 /\ Len(p[n].targets) \in Nat
    BY <2>1, EmptySeq, LenProperties
  <2>3. QED
    BY <2>2
<1>4. \A n \in 1 .. Len(p) + 1 : \A k \in Nat :
         at[<<n, k>>] = IF n >= Len(p) + 1 THEN << >>
                    ELSE <<<<p[n].symbol, p[n].targets[k]>>>>
                         \o at[IF k < Len(p[n].targets) THEN <<n, k + 1>> ELSE <<n + 1, 1>>]
  <2> SUFFICES ASSUME NEW n \in 1 .. Len(p) + 1, NEW k \in Nat
               PROVE  at[<<n, k>>] = IF n >= Len(p) + 1 THEN << >>
                                     ELSE <<<<p[n].symbol, p[n].targets[k]>>>>
                                          \o at[IF k < Len(p[n].targets) THEN <<n, k + 1>> ELSE <<n + 1, 1>>]
    OBVIOUS
  <2>1. <<n, k>> \in Positions(p) \X Nat
    BY DEF Positions
  <2>2. QED
    BY <2>1 DEF Walks
<1> DEFINE Good(n) == /\ at[<<n, 1>>] \in Seq(Nat \X Nat)
                      /\ ElementsOf(at[<<n, 1>>]) = MovesFromSymbol(p, n)
           T == {j \in Nat : j <= Len(p) => Good(Len(p) + 1 - j)}
<1>5. 0 \in T
  <2>1. Len(p) + 1 \in 1 .. Len(p) + 1 /\ Len(p) + 1 - 0 = Len(p) + 1 /\ Len(p) + 1 >= Len(p) + 1
    BY <1>1
  <2>2. at[<<Len(p) + 1, 1>>] = << >>
    BY <1>4, <2>1
  <2>3. MovesFromSymbol(p, Len(p) + 1) = {}
    <3>1. Len(p) + 1 .. Len(p) = {}
      BY <1>1
    <3>2. QED
      BY <3>1 DEF MovesFromSymbol
  <2>4. ElementsOf(<< >>) = {} /\ << >> \in Seq(Nat \X Nat)
    BY EmptyIsVector
  <2>5. Good(Len(p) + 1)
    BY <2>2, <2>3, <2>4
  <2> HIDE DEF Good
  <2>6. QED
    BY <2>1, <2>5
<1>6. ASSUME NEW i \in Nat, i \in T PROVE i + 1 \in T
  <2> HIDE DEF Good
  <2> SUFFICES ASSUME i + 1 <= Len(p) PROVE Good(Len(p) + 1 - (i + 1))
    OBVIOUS
  <2> USE DEF Good
  <2>1. PICK n \in 1 .. Len(p) : n = Len(p) + 1 - (i + 1)
    BY <1>1
  <2>2. n \in 1 .. Len(p) + 1 /\ n + 1 = Len(p) + 1 - i /\ ~(n >= Len(p) + 1) /\ i <= Len(p)
    BY <1>1, <2>1
  <2>3. Good(n + 1)
    <3> HIDE DEF Good
    <3>1. QED
      BY <1>6, <2>2
  <2> DEFINE L == Len(p[n].targets)
             Fine(k) == /\ at[<<n, k>>] \in Seq(Nat \X Nat)
                        /\ ElementsOf(at[<<n, k>>]) = Ahead(p, n, k) \cup MovesFromSymbol(p, n + 1)
             R == {j \in Nat : j < L => Fine(L - j)}
  <2>4. L \in Nat /\ L >= 1 /\ \A k \in 1 .. L : p[n].targets[k] \in Nat
    BY <1>2, <1>3
  <2> HIDE DEF L
  <2>5. \A k \in Nat : at[<<n, k>>] = <<<<p[n].symbol, p[n].targets[k]>>>>
                                  \o at[IF k < L THEN <<n, k + 1>> ELSE <<n + 1, 1>>]
    BY <1>4, <2>2 DEF L
  <2>6. \A k \in 1 .. L : <<p[n].symbol, p[n].targets[k]>> \in Nat \X Nat
    BY <1>1, <2>4
  <2>7. 0 \in R
    <3>1. L - 0 = L /\ L \in 1 .. L /\ ~(L < L) /\ L \in Nat
      BY <2>4
    <3>2. at[<<n, L>>] = <<<<p[n].symbol, p[n].targets[L]>>>> \o at[<<n + 1, 1>>]
      BY <2>5, <3>1
    <3>3. /\ at[<<n, L>>] \in Seq(Nat \X Nat)
          /\ ElementsOf(at[<<n, L>>]) = {<<p[n].symbol, p[n].targets[L]>>} \cup ElementsOf(at[<<n + 1, 1>>])
      <4>1. PICK x \in Nat \X Nat : x = <<p[n].symbol, p[n].targets[L]>>
        BY <2>6, <3>1
      <4>2. PICK t \in Seq(Nat \X Nat) : t = at[<<n + 1, 1>>]
        BY <2>3
      <4>3. <<x>> \o t \in Seq(Nat \X Nat) /\ ElementsOf(<<x>> \o t) = {x} \cup ElementsOf(t)
        BY ElementsOfFront
      <4>4. QED
        BY <3>2, <4>1, <4>2, <4>3
    <3>4. Ahead(p, n, L) = {<<p[n].symbol, p[n].targets[L]>>}
      <4>1. L .. L = {L}
        BY <2>4
      <4>2. QED
        BY <4>1 DEF Ahead, L
    <3>5. Fine(L)
      BY <2>3, <3>3, <3>4
    <3> HIDE DEF Fine
    <3>6. QED
      BY <3>1, <3>5
  <2>8. ASSUME NEW j \in Nat, j \in R PROVE j + 1 \in R
    <3> HIDE DEF Fine
    <3> SUFFICES ASSUME j + 1 < L PROVE Fine(L - (j + 1))
      OBVIOUS
    <3> USE DEF Fine
    <3>1. PICK k \in 1 .. L : k = L - (j + 1)
      BY <2>4
    <3>2. k \in Nat /\ k < L /\ k + 1 = L - j /\ j < L
      BY <2>4, <3>1
    <3>3. Fine(k + 1)
      <4> HIDE DEF Fine
      <4>1. QED
        BY <2>8, <3>2
    <3>4. at[<<n, k>>] = <<<<p[n].symbol, p[n].targets[k]>>>> \o at[<<n, k + 1>>]
      BY <2>5, <3>2
    <3>5. /\ at[<<n, k>>] \in Seq(Nat \X Nat)
          /\ ElementsOf(at[<<n, k>>]) = {<<p[n].symbol, p[n].targets[k]>>} \cup ElementsOf(at[<<n, k + 1>>])
      <4>1. PICK x \in Nat \X Nat : x = <<p[n].symbol, p[n].targets[k]>>
        BY <2>6
      <4>2. PICK t \in Seq(Nat \X Nat) : t = at[<<n, k + 1>>]
        BY <3>3
      <4>3. <<x>> \o t \in Seq(Nat \X Nat) /\ ElementsOf(<<x>> \o t) = {x} \cup ElementsOf(t)
        BY ElementsOfFront
      <4>4. QED
        BY <3>4, <4>1, <4>2, <4>3
    <3>6. Ahead(p, n, k) = {<<p[n].symbol, p[n].targets[k]>>} \cup Ahead(p, n, k + 1)
      <4>1. k .. L = {k} \cup (k + 1 .. L)
        BY <2>4, <3>2
      <4>2. QED
        BY <4>1 DEF Ahead, L
    <3>7. Fine(k)
      BY <3>3, <3>5, <3>6
    <3> HIDE DEF Fine
    <3>8. QED
      BY <3>1, <3>7
  <2>9. L - 1 \in R
    <3> HIDE DEF R
    <3>1. Nat \subseteq R
      BY <2>7, <2>8, SetInduction
    <3>2. QED
      BY <2>4, <3>1
  <2>10. Fine(1)
    <3> HIDE DEF Fine
    <3>1. L - (L - 1) = 1 /\ L - 1 < L
      BY <2>4
    <3>2. QED
      BY <2>9, <3>1
  <2>11. Ahead(p, n, 1) \cup MovesFromSymbol(p, n + 1) = MovesFromSymbol(p, n)
    <3>1. \A k : k \in n .. Len(p) <=> k = n \/ k \in n + 1 .. Len(p)
      BY <1>1, <2>1
    <3>2. DOMAIN p[n].targets = 1 .. L
      BY <1>2 DEF L
    <3>3. Ahead(p, n, 1) = {m \in Nat \X Nat : m[1] = p[n].symbol /\ m[2] \in ElementsOf(p[n].targets)}
      <4>1. \A m \in Ahead(p, n, 1) : m \in Nat \X Nat /\ m[1] = p[n].symbol /\ m[2] \in ElementsOf(p[n].targets)
        BY <2>6, <3>2 DEF Ahead, ElementsOf, L
      <4>2. ASSUME NEW m \in Nat \X Nat, m[1] = p[n].symbol, m[2] \in ElementsOf(p[n].targets)
            PROVE  m \in Ahead(p, n, 1)
        <5>1. PICK k \in 1 .. L : m[2] = p[n].targets[k]
          BY <3>2, <4>2 DEF ElementsOf
        <5>2. m = <<m[1], m[2]>>
          OBVIOUS
        <5>3. QED
          BY <4>2, <5>1, <5>2 DEF Ahead, L
      <4>3. QED
        BY <4>1, <4>2
    <3>4. QED
      BY <3>1, <3>3 DEF MovesFromSymbol
  <2>12. Good(n)
    BY <2>10, <2>11
  <2> HIDE DEF Good
  <2>13. QED
    BY <2>1, <2>12
<1>7. Len(p) \in T
  <2> HIDE DEF T
  <2>1. QED
    BY <1>1, <1>5, <1>6, SetInduction
<1>8. Good(1)
  <2> HIDE DEF Good
  <2>1. Len(p) + 1 - Len(p) = 1 /\ Len(p) <= Len(p)
    BY <1>1
  <2>2. QED
    BY <1>7, <2>1
<1>9. MovesFromSymbol(p, 1) = {m \in Nat \X Nat : HasMove(p, m[1], m[2])}
  BY DEF MovesFromSymbol, HasMove
<1>10. QED
  BY <1>8, <1>9

LEMMA AllMovesAre ==
  ASSUME NEW p, IsPost(p)
  PROVE  /\ AllMoves(p) \in Seq(Nat \X Nat)
         /\ ElementsOf(AllMoves(p)) = {m \in Nat \X Nat : HasMove(p, m[1], m[2])}
<1> DEFINE at == CHOOSE g : Walks(p, g)
<1>1. AllMoves(p) = at[<<1, 1>>]
  BY DEF AllMoves, moves_of, Walks
<1>2. Walks(p, at)
  BY WalkExists
<1> HIDE DEF at
<1>3. QED
  BY <1>1, <1>2, WalkReads

------------------------------------------------------------------------------
(* The transitions to a state.                                              *)

Triples == Nat \X Nat \X Nat
MovesBetween(d, s, t) == {m \in MovesOf(d) : m[1] = s /\ m[3] = t}
MovesTo(d, t) == {m \in MovesOf(d) : m[3] = t}

LEMMA TransitionsBetweenAre ==
  ASSUME NEW d, IsRelation(d), NEW s \in Nat, NEW t \in Nat
  PROVE  /\ get_transitions_between(d, s, t) \in Seq(Triples)
         /\ ElementsOf(get_transitions_between(d, s, t)) = MovesBetween(d, s, t)
<1> DEFINE p == state_post(d, s)
           step(w, n) == IF contains(p[n].targets, t) THEN Append(w, <<s, p[n].symbol, t>>) ELSE w
           EqOf(f) == f = [n \in 0 .. Len(p) |-> IF n = 0 THEN << >> ELSE step(f[n - 1], n)]
           found == CHOOSE f : EqOf(f)
           F == [n \in 1 .. Len(p) |-> [w \in Seq(Triples) |-> step(w, n)]]
<1>1. IsPost(p) /\ \A a, u : HasMove(p, a, u) <=> MovedBy(d, s, a, u)
  BY StatePostIs
<1>2. get_transitions_between(d, s, t) = found[Len(p)]
  BY DEF get_transitions_between
<1> HIDE DEF p
<1>3. Len(p) \in Nat /\ \A n \in 1 .. Len(p) : p[n].symbol \in Nat /\ IsVector(p[n].targets)
  <2>1. p \in Seq(SymbolPosts) /\ \A n \in 1 .. Len(p) : IsVector(p[n].targets)
    BY <1>1 DEF IsPost, HasTargets
  <2>2. QED
    BY <2>1, SymbolsAre
<1>4. \A n \in 1 .. Len(p) : contains(p[n].targets, t) <=> t \in ElementsOf(p[n].targets)
  BY <1>3, ContainsIs
<1>5. \A n \in 1 .. Len(p) : <<s, p[n].symbol, t>> \in Triples
  BY <1>3 DEF Triples
<1>6. \A n \in 1 .. Len(p) : \A w \in Seq(Triples) : step(w, n) \in Seq(Triples)
  BY <1>5, AppendProperties
<1>7. IsStepwise(Seq(Triples), Len(p), F)
  <2> HIDE DEF step
  <2>1. QED
    BY <1>3, <1>6 DEF IsStepwise
<1>8. PICK f : IsRecursion(Seq(Triples), Len(p), << >>, F, f)
  <2> HIDE DEF F
  <2>1. << >> \in Seq(Triples)
    OBVIOUS
  <2>2. QED
    BY <1>3, <1>7, <2>1, RecursionExists
<1>9. EqOf(f)
  <2> HIDE DEF step
  <2>1. f \in [0 .. Len(p) -> Seq(Triples)] /\ f[0] = << >> /\ \A n \in 1 .. Len(p) : f[n] = F[n][f[n - 1]]
    BY <1>8 DEF IsRecursion
  <2>2. \A n \in 0 .. Len(p) : f[n] = IF n = 0 THEN << >> ELSE step(f[n - 1], n)
    <3> SUFFICES ASSUME NEW n \in 0 .. Len(p), n # 0 PROVE f[n] = step(f[n - 1], n)
      BY <2>1
    <3>1. n \in 1 .. Len(p) /\ n - 1 \in 0 .. Len(p)
      BY <1>3
    <3>2. QED
      BY <2>1, <3>1
  <2>3. QED
    BY <2>1, <2>2
<1>10. EqOf(found)
  <2> HIDE DEF EqOf
  <2>1. QED
    BY <1>9
<1> HIDE DEF found
<1> DEFINE Listed(n) == {m \in Triples : m[1] = s /\ m[3] = t
                         /\ \E k \in 1 .. n : m[2] = p[k].symbol /\ t \in ElementsOf(p[k].targets)}
           Good(n) == found[n] \in Seq(Triples) /\ ElementsOf(found[n]) = Listed(n)
           T == {n \in Nat : n <= Len(p) => Good(n)}
<1>11. 0 \in T
  <2>1. found[0] = << >>
    BY <1>3, <1>10
  <2>2. Listed(0) = {}
    OBVIOUS
  <2> HIDE DEF Listed
  <2>3. Good(0)
    <3>1. << >> \in Seq(Triples) /\ ElementsOf(<< >>) = {}
      BY EmptyIsVector
    <3>2. QED
      BY <2>1, <2>2, <3>1
  <2> HIDE DEF Good
  <2>4. QED
    BY <2>3
<1>12. ASSUME NEW n \in Nat, n \in T PROVE n + 1 \in T
  <2> HIDE DEF Good
  <2> SUFFICES ASSUME n + 1 <= Len(p) PROVE Good(n + 1)
    OBVIOUS
  <2>1. n + 1 \in 0 .. Len(p) /\ n + 1 # 0 /\ (n + 1) - 1 = n /\ n + 1 \in 1 .. Len(p) /\ n <= Len(p)
    BY <1>3
  <2>2. Good(n)
    BY <1>12, <2>1
  <2>3. found[n + 1] = step(found[n], n + 1)
    <3> HIDE DEF step
    <3>1. QED
      BY <1>10, <2>1
  <2>4. PICK w \in Seq(Triples) : w = found[n] /\ ElementsOf(w) = Listed(n)
    BY <2>2 DEF Good
  <2>5. PICK x \in Triples : x = <<s, p[n + 1].symbol, t>>
    BY <1>5, <2>1
  <2>6. \A k : k \in 1 .. n + 1 <=> k \in 1 .. n \/ k = n + 1
    OBVIOUS
  <2>7. CASE t \in ElementsOf(p[n + 1].targets)
    <3>1. found[n + 1] = Append(w, x)
      BY <1>4, <2>1, <2>3, <2>4, <2>5, <2>7
    <3>2. Append(w, x) \in Seq(Triples) /\ ElementsOf(Append(w, x)) = ElementsOf(w) \cup {x}
      <4>1. Append(w, x) = w \o <<x>>
        BY AppendIsConcat
      <4>2. PICK one \in Seq(Triples) : one = <<x>>
        <5>1. <<x>> \in Seq(Triples)
          OBVIOUS
        <5>2. QED
          BY <5>1
      <4>3. w \o one \in Seq(Triples) /\ ElementsOf(w \o one) = ElementsOf(w) \cup ElementsOf(one)
        BY ElementsOfConcat
      <4>4. ElementsOf(one) = {x}
        BY <4>2 DEF ElementsOf
      <4>5. QED
        BY <4>1, <4>2, <4>3, <4>4
    <3>3. Listed(n + 1) = Listed(n) \cup {x}
      <4>1. \A m \in Triples : m[1] = s /\ m[3] = t /\ m[2] = p[n + 1].symbol <=> m = x
        BY <2>5 DEF Triples
      <4>2. QED
        BY <2>6, <2>7, <4>1
    <3>4. QED
      BY <2>4, <3>1, <3>2, <3>3 DEF Good
  <2>8. CASE t \notin ElementsOf(p[n + 1].targets)
    <3>1. found[n + 1] = w
      BY <1>4, <2>1, <2>3, <2>4, <2>8
    <3>2. Listed(n + 1) = Listed(n)
      BY <2>6, <2>8
    <3>3. QED
      BY <2>4, <3>1, <3>2 DEF Good
  <2>9. QED
    BY <2>7, <2>8
<1>13. Good(Len(p))
  <2> HIDE DEF Good
  <2>1. Len(p) \in T
    <3> HIDE DEF T
    <3>1. QED
      BY <1>3, <1>11, <1>12, SetInduction
  <2>2. Len(p) <= Len(p)
    BY <1>3
  <2>3. QED
    BY <2>1, <2>2
<1>14. Listed(Len(p)) = {m \in MovesOf(d) : m[1] = s /\ m[3] = t}
  <2>1. ASSUME NEW m \in Listed(Len(p)) PROVE m \in MovesOf(d) /\ m[1] = s /\ m[3] = t
    <3>1. m = <<m[1], m[2], m[3]>> /\ m[1] = s /\ m[3] = t
      BY DEF Triples
    <3>2. HasMove(p, m[2], t)
      BY DEF HasMove
    <3>3. <<s, m[2], t>> \in MovesOf(d)
      BY <1>1, <3>2, MovesAre
    <3>4. QED
      BY <3>1, <3>3
  <2>2. ASSUME NEW m \in MovesOf(d), m[1] = s, m[3] = t PROVE m \in Listed(Len(p))
    <3>1. m \in Triples /\ m = <<s, m[2], t>>
      BY <2>2, MovesAre DEF Triples
    <3>2. HasMove(p, m[2], t)
      BY <1>1, <3>1, MovesAre
    <3>3. QED
      BY <2>2, <3>1, <3>2 DEF HasMove
  <2>3. QED
    BY <2>1, <2>2
<1>15. QED
  BY <1>2, <1>13, <1>14 DEF MovesBetween

LEMMA TransitionsToAre ==
  ASSUME NEW d, IsRelation(d), NEW t \in Nat
  PROVE  /\ get_transitions_to(d, t) \in Seq(Triples)
         /\ ElementsOf(get_transitions_to(d, t)) = MovesTo(d, t)
<1> DEFINE L == Len(d)
           between(q) == get_transitions_between(d, q - 1, t)
           EqOf(f) == f = [q \in 0 .. L |-> IF q = 0 THEN << >> ELSE f[q - 1] \o between(q)]
           found == CHOOSE f : EqOf(f)
           F == [q \in 1 .. L |-> [w \in Seq(Triples) |-> w \o between(q)]]
<1>1. L \in Nat
  BY RelationIs
<1>2. get_transitions_to(d, t) = found[L]
  BY DEF get_transitions_to
<1>3. \A q \in 1 .. L : /\ between(q) \in Seq(Triples)
                        /\ ElementsOf(between(q)) = {m \in MovesOf(d) : m[1] = q - 1 /\ m[3] = t}
  <2> SUFFICES ASSUME NEW q \in 1 .. L
               PROVE  /\ between(q) \in Seq(Triples)
                      /\ ElementsOf(between(q)) = {m \in MovesOf(d) : m[1] = q - 1 /\ m[3] = t}
    OBVIOUS
  <2>1. PICK s \in Nat : s = q - 1
    BY <1>1
  <2>2. get_transitions_between(d, s, t) \in Seq(Triples)
    BY TransitionsBetweenAre
  <2>3. ElementsOf(get_transitions_between(d, s, t)) = MovesBetween(d, s, t)
    BY TransitionsBetweenAre
  <2>4. QED
    BY <2>1, <2>2, <2>3 DEF MovesBetween
<1>4. \A m \in MovesOf(d) : m[1] \in 0 .. L - 1
  <2> SUFFICES ASSUME NEW m \in MovesOf(d) PROVE m[1] \in 0 .. L - 1
    OBVIOUS
  <2>1. MovedBy(d, m[1], m[2], m[3])
    BY MovesAre
  <2>2. QED
    BY <2>1 DEF MovedBy
<1> HIDE DEF between, L
<1>5. \A q \in 1 .. L : \A w \in Seq(Triples) : w \o between(q) \in Seq(Triples)
  BY <1>3, ElementsOfConcat
<1>6. IsStepwise(Seq(Triples), L, F)
  BY <1>1, <1>5 DEF IsStepwise
<1>7. PICK f : IsRecursion(Seq(Triples), L, << >>, F, f)
  <2> HIDE DEF F
  <2>1. << >> \in Seq(Triples)
    OBVIOUS
  <2>2. QED
    BY <1>1, <1>6, <2>1, RecursionExists
<1>8. EqOf(f)
  <2>1. f \in [0 .. L -> Seq(Triples)] /\ f[0] = << >> /\ \A n \in 1 .. L : f[n] = F[n][f[n - 1]]
    BY <1>7 DEF IsRecursion
  <2>2. \A n \in 0 .. L : f[n] = IF n = 0 THEN << >> ELSE f[n - 1] \o between(n)
    <3> SUFFICES ASSUME NEW n \in 0 .. L, n # 0 PROVE f[n] = f[n - 1] \o between(n)
      BY <2>1
    <3>1. n \in 1 .. L /\ n - 1 \in 0 .. L
      BY <1>1
    <3>2. QED
      BY <2>1, <3>1
  <2>3. QED
    BY <2>1, <2>2
<1>9. EqOf(found)
  <2> HIDE DEF EqOf
  <2>1. QED
    BY <1>8
<1> HIDE DEF found
<1> DEFINE Listed(n) == {m \in MovesOf(d) : m[1] < n /\ m[3] = t}
           Good(n) == found[n] \in Seq(Triples) /\ ElementsOf(found[n]) = Listed(n)
           T == {n \in Nat : n <= L => Good(n)}
<1>10. 0 \in T
  <2>1. found[0] = << >>
    BY <1>1, <1>9
  <2>2. Listed(0) = {}
    BY <1>1, <1>4
  <2> HIDE DEF Listed
  <2>3. Good(0)
    BY <2>1, <2>2, EmptyIsVector
  <2> HIDE DEF Good
  <2>4. QED
    BY <2>3
<1>11. ASSUME NEW n \in Nat, n \in T PROVE n + 1 \in T
  <2> HIDE DEF Good
  <2> SUFFICES ASSUME n + 1 <= L PROVE Good(n + 1)
    OBVIOUS
  <2>1. n + 1 \in 0 .. L /\ n + 1 # 0 /\ (n + 1) - 1 = n /\ n + 1 \in 1 .. L /\ n <= L
    BY <1>1
  <2>2. Good(n)
    BY <1>11, <2>1
  <2>3. found[n + 1] = found[n] \o between(n + 1)
    BY <1>9, <2>1
  <2>4. PICK w \in Seq(Triples) : w = found[n] /\ ElementsOf(w) = Listed(n)
    BY <2>2 DEF Good
  <2>5. PICK x \in Seq(Triples) : x = between(n + 1) /\ ElementsOf(x) = {m \in MovesOf(d) : m[1] = n /\ m[3] = t}
    BY <1>3, <2>1
  <2>6. w \o x \in Seq(Triples) /\ ElementsOf(w \o x) = ElementsOf(w) \cup ElementsOf(x)
    BY ElementsOfConcat
  <2>7. \A m \in MovesOf(d) : m[1] < n + 1 <=> m[1] < n \/ m[1] = n
    BY <1>1, <1>4
  <2>8. Listed(n + 1) = Listed(n) \cup {m \in MovesOf(d) : m[1] = n /\ m[3] = t}
    BY <2>7
  <2>9. QED
    BY <2>3, <2>4, <2>5, <2>6, <2>8 DEF Good
<1>12. Good(L)
  <2> HIDE DEF Good
  <2>1. L \in T
    <3> HIDE DEF T
    <3>1. QED
      BY <1>1, <1>10, <1>11, SetInduction
  <2>2. L <= L
    BY <1>1
  <2>3. QED
    BY <2>1, <2>2
<1>13. Listed(L) = {m \in MovesOf(d) : m[3] = t}
  BY <1>1, <1>4
<1>14. QED
  BY <1>2, <1>12, <1>13 DEF MovesTo

------------------------------------------------------------------------------
(* Transitions added one after the other.                                   *)

Relations == {d \in Seq(Seq(SymbolPosts)) : IsRelation(d)}

LEMMA AddOneIs ==
  ASSUME NEW d, IsRelation(d), NEW s \in Nat, NEW a \in Nat, NEW t \in Nat
  PROVE  /\ IsRelation(add(d, s, a, <<t>>))
         /\ MovesOf(add(d, s, a, <<t>>)) = MovesOf(d) \cup {<<s, a, t>>}
         /\ Len(add(d, s, a, <<t>>)) = Larger(Len(d), 1 + Larger(s, t))
<1>1. <<t>> \in Seq(Nat) /\ Len(<<t>>) = 1 /\ <<t>>[1] = t /\ <<t>> # << >>
  OBVIOUS
<1>2. PICK ts : ts = <<t>>
  OBVIOUS
<1>3. IsVector(ts) /\ ts # << >> /\ ts[Len(ts)] = t
  BY <1>1, <1>2 DEF IsVector, is_sorted
<1>4. ElementsOf(ts) = {t}
  BY <1>2 DEF ElementsOf
<1>5. {s} \X {a} \X {t} = {<<s, a, t>>}
  OBVIOUS
<1>6. IsRelation(add(d, s, a, ts))
  BY <1>3, AddIs
<1>7. MovesOf(add(d, s, a, ts)) = MovesOf(d) \cup ({s} \X {a} \X ElementsOf(ts))
  BY <1>3, AddIs
<1>8. ts # << >> => Len(add(d, s, a, ts)) = Larger(Len(d), 1 + Larger(s, ts[Len(ts)]))
  <2>1. IsVector(ts)
    BY <1>3
  <2>2. QED
    BY <2>1, AddIs
<1>9. QED
  BY <1>2, <1>3, <1>4, <1>5, <1>6, <1>7, <1>8

LEMMA AddTripleIs ==
  ASSUME NEW d, IsRelation(d), NEW m \in Triples
  PROVE  /\ IsRelation(add(d, m[1], m[2], <<m[3]>>))
         /\ MovesOf(add(d, m[1], m[2], <<m[3]>>)) = MovesOf(d) \cup {m}
         /\ Len(add(d, m[1], m[2], <<m[3]>>)) = Larger(Len(d), 1 + Larger(m[1], m[3]))
<1>1. PICK s \in Nat, a \in Nat, t \in Nat : m = <<s, a, t>>
  BY DEF Triples
<1>2. m[1] = s /\ m[2] = a /\ m[3] = t
  BY <1>1
<1>3. IsRelation(add(d, s, a, <<t>>))
  BY AddOneIs
<1>4. MovesOf(add(d, s, a, <<t>>)) = MovesOf(d) \cup {<<s, a, t>>}
  BY AddOneIs
<1>5. Len(add(d, s, a, <<t>>)) = Larger(Len(d), 1 + Larger(s, t))
  BY ZenonT(40), AddOneIs
<1>6. QED
  BY <1>1, <1>2, <1>3, <1>4, <1>5

LEMMA WithMovesIs ==
  ASSUME NEW d, IsRelation(d), NEW ts \in Seq(Triples)
  PROVE  /\ IsRelation(WithMoves(d, ts)) /\ MovesOf(WithMoves(d, ts)) = MovesOf(d) \cup ElementsOf(ts)
         /\ (\A m \in ElementsOf(ts) : m[1] < Len(d) /\ m[3] < Len(d)) => Len(WithMoves(d, ts)) = Len(d)
<1> DEFINE step(g, n) == add(g, ts[n][1], ts[n][2], <<ts[n][3]>>)
           EqOf(f) == f = [n \in 0 .. Len(ts) |-> IF n = 0 THEN d ELSE step(f[n - 1], n)]
           added == CHOOSE f : EqOf(f)
           F == [n \in 1 .. Len(ts) |-> [g \in Relations |-> step(g, n)]]
<1>1. /\ Len(ts) \in Nat /\ DOMAIN ts = 1 .. Len(ts)
      /\ \A n \in 1 .. Len(ts) : ts[n] \in Triples
  BY LenProperties
<1>2. \A n \in 1 .. Len(ts) : /\ ts[n][1] \in Nat /\ ts[n][2] \in Nat /\ ts[n][3] \in Nat
                              /\ ts[n] = <<ts[n][1], ts[n][2], ts[n][3]>>
  BY <1>1 DEF Triples
<1>3. WithMoves(d, ts) = added[Len(ts)]
  BY DEF WithMoves
<1>4. ASSUME NEW n \in 1 .. Len(ts), NEW g, IsRelation(g)
      PROVE  /\ IsRelation(step(g, n)) /\ MovesOf(step(g, n)) = MovesOf(g) \cup {ts[n]}
             /\ Len(step(g, n)) = Larger(Len(g), 1 + Larger(ts[n][1], ts[n][3]))
  <2>1. PICK m \in Triples : m = ts[n]
    BY <1>1
  <2>2. IsRelation(add(g, m[1], m[2], <<m[3]>>))
    BY <1>4, AddTripleIs
  <2>3. MovesOf(add(g, m[1], m[2], <<m[3]>>)) = MovesOf(g) \cup {m}
    BY <1>4, AddTripleIs
  <2>4. Len(add(g, m[1], m[2], <<m[3]>>)) = Larger(Len(g), 1 + Larger(m[1], m[3]))
    BY <1>4, AddTripleIs
  <2>5. QED
    BY <2>1, <2>2, <2>3, <2>4
<1>5. d \in Relations
  BY DEF Relations, IsRelation
<1> HIDE DEF step
<1>6. \A n \in 1 .. Len(ts) : \A g \in Relations : step(g, n) \in Relations
  BY <1>4 DEF Relations, IsRelation
<1>7. IsStepwise(Relations, Len(ts), F)
  BY <1>1, <1>6 DEF IsStepwise
<1>8. PICK f : IsRecursion(Relations, Len(ts), d, F, f)
  <2> HIDE DEF F
  <2>1. QED
    BY <1>1, <1>5, <1>7, RecursionExists
<1>9. EqOf(f)
  <2>1. f \in [0 .. Len(ts) -> Relations] /\ f[0] = d /\ \A n \in 1 .. Len(ts) : f[n] = F[n][f[n - 1]]
    BY <1>8 DEF IsRecursion
  <2>2. \A n \in 0 .. Len(ts) : f[n] = IF n = 0 THEN d ELSE step(f[n - 1], n)
    <3> SUFFICES ASSUME NEW n \in 0 .. Len(ts), n # 0 PROVE f[n] = step(f[n - 1], n)
      BY <2>1
    <3>1. n \in 1 .. Len(ts) /\ n - 1 \in 0 .. Len(ts)
      BY <1>1
    <3>2. QED
      BY <2>1, <3>1
  <2>3. QED
    BY <2>1, <2>2
<1>10. EqOf(added)
  <2> HIDE DEF EqOf
  <2>1. QED
    BY <1>9
<1> HIDE DEF added
<1> DEFINE Given(n) == {ts[k] : k \in 1 .. n}
           Fits == \A m \in ElementsOf(ts) : m[1] < Len(d) /\ m[3] < Len(d)
           Good(n) == /\ IsRelation(added[n]) /\ MovesOf(added[n]) = MovesOf(d) \cup Given(n)
                      /\ Fits => Len(added[n]) = Len(d)
           T == {n \in Nat : n <= Len(ts) => Good(n)}
<1>11. 0 \in T
  <2>1. added[0] = d
    BY <1>1, <1>10
  <2>2. Given(0) = {}
    OBVIOUS
  <2> HIDE DEF Given, Fits
  <2>3. Good(0)
    BY <2>1, <2>2
  <2> HIDE DEF Good
  <2>4. QED
    BY <2>3
<1>12. ASSUME NEW n \in Nat, n \in T PROVE n + 1 \in T
  <2> HIDE DEF Good
  <2> SUFFICES ASSUME n + 1 <= Len(ts) PROVE Good(n + 1)
    OBVIOUS
  <2>1. n + 1 \in 0 .. Len(ts) /\ n + 1 # 0 /\ (n + 1) - 1 = n /\ n + 1 \in 1 .. Len(ts) /\ n <= Len(ts)
    BY <1>1
  <2>2. Good(n)
    BY <1>12, <2>1
  <2>3. added[n + 1] = step(added[n], n + 1)
    BY <1>10, <2>1
  <2>4. Given(n + 1) = Given(n) \cup {ts[n + 1]}
    <3>1. \A k : k \in 1 .. n + 1 <=> k \in 1 .. n \/ k = n + 1
      OBVIOUS
    <3>2. QED
      BY <3>1
  <2>5. /\ IsRelation(added[n]) /\ MovesOf(added[n]) = MovesOf(d) \cup Given(n)
        /\ Fits => Len(added[n]) = Len(d)
    BY <2>2 DEF Good
  <2>6. /\ IsRelation(step(added[n], n + 1))
        /\ MovesOf(step(added[n], n + 1)) = MovesOf(added[n]) \cup {ts[n + 1]}
        /\ Len(step(added[n], n + 1)) = Larger(Len(added[n]), 1 + Larger(ts[n + 1][1], ts[n + 1][3]))
    BY <1>4, <2>1, <2>5
  <2>7. ASSUME Fits PROVE Larger(Len(d), 1 + Larger(ts[n + 1][1], ts[n + 1][3])) = Len(d)
    <3>1. ts[n + 1] \in ElementsOf(ts)
      BY <1>1, <2>1 DEF ElementsOf
    <3>2. ts[n + 1][1] < Len(d) /\ ts[n + 1][3] < Len(d)
      BY <2>7, <3>1
    <3>3. Len(d) \in Nat /\ ts[n + 1][1] \in Nat /\ ts[n + 1][3] \in Nat
      BY <1>2, <2>1, RelationIs
    <3>4. QED
      BY <3>2, <3>3 DEF Larger
  <2> HIDE DEF Given, Fits
  <2>8. QED
    BY <2>3, <2>4, <2>5, <2>6, <2>7 DEF Good
<1>13. Good(Len(ts))
  <2> HIDE DEF Good
  <2>1. Len(ts) \in T
    <3> HIDE DEF T
    <3>1. QED
      BY <1>1, <1>11, <1>12, SetInduction
  <2>2. Len(ts) <= Len(ts)
    BY <1>1
  <2>3. QED
    BY <2>1, <2>2
<1>14. Given(Len(ts)) = ElementsOf(ts)
  BY <1>1 DEF ElementsOf
<1>15. QED
  BY <1>3, <1>13, <1>14

------------------------------------------------------------------------------
(* Objects, and what their parts say about the number of states.            *)

SparseSets == [set : SUBSET Nat, domain_size : Nat]
Objects == [delta : Relations, initial : SparseSets, final : SparseSets]
IsObject(o) ==
  /\ o \in Objects
  /\ \A q \in o.initial.set : q < o.initial.domain_size
  /\ \A q \in o.final.set : q < o.final.domain_size
  /\ \A m \in MovesOf(o.delta) : m[3] < num_of_states(o)

(* What a call that leaves the sets alone has made of an object.            *)
Became(w, o, M, n) ==
  /\ IsObject(w) /\ MovesOf(w.delta) = M /\ num_of_states(w) = n
  /\ w.initial = o.initial /\ w.final = o.final

LEMMA ObjectTypes ==
  ASSUME NEW o \in Objects
  PROVE  /\ IsRelation(o.delta) /\ Len(o.delta) \in Nat
         /\ o.initial.set \in SUBSET Nat /\ o.final.set \in SUBSET Nat
         /\ o.initial.domain_size \in Nat /\ o.final.domain_size \in Nat
         /\ num_of_states(o) \in Nat
         /\ Len(o.delta) <= num_of_states(o)
         /\ o.initial.domain_size <= num_of_states(o) /\ o.final.domain_size <= num_of_states(o)
<1>1. IsRelation(o.delta)
  BY DEF Objects, Relations
<1>2. Len(o.delta) \in Nat
  BY <1>1, RelationIs
<1>3. /\ o.initial.set \in SUBSET Nat /\ o.final.set \in SUBSET Nat
      /\ o.initial.domain_size \in Nat /\ o.final.domain_size \in Nat
  BY DEF Objects, SparseSets
<1>4. QED
  BY <1>1, <1>2, <1>3 DEF num_of_states, Larger

LEMMA ObjectIs ==
  ASSUME NEW o, IsObject(o)
  PROVE  /\ o \in Objects /\ IsRelation(o.delta) /\ num_of_states(o) \in Nat
         /\ \A m \in MovesOf(o.delta) :
              /\ m \in Triples /\ m = <<m[1], m[2], m[3]>> /\ m[1] < Len(o.delta)
              /\ m[1] < num_of_states(o) /\ m[3] < num_of_states(o)
         /\ \A q \in o.initial.set : q < num_of_states(o)
         /\ \A q \in o.final.set : q < num_of_states(o)
         /\ IsFiniteSet(o.initial.set) /\ IsFiniteSet(o.final.set)
<1>1. o \in Objects
  BY DEF IsObject
<1>2. /\ IsRelation(o.delta) /\ Len(o.delta) \in Nat
      /\ o.initial.set \in SUBSET Nat /\ o.final.set \in SUBSET Nat
      /\ o.initial.domain_size \in Nat /\ o.final.domain_size \in Nat
      /\ num_of_states(o) \in Nat
      /\ Len(o.delta) <= num_of_states(o)
      /\ o.initial.domain_size <= num_of_states(o) /\ o.final.domain_size <= num_of_states(o)
  BY <1>1, ObjectTypes
<1>3. ASSUME NEW m \in MovesOf(o.delta)
      PROVE  /\ m \in Triples /\ m = <<m[1], m[2], m[3]>> /\ m[1] < Len(o.delta)
             /\ m[1] < num_of_states(o) /\ m[3] < num_of_states(o)
  <2>1. m \in Triples /\ m = <<m[1], m[2], m[3]>>
    BY <1>2, MovesAre DEF Triples
  <2>2. MovedBy(o.delta, m[1], m[2], m[3])
    BY <1>2, <2>1, MovesAre
  <2>3. m[1] \in 0 .. Len(o.delta) - 1
    BY <2>2 DEF MovedBy
  <2>4. m[3] < num_of_states(o)
    BY DEF IsObject
  <2>5. QED
    BY <1>2, <2>1, <2>3, <2>4
<1>4. \A q \in o.initial.set : q < num_of_states(o) /\ q <= num_of_states(o)
  <2> SUFFICES ASSUME NEW q \in o.initial.set PROVE q < num_of_states(o) /\ q <= num_of_states(o)
    OBVIOUS
  <2>1. q \in Nat /\ q < o.initial.domain_size
    BY <1>2 DEF IsObject
  <2>2. QED
    BY <1>2, <2>1
<1>5. \A q \in o.final.set : q < num_of_states(o) /\ q <= num_of_states(o)
  <2> SUFFICES ASSUME NEW q \in o.final.set PROVE q < num_of_states(o) /\ q <= num_of_states(o)
    OBVIOUS
  <2>1. q \in Nat /\ q < o.final.domain_size
    BY <1>2 DEF IsObject
  <2>2. QED
    BY <1>2, <2>1
<1>6. IsFiniteSet(o.initial.set)
  BY <1>2, <1>4, FS_BoundedSetOfNaturals
<1>7. IsFiniteSet(o.final.set)
  BY <1>2, <1>5, FS_BoundedSetOfNaturals
<1>8. QED
  BY <1>1, <1>2, <1>3, <1>4, <1>5, <1>6, <1>7

(* Another relation over at least as many states.                           *)
LEMMA DeltaReplaced ==
  ASSUME NEW o, IsObject(o), NEW d, IsRelation(d), Len(o.delta) <= Len(d),
         \A m \in MovesOf(d) : m[3] < Larger(num_of_states(o), Len(d))
  PROVE  Became([o EXCEPT !.delta = d], o, MovesOf(d), Larger(num_of_states(o), Len(d)))
<1> DEFINE w == [o EXCEPT !.delta = d]
<1>1. o \in Objects
  BY DEF IsObject
<1>2. /\ Len(o.delta) \in Nat /\ o.initial.domain_size \in Nat /\ o.final.domain_size \in Nat
  BY <1>1, ObjectTypes
<1>3. d \in Relations /\ Len(d) \in Nat
  BY RelationIs DEF Relations
<1>4. w \in Objects /\ w.delta = d /\ w.initial = o.initial /\ w.final = o.final
  BY <1>1, <1>3 DEF Objects
<1> HIDE DEF w
<1>5. num_of_states(w) = Larger(num_of_states(o), Len(d))
  BY <1>2, <1>3, <1>4 DEF num_of_states, Larger
<1>6. IsObject(w)
  BY <1>4, <1>5 DEF IsObject
<1>7. QED
  BY <1>4, <1>5, <1>6 DEF Became, w

LEMMA WithStateIs ==
  ASSUME NEW o, IsObject(o)
  PROVE  /\ Became(WithState(o), o, MovesOf(o.delta), num_of_states(o) + 1)
         /\ Len(WithState(o).delta) = num_of_states(o) + 1
<1> DEFINE d == allocate(o.delta, num_of_states(o) + 1)
<1>1. o \in Objects
  BY DEF IsObject
<1>2. IsRelation(o.delta) /\ Len(o.delta) \in Nat /\ num_of_states(o) \in Nat /\ Len(o.delta) <= num_of_states(o)
  BY <1>1, ObjectTypes
<1>3. num_of_states(o) + 1 \in Nat
  BY <1>2
<1>4. IsRelation(d)
  BY <1>2, <1>3, AllocateIs
<1>5. MovesOf(d) = MovesOf(o.delta)
  BY <1>2, <1>3, AllocateIs
<1>6. Len(d) = Larger(Len(o.delta), num_of_states(o) + 1)
  BY <1>2, <1>3, AllocateIs
<1>7. Len(d) = num_of_states(o) + 1 /\ Len(o.delta) <= Len(d)
  BY <1>2, <1>6 DEF Larger
<1>8. Larger(num_of_states(o), Len(d)) = num_of_states(o) + 1
  BY <1>2, <1>7 DEF Larger
<1>9. WithState(o) = [o EXCEPT !.delta = d]
  BY DEF WithState
<1> HIDE DEF d
<1>10. \A m \in MovesOf(d) : m[3] < Larger(num_of_states(o), Len(d))
  <2> SUFFICES ASSUME NEW m \in MovesOf(o.delta) PROVE m[3] < num_of_states(o) + 1
    BY <1>5, <1>8
  <2>1. m \in Triples /\ m[3] < num_of_states(o)
    BY ObjectIs
  <2>2. QED
    BY <1>2, <2>1 DEF Triples
<1>11. Became([o EXCEPT !.delta = d], o, MovesOf(d), Larger(num_of_states(o), Len(d)))
  BY <1>4, <1>7, <1>10, DeltaReplaced
<1>12. WithState(o).delta = d
  BY <1>1, <1>9 DEF Objects
<1>13. QED
  BY <1>5, <1>7, <1>8, <1>9, <1>11, <1>12

LEMMA WithMoveIs ==
  ASSUME NEW o, IsObject(o), NEW s \in Nat, NEW a \in Nat, NEW t \in Nat,
         s < num_of_states(o), t < num_of_states(o)
  PROVE  Became(WithMove(o, s, a, t), o, MovesOf(o.delta) \cup {<<s, a, t>>}, num_of_states(o))
<1> DEFINE d == add(o.delta, s, a, <<t>>)
<1>1. o \in Objects
  BY DEF IsObject
<1>2. IsRelation(o.delta) /\ Len(o.delta) \in Nat /\ num_of_states(o) \in Nat /\ Len(o.delta) <= num_of_states(o)
  BY <1>1, ObjectTypes
<1>3. IsRelation(d)
  BY <1>2, AddOneIs
<1>4. MovesOf(d) = MovesOf(o.delta) \cup {<<s, a, t>>}
  BY <1>2, AddOneIs
<1>5. Len(d) = Larger(Len(o.delta), 1 + Larger(s, t))
  <2>1. PICK e : e = o.delta
    OBVIOUS
  <2>2. IsRelation(e)
    BY <1>2, <2>1
  <2>3. Len(add(e, s, a, <<t>>)) = Larger(Len(e), 1 + Larger(s, t))
    BY <2>2, AddOneIs
  <2>4. QED
    BY <2>1, <2>3
<1>6. Len(o.delta) <= Len(d) /\ Larger(num_of_states(o), Len(d)) = num_of_states(o)
  BY <1>2, <1>5 DEF Larger
<1>7. WithMove(o, s, a, t) = [o EXCEPT !.delta = d]
  BY DEF WithMove
<1> HIDE DEF d
<1>8. \A m \in MovesOf(d) : m[3] < Larger(num_of_states(o), Len(d))
  BY <1>4, <1>6, ObjectIs
<1>9. Became([o EXCEPT !.delta = d], o, MovesOf(d), Larger(num_of_states(o), Len(d)))
  BY <1>3, <1>6, <1>8, DeltaReplaced
<1>10. QED
  BY <1>4, <1>6, <1>7, <1>9

------------------------------------------------------------------------------
(* A word spelled over new states.                                          *)

(* The states of the path: n is the number of states there were.            *)
PathOver(word, source, target, n) ==
  [k \in 1 .. Len(word) + 1 |-> IF k = 1 THEN source ELSE IF k = Len(word) + 1 THEN target ELSE n + k - 2]
SpelledBy(word, path) == {<<path[k], word[k], path[k + 1]>> : k \in 1 .. Len(word)}

LEMMA WithWordIs ==
  ASSUME NEW o, IsObject(o), NEW source \in Nat, NEW target \in Nat, NEW word \in Seq(Nat), word # << >>,
         source < num_of_states(o), target < num_of_states(o)
  PROVE  Became(WithWord(o, source, word, target), o,
                MovesOf(o.delta) \cup SpelledBy(word, PathOver(word, source, target, num_of_states(o))),
                num_of_states(o) + (Len(word) - 1))
<1> DEFINE N == num_of_states(o)
           L == Len(word)
           path == PathOver(word, source, target, N)
           step(b, n) == <<WithMove(WithState(b[1]), b[2], word[n], num_of_states(b[1])), num_of_states(b[1])>>
           EqOf(f) == f = [n \in 0 .. L - 1 |-> IF n = 0 THEN <<o, source>> ELSE step(f[n - 1], n)]
           spelled == CHOOSE f : EqOf(f)
           D == {b \in Objects \X Nat : IsObject(b[1]) /\ b[2] < num_of_states(b[1])}
           F == [n \in 1 .. L - 1 |-> [b \in D |-> step(b, n)]]
<1>1. L \in Nat /\ L >= 1 /\ DOMAIN word = 1 .. L /\ \A n \in 1 .. L : word[n] \in Nat
  BY EmptySeq, LenProperties
<1>2. o \in Objects /\ N \in Nat
  BY ObjectIs
<1>3. WithWord(o, source, word, target) =
        WithMove(spelled[L - 1][1], spelled[L - 1][2], word[L], target)
  BY DEF WithWord
<1>4. \A k \in 1 .. L + 1 : path[k] = IF k = 1 THEN source ELSE IF k = L + 1 THEN target ELSE N + k - 2
  BY DEF PathOver
<1> HIDE DEF path, N, L
<1>5. ASSUME NEW b, IsObject(b), NEW q \in Nat, q < num_of_states(b), NEW n \in 1 .. L - 1
      PROVE  /\ step(<<b, q>>, n)[2] = num_of_states(b)
             /\ Became(step(<<b, q>>, n)[1], b,
                       MovesOf(b.delta) \cup {<<q, word[n], num_of_states(b)>>}, num_of_states(b) + 1)
  <2> DEFINE c == WithState(b)
             w == WithMove(c, q, word[n], num_of_states(b))
  <2>1. num_of_states(b) \in Nat
    BY <1>5, ObjectIs
  <2>2. Became(c, b, MovesOf(b.delta), num_of_states(b) + 1)
    BY <1>5, WithStateIs
  <2> HIDE DEF c
  <2>3. /\ IsObject(c) /\ num_of_states(c) = num_of_states(b) + 1 /\ MovesOf(c.delta) = MovesOf(b.delta)
        /\ c.initial = b.initial /\ c.final = b.final
    BY <2>2 DEF Became
  <2>4. word[n] \in Nat
    BY <1>1
  <2>5. q < num_of_states(c) /\ num_of_states(b) < num_of_states(c)
    BY <1>5, <2>1, <2>3
  <2>6. Became(w, c, MovesOf(c.delta) \cup {<<q, word[n], num_of_states(b)>>}, num_of_states(c))
    BY <2>1, <2>3, <2>4, <2>5, WithMoveIs
  <2>7. step(<<b, q>>, n) = <<w, num_of_states(b)>>
    BY DEF c
  <2> HIDE DEF w
  <2>8. Became(w, b, MovesOf(b.delta) \cup {<<q, word[n], num_of_states(b)>>}, num_of_states(b) + 1)
    BY <2>3, <2>6 DEF Became
  <2> HIDE DEF step
  <2>9. step(<<b, q>>, n)[1] = w /\ step(<<b, q>>, n)[2] = num_of_states(b)
    BY <2>7
  <2>10. QED
    BY <2>8, <2>9
<1>6. \A n \in 1 .. L - 1 : \A b \in D : step(b, n) \in D
  <2> SUFFICES ASSUME NEW n \in 1 .. L - 1, NEW b \in D PROVE step(b, n) \in D
    OBVIOUS
  <2>1. PICK c \in Objects, q \in Nat : b = <<c, q>> /\ IsObject(c) /\ q < num_of_states(c)
    <3>1. b[1] \in Objects /\ b[2] \in Nat /\ b = <<b[1], b[2]>> /\ IsObject(b[1]) /\ b[2] < num_of_states(b[1])
      OBVIOUS
    <3>2. QED
      BY <3>1
  <2> DEFINE w == step(<<c, q>>, n)
  <2>2. w = <<w[1], w[2]>>
    OBVIOUS
  <2>3. /\ w[2] = num_of_states(c)
        /\ Became(w[1], c, MovesOf(c.delta) \cup {<<q, word[n], num_of_states(c)>>}, num_of_states(c) + 1)
    BY <1>5, <2>1
  <2> HIDE DEF w
  <2>4. num_of_states(c) \in Nat
    BY <2>1, ObjectIs
  <2>5. /\ IsObject(w[1]) /\ w[1] \in Objects /\ w[2] \in Nat /\ w[2] < num_of_states(w[1])
    BY <2>3, <2>4 DEF Became, IsObject
  <2>6. w \in D
    BY <2>2, <2>5
  <2>7. QED
    BY <2>1, <2>6 DEF w
<1>7. <<o, source>> \in D
  BY <1>2
<1> HIDE DEF step, D
<1>8. IsStepwise(D, L - 1, F)
  BY <1>1, <1>6 DEF IsStepwise
<1>9. PICK f : IsRecursion(D, L - 1, <<o, source>>, F, f)
  <2> HIDE DEF F
  <2>1. L - 1 \in Nat
    BY <1>1
  <2>2. QED
    BY <1>7, <1>8, <2>1, RecursionExists
<1>10. EqOf(f)
  <2>1. f \in [0 .. L - 1 -> D] /\ f[0] = <<o, source>> /\ \A n \in 1 .. L - 1 : f[n] = F[n][f[n - 1]]
    BY <1>9 DEF IsRecursion
  <2>2. \A n \in 0 .. L - 1 : f[n] = IF n = 0 THEN <<o, source>> ELSE step(f[n - 1], n)
    <3> SUFFICES ASSUME NEW n \in 0 .. L - 1, n # 0 PROVE f[n] = step(f[n - 1], n)
      BY <2>1
    <3>1. n \in 1 .. L - 1 /\ n - 1 \in 0 .. L - 1
      BY <1>1
    <3>2. QED
      BY <2>1, <3>1
  <2>3. QED
    BY <2>1, <2>2
<1>11. EqOf(spelled)
  <2> HIDE DEF EqOf
  <2>1. QED
    BY <1>10
<1> HIDE DEF spelled
<1> DEFINE Spelled(n) == {<<path[k], word[k], path[k + 1]>> : k \in 1 .. n}
           Good(n) == /\ spelled[n] = <<spelled[n][1], spelled[n][2]>>
                      /\ spelled[n][2] = path[n + 1] /\ spelled[n][2] \in Nat /\ spelled[n][2] < N + n
                      /\ Became(spelled[n][1], o, MovesOf(o.delta) \cup Spelled(n), N + n)
           T == {n \in Nat : n <= L - 1 => Good(n)}
<1>12. 0 \in T
  <2>1. spelled[0] = <<o, source>>
    BY <1>1, <1>11
  <2>2. path[0 + 1] = source
    BY <1>1, <1>4
  <2>3. Spelled(0) = {}
    OBVIOUS
  <2>4. N + 0 = N
    BY <1>2
  <2> HIDE DEF Spelled
  <2>5. Became(o, o, MovesOf(o.delta) \cup Spelled(0), N + 0)
    BY <2>3, <2>4 DEF Became, N
  <2>6. Good(0)
    BY <2>1, <2>2, <2>4, <2>5 DEF N
  <2> HIDE DEF Good
  <2>7. QED
    BY <2>6
<1>13. ASSUME NEW n \in Nat, n \in T PROVE n + 1 \in T
  <2> HIDE DEF Good
  <2> SUFFICES ASSUME n + 1 <= L - 1 PROVE Good(n + 1)
    OBVIOUS
  <2>1. n + 1 \in 0 .. L - 1 /\ n + 1 # 0 /\ (n + 1) - 1 = n /\ n + 1 \in 1 .. L - 1 /\ n <= L - 1
    BY <1>1
  <2>2. Good(n)
    BY <1>13, <2>1
  <2>3. spelled[n + 1] = step(spelled[n], n + 1)
    BY <1>11, <2>1
  <2> HIDE DEF Spelled
  <2>4. PICK b \in Objects, q \in Nat : /\ spelled[n] = <<b, q>> /\ q = path[n + 1] /\ q < N + n
                            /\ Became(b, o, MovesOf(o.delta) \cup Spelled(n), N + n)
    <3>1. /\ spelled[n] = <<spelled[n][1], spelled[n][2]>>
          /\ spelled[n][2] = path[n + 1] /\ spelled[n][2] \in Nat /\ spelled[n][2] < N + n
          /\ Became(spelled[n][1], o, MovesOf(o.delta) \cup Spelled(n), N + n)
      BY <2>2 DEF Good
    <3>2. spelled[n][1] \in Objects
      BY <3>1 DEF Became, IsObject
    <3>3. QED
      BY <3>1, <3>2
  <2>5. /\ IsObject(b) /\ num_of_states(b) = N + n /\ MovesOf(b.delta) = MovesOf(o.delta) \cup Spelled(n)
        /\ b.initial = o.initial /\ b.final = o.final
    BY <2>4 DEF Became
  <2>6. q < num_of_states(b)
    BY <2>4, <2>5
  <2> DEFINE w == step(<<b, q>>, n + 1)
  <2>7. /\ w[2] = num_of_states(b)
        /\ Became(w[1], b, MovesOf(b.delta) \cup {<<q, word[n + 1], num_of_states(b)>>}, num_of_states(b) + 1)
    BY <1>5, <2>1, <2>5, <2>6
  <2>8. w = <<w[1], w[2]>>
    BY DEF step
  <2>9. spelled[n + 1] = w
    BY <2>3, <2>4
  <2> HIDE DEF w
  <2>10. path[(n + 1) + 1] = N + n
    <3>1. (n + 1) + 1 \in 1 .. L + 1 /\ (n + 1) + 1 # 1 /\ (n + 1) + 1 # L + 1
      BY <1>1, <2>1
    <3>2. path[(n + 1) + 1] = N + ((n + 1) + 1) - 2
      BY <1>4, <3>1
    <3>3. QED
      BY <1>2, <3>2
  <2>11. Spelled(n + 1) = Spelled(n) \cup {<<path[n + 1], word[n + 1], path[(n + 1) + 1]>>}
    <3>1. \A k : k \in 1 .. n + 1 <=> k \in 1 .. n \/ k = n + 1
      OBVIOUS
    <3>2. QED
      BY <3>1 DEF Spelled
  <2>12. MovesOf(b.delta) \cup {<<q, word[n + 1], num_of_states(b)>>} = MovesOf(o.delta) \cup Spelled(n + 1)
    BY <2>4, <2>5, <2>10, <2>11
  <2>13. (N + n) + 1 = N + (n + 1) /\ N + n \in Nat /\ N + n < N + (n + 1)
    BY <1>2
  <2>14. Became(w[1], o, MovesOf(o.delta) \cup Spelled(n + 1), N + (n + 1))
    BY <2>5, <2>7, <2>12, <2>13 DEF Became
  <2>15. QED
    BY <2>5, <2>7, <2>8, <2>9, <2>10, <2>13, <2>14 DEF Good
<1>14. Good(L - 1)
  <2> HIDE DEF Good
  <2>1. L - 1 \in Nat
    BY <1>1
  <2>2. L - 1 \in T
    <3> HIDE DEF T
    <3>1. QED
      BY <2>1, <1>12, <1>13, SetInduction
  <2>3. L - 1 <= L - 1
    BY <1>1
  <2>4. QED
    BY <2>2, <2>3
<1>15. PICK b \in Objects, q \in Nat : /\ spelled[L - 1] = <<b, q>> /\ q = path[L] /\ q < N + (L - 1)
                           /\ Became(b, o, MovesOf(o.delta) \cup Spelled(L - 1), N + (L - 1))
  <2> HIDE DEF Spelled
  <2>1. (L - 1) + 1 = L
    BY <1>1
  <2>2. /\ spelled[L - 1] = <<spelled[L - 1][1], spelled[L - 1][2]>>
        /\ spelled[L - 1][2] = path[L] /\ spelled[L - 1][2] \in Nat /\ spelled[L - 1][2] < N + (L - 1)
        /\ Became(spelled[L - 1][1], o, MovesOf(o.delta) \cup Spelled(L - 1), N + (L - 1))
    BY <1>14, <2>1 DEF Good
  <2>3. spelled[L - 1][1] \in Objects
    BY <2>2 DEF Became, IsObject
  <2>4. QED
    BY <2>2, <2>3
<1>16. Spelled(L - 1) \cup {<<path[L], word[L], target>>} = SpelledBy(word, path)
  <2>1. path[L + 1] = target
    <3>1. L + 1 \in 1 .. L + 1 /\ L + 1 # 1
      BY <1>1
    <3>2. QED
      BY <1>4, <3>1
  <2>2. \A k : k \in 1 .. L <=> k \in 1 .. L - 1 \/ k = L
    BY <1>1
  <2>3. QED
    BY <2>1, <2>2 DEF SpelledBy, L
<1> HIDE DEF Spelled
<1>17. /\ IsObject(b) /\ num_of_states(b) = N + (L - 1) /\ MovesOf(b.delta) = MovesOf(o.delta) \cup Spelled(L - 1)
       /\ b.initial = o.initial /\ b.final = o.final
  BY <1>15 DEF Became
<1>18. word[L] \in Nat /\ q < num_of_states(b) /\ target < num_of_states(b)
  <2>1. target < N
    BY DEF N
  <2>2. L \in 1 .. L
    BY <1>1
  <2>3. QED
    BY <1>1, <1>2, <1>15, <1>17, <2>1, <2>2
<1> DEFINE w == WithMove(b, q, word[L], target)
<1>19. Became(w, b, MovesOf(b.delta) \cup {<<q, word[L], target>>}, num_of_states(b))
  BY <1>17, <1>18, WithMoveIs
<1>20. WithWord(o, source, word, target) = w
  BY <1>3, <1>15
<1> HIDE DEF w
<1>21. MovesOf(b.delta) \cup {<<q, word[L], target>>} = MovesOf(o.delta) \cup SpelledBy(word, path)
  BY <1>15, <1>16, <1>17
<1>22. Became(w, o, MovesOf(o.delta) \cup SpelledBy(word, path), N + (L - 1))
  BY <1>17, <1>19, <1>21 DEF Became
<1>23. QED
  BY <1>20, <1>22 DEF N, L, path

------------------------------------------------------------------------------
(* One state in the place of several.                                       *)

CopiesFrom(M, S, new) == {<<new, m[2], m[3]>> : m \in {e \in M : e[1] \in S}}
CopiesTo(M, S, new) == {<<m[1], m[2], new>> : m \in {e \in M : e[3] \in S}}

(* The moves of one state are copied to another one.                        *)
FromNew(new, outgoing) == [k \in DOMAIN outgoing |-> <<new, outgoing[k][1], outgoing[k][2]>>]
LEMMA CopiedPost ==
  ASSUME NEW d, IsRelation(d), NEW q \in Nat, NEW new \in Nat, new < Len(d),
         \A m \in MovesOf(d) : m[3] < Len(d)
  PROVE  /\ IsRelation(WithMoves(d, FromNew(new, AllMoves(state_post(d, q)))))
         /\ MovesOf(WithMoves(d, FromNew(new, AllMoves(state_post(d, q)))))
              = MovesOf(d) \cup CopiesFrom(MovesOf(d), {q}, new)
         /\ Len(WithMoves(d, FromNew(new, AllMoves(state_post(d, q))))) = Len(d)
<1>1. PICK p : p = state_post(d, q)
  OBVIOUS
<1>2. IsPost(p) /\ \A a, t : HasMove(p, a, t) <=> MovedBy(d, q, a, t)
  BY <1>1, StatePostIs
<1>3. AllMoves(p) \in Seq(Nat \X Nat)
  BY <1>2, AllMovesAre
<1>4. ElementsOf(AllMoves(p)) = {m \in Nat \X Nat : HasMove(p, m[1], m[2])}
  BY <1>2, AllMovesAre
<1>5. PICK w \in Seq(Nat \X Nat) : w = AllMoves(p)
  BY <1>3
<1>6. Len(w) \in Nat /\ DOMAIN w = 1 .. Len(w) /\ \A k \in 1 .. Len(w) : w[k] \in Nat \X Nat
  BY LenProperties
<1>7. PICK ts : ts = FromNew(new, w)
  OBVIOUS
<1>8. ts = [k \in 1 .. Len(w) |-> <<new, w[k][1], w[k][2]>>]
  BY <1>6, <1>7 DEF FromNew
<1>9. \A k \in 1 .. Len(w) : <<new, w[k][1], w[k][2]>> \in Triples
  BY <1>6 DEF Triples
<1>10. ts \in Seq(Triples) /\ DOMAIN ts = 1 .. Len(w)
  <2>1. ts \in [1 .. Len(w) -> Triples] /\ DOMAIN ts = 1 .. Len(w)
    BY <1>8, <1>9
  <2>2. PICK n \in Nat : n = Len(w)
    BY <1>6
  <2>3. ts \in Seq(Triples)
    <3>1. ts \in [1 .. n -> Triples]
      BY <2>1, <2>2
    <3>2. PICK A : A = Triples
      OBVIOUS
    <3>3. ts \in Seq(A)
      BY <3>1, <3>2, SeqDef
    <3>4. QED
      BY <3>2, <3>3
  <2>4. QED
    BY <2>1, <2>3
<1>11. ElementsOf(ts) = CopiesFrom(MovesOf(d), {q}, new)
  <2>1. ASSUME NEW x \in ElementsOf(ts) PROVE x \in CopiesFrom(MovesOf(d), {q}, new)
    <3>1. PICK k \in 1 .. Len(w) : x = <<new, w[k][1], w[k][2]>>
      BY <1>8, <1>10 DEF ElementsOf
    <3>2. w[k] \in ElementsOf(w)
      BY <1>6 DEF ElementsOf
    <3>3. HasMove(p, w[k][1], w[k][2])
      BY <1>4, <1>5, <3>2
    <3>4. <<q, w[k][1], w[k][2]>> \in MovesOf(d)
      BY <1>2, <3>3, MovesAre
    <3>5. PICK m \in MovesOf(d) : m[1] = q /\ m[2] = w[k][1] /\ m[3] = w[k][2]
      BY <3>4
    <3>6. x = <<new, m[2], m[3]>>
      BY <3>1, <3>5
    <3>7. m[1] \in {q}
      BY <3>5
    <3>8. QED
      BY <3>6, <3>7 DEF CopiesFrom
  <2>2. ASSUME NEW x \in CopiesFrom(MovesOf(d), {q}, new) PROVE x \in ElementsOf(ts)
    <3>1. PICK m \in MovesOf(d) : m[1] = q /\ x = <<new, m[2], m[3]>>
      BY DEF CopiesFrom
    <3>2. m \in Nat \X Nat \X Nat /\ m = <<q, m[2], m[3]>>
      BY <3>1, MovesAre
    <3>3. HasMove(p, m[2], m[3])
      BY <1>2, <3>2, MovesAre
    <3>4. <<m[2], m[3]>> \in ElementsOf(w)
      BY <1>4, <1>5, <3>2, <3>3
    <3>5. PICK k \in 1 .. Len(w) : w[k] = <<m[2], m[3]>>
      BY <1>6, <3>4 DEF ElementsOf
    <3>6. ts[k] = x
      BY <1>8, <3>1, <3>5
    <3>7. QED
      BY <1>10, <3>6 DEF ElementsOf
  <2>3. QED
    BY <2>1, <2>2
<1>12. \A m \in ElementsOf(ts) : m[1] < Len(d) /\ m[3] < Len(d)
  BY <1>11 DEF CopiesFrom
<1>13. IsRelation(WithMoves(d, ts))
  BY <1>10, WithMovesIs
<1>14. MovesOf(WithMoves(d, ts)) = MovesOf(d) \cup ElementsOf(ts)
  BY <1>10, WithMovesIs
<1>15. Len(WithMoves(d, ts)) = Len(d)
  BY <1>10, <1>12, WithMovesIs
<1>16. QED
  BY <1>1, <1>5, <1>7, <1>11, <1>13, <1>14, <1>15

(* The moves to one state are copied to another one.                        *)
ToNew(new, incoming) == [k \in DOMAIN incoming |-> <<incoming[k][1], incoming[k][2], new>>]
LEMMA CopiedMoves ==
  ASSUME NEW d, IsRelation(d), NEW q \in Nat, NEW new \in Nat, new < Len(d)
  PROVE  /\ IsRelation(WithMoves(d, ToNew(new, get_transitions_to(d, q))))
         /\ MovesOf(WithMoves(d, ToNew(new, get_transitions_to(d, q))))
              = MovesOf(d) \cup CopiesTo(MovesOf(d), {q}, new)
         /\ Len(WithMoves(d, ToNew(new, get_transitions_to(d, q)))) = Len(d)
<1>1. get_transitions_to(d, q) \in Seq(Triples)
  BY TransitionsToAre
<1>2. ElementsOf(get_transitions_to(d, q)) = MovesTo(d, q)
  BY TransitionsToAre
<1>3. PICK w \in Seq(Triples) : w = get_transitions_to(d, q)
  BY <1>1
<1>4. Len(w) \in Nat /\ DOMAIN w = 1 .. Len(w) /\ \A k \in 1 .. Len(w) : w[k] \in Triples
  BY LenProperties
<1>5. PICK ts : ts = ToNew(new, w)
  OBVIOUS
<1>6. ts = [k \in 1 .. Len(w) |-> <<w[k][1], w[k][2], new>>]
  BY <1>4, <1>5 DEF ToNew
<1>7. \A k \in 1 .. Len(w) : <<w[k][1], w[k][2], new>> \in Triples
  BY <1>4 DEF Triples
<1>8. ts \in Seq(Triples) /\ DOMAIN ts = 1 .. Len(w)
  <2>1. ts \in [1 .. Len(w) -> Triples]
    BY <1>6, <1>7
  <2>2. QED
    BY <1>4, <2>1, SeqDef
<1>9. ElementsOf(ts) = CopiesTo(MovesOf(d), {q}, new)
  <2>1. ASSUME NEW x \in ElementsOf(ts) PROVE x \in CopiesTo(MovesOf(d), {q}, new)
    <3>1. PICK k \in 1 .. Len(w) : x = <<w[k][1], w[k][2], new>>
      BY <1>6, <1>8 DEF ElementsOf
    <3>2. w[k] \in ElementsOf(w)
      BY <1>4 DEF ElementsOf
    <3>3. w[k] \in MovesOf(d) /\ w[k][3] = q
      BY <1>2, <1>3, <3>2 DEF MovesTo
    <3>4. QED
      BY <3>1, <3>3 DEF CopiesTo
  <2>2. ASSUME NEW x \in CopiesTo(MovesOf(d), {q}, new) PROVE x \in ElementsOf(ts)
    <3>1. PICK m \in MovesOf(d) : m[3] = q /\ x = <<m[1], m[2], new>>
      BY DEF CopiesTo
    <3>2. m \in ElementsOf(w)
      BY <1>2, <1>3, <3>1 DEF MovesTo
    <3>3. PICK k \in 1 .. Len(w) : w[k] = m
      BY <1>4, <3>2 DEF ElementsOf
    <3>4. ts[k] = x
      BY <1>6, <3>1, <3>3
    <3>5. QED
      BY <1>8, <3>4 DEF ElementsOf
  <2>3. QED
    BY <2>1, <2>2
<1>10. \A m \in ElementsOf(ts) : m[1] < Len(d) /\ m[3] < Len(d)
  <2> SUFFICES ASSUME NEW e \in MovesOf(d) PROVE e[1] < Len(d)
    BY <1>9 DEF CopiesTo
  <2>1. e = <<e[1], e[2], e[3]>>
    BY MovesAre
  <2>2. MovedBy(d, e[1], e[2], e[3])
    BY <2>1, MovesAre
  <2>3. Len(d) \in Nat
    BY RelationIs
  <2>4. QED
    BY <2>2, <2>3 DEF MovedBy
<1>11. IsRelation(WithMoves(d, ts))
  BY <1>8, WithMovesIs
<1>12. MovesOf(WithMoves(d, ts)) = MovesOf(d) \cup ElementsOf(ts)
  BY <1>8, WithMovesIs
<1>13. Len(WithMoves(d, ts)) = Len(d)
  BY <1>8, <1>10, WithMovesIs
<1>14. QED
  BY <1>3, <1>5, <1>9, <1>11, <1>12, <1>13

(* The moves of the initial states are copied.                               *)
CopiedInitial(o, copied) ==
  LET new == num_of_states(o)
      olds == ascending(o.initial.set)
  IN copied = [n \in 0 .. Len(olds) |->
       IF n = 0 THEN WithState(o).delta
       ELSE WithMoves(copied[n - 1], FromNew(new, AllMoves(state_post(copied[n - 1], olds[n]))))]

LEMMA CopiedInitialIs ==
  ASSUME NEW o, IsObject(o), NEW d,
         d = (CHOOSE f : CopiedInitial(o, f))[Len(ascending(o.initial.set))]
  PROVE  /\ IsRelation(d) /\ Len(d) = num_of_states(o) + 1
         /\ MovesOf(d) = MovesOf(o.delta) \cup CopiesFrom(MovesOf(o.delta), o.initial.set, num_of_states(o))
<1>1. PICK N \in Nat : N = num_of_states(o)
  BY ObjectIs
<1>2. PICK S : S = o.initial.set
  OBVIOUS
<1>3. S \in SUBSET Nat /\ IsFiniteSet(S) /\ \A q \in S : q < N
  BY <1>1, <1>2, ObjectIs, ObjectTypes
<1>4. PICK olds : olds = ascending(S)
  OBVIOUS
<1>5. IsVector(olds)
  BY <1>3, <1>4, AscendingIs
<1>6. ElementsOf(olds) = S
  BY <1>3, <1>4, AscendingIs
<1>7. olds \in Seq(Nat)
  BY <1>5 DEF IsVector
<1>8. PICK L \in Nat : L = Len(olds)
  BY <1>7, LenProperties
<1>9. DOMAIN olds = 1 .. L /\ \A n \in 1 .. L : olds[n] \in Nat /\ olds[n] \in S
  <2>1. DOMAIN olds = 1 .. L
    BY <1>7, <1>8, LenProperties
  <2>2. \A n \in 1 .. L : olds[n] \in S
    BY <1>6, <2>1 DEF ElementsOf
  <2>3. QED
    BY <1>3, <2>1, <2>2
<1>10. PICK M : M = MovesOf(o.delta)
  OBVIOUS
<1>11. \A m \in M : m \in Triples /\ m = <<m[1], m[2], m[3]>> /\ m[1] < N /\ m[3] < N
  BY <1>1, <1>10, ObjectIs
<1>12. PICK g : g = WithState(o).delta
  OBVIOUS
<1>13. IsRelation(g) /\ MovesOf(g) = M /\ Len(g) = N + 1
  <2>1. Became(WithState(o), o, MovesOf(o.delta), num_of_states(o) + 1)
    BY WithStateIs
  <2>2. Len(WithState(o).delta) = num_of_states(o) + 1
    BY WithStateIs
  <2>3. IsObject(WithState(o)) /\ MovesOf(WithState(o).delta) = MovesOf(o.delta)
    BY <2>1 DEF Became
  <2>4. IsRelation(WithState(o).delta)
    BY <2>3 DEF IsObject, Objects, Relations
  <2>5. QED
    BY <1>1, <1>10, <1>12, <2>2, <2>3, <2>4
<1> DEFINE step(e, n) == WithMoves(e, FromNew(N, AllMoves(state_post(e, olds[n]))))
           Fits == {e \in Relations : Len(e) = N + 1 /\ \A m \in MovesOf(e) : m[3] < Len(e)}
           F == [n \in 1 .. L |-> [e \in Fits |-> step(e, n)]]
<1>14. ASSUME NEW n \in 1 .. L, NEW e \in Fits
       PROVE  /\ IsRelation(step(e, n)) /\ Len(step(e, n)) = N + 1
              /\ MovesOf(step(e, n)) = MovesOf(e) \cup CopiesFrom(MovesOf(e), {olds[n]}, N)
  <2>1. IsRelation(e) /\ Len(e) = N + 1 /\ N < Len(e) /\ \A m \in MovesOf(e) : m[3] < Len(e)
    BY DEF Relations
  <2>2. PICK q \in Nat : q = olds[n]
    BY <1>9
  <2>3. IsRelation(WithMoves(e, FromNew(N, AllMoves(state_post(e, q)))))
    BY <2>1, CopiedPost
  <2>4. MovesOf(WithMoves(e, FromNew(N, AllMoves(state_post(e, q))))) = MovesOf(e) \cup CopiesFrom(MovesOf(e), {q}, N)
    BY <2>1, CopiedPost
  <2>5. Len(WithMoves(e, FromNew(N, AllMoves(state_post(e, q))))) = Len(e)
    BY <2>1, CopiedPost
  <2>6. QED
    BY <2>1, <2>2, <2>3, <2>4, <2>5
<1>15. g \in Fits
  BY <1>11, <1>13 DEF Relations, IsRelation, Triples
<1> HIDE DEF step
<1>16. \A n \in 1 .. L : \A e \in Fits : step(e, n) \in Fits
  <2> SUFFICES ASSUME NEW n \in 1 .. L, NEW e \in Fits PROVE step(e, n) \in Fits
    OBVIOUS
  <2>1. /\ IsRelation(step(e, n)) /\ Len(step(e, n)) = N + 1
        /\ MovesOf(step(e, n)) = MovesOf(e) \cup CopiesFrom(MovesOf(e), {olds[n]}, N)
    BY <1>14
  <2>2. \A m \in CopiesFrom(MovesOf(e), {olds[n]}, N) : m[3] < N + 1
    BY DEF CopiesFrom
  <2>3. step(e, n) \in Relations
    BY <2>1 DEF Relations, IsRelation
  <2>4. QED
    BY <2>1, <2>2, <2>3
<1> HIDE DEF Fits
<1>17. IsStepwise(Fits, L, F)
  BY <1>16 DEF IsStepwise
<1>18. PICK f : IsRecursion(Fits, L, g, F, f)
  <2> HIDE DEF F
  <2>1. QED
    BY <1>15, <1>17, RecursionExists
<1> DEFINE EqOf(h) == h = [n \in 0 .. L |-> IF n = 0 THEN g ELSE step(h[n - 1], n)]
<1>19. \A h : EqOf(h) <=> CopiedInitial(o, h)
  BY <1>1, <1>2, <1>4, <1>8, <1>12 DEF CopiedInitial, step
<1>20. EqOf(f)
  <2>1. f \in [0 .. L -> Fits] /\ f[0] = g /\ \A n \in 1 .. L : f[n] = F[n][f[n - 1]]
    BY <1>18 DEF IsRecursion
  <2>2. \A n \in 0 .. L : f[n] = IF n = 0 THEN g ELSE step(f[n - 1], n)
    <3> SUFFICES ASSUME NEW n \in 0 .. L, n # 0 PROVE f[n] = step(f[n - 1], n)
      BY <2>1
    <3>1. n \in 1 .. L /\ n - 1 \in 0 .. L
      OBVIOUS
    <3>2. QED
      BY <2>1, <3>1
  <2>3. QED
    BY <2>1, <2>2
<1>21. PICK copied : EqOf(copied) /\ d = copied[L]
  <2> HIDE DEF EqOf
  <2>1. CopiedInitial(o, CHOOSE h : CopiedInitial(o, h))
    BY <1>19, <1>20
  <2>2. d = (CHOOSE h : CopiedInitial(o, h))[L]
    BY <1>2, <1>4, <1>8
  <2>3. QED
    BY <1>19, <2>1, <2>2
<1> DEFINE Olds(n) == {olds[k] : k \in 1 .. n}
           Good(n) == /\ IsRelation(copied[n]) /\ Len(copied[n]) = N + 1
                      /\ MovesOf(copied[n]) = M \cup CopiesFrom(M, Olds(n), N)
           T == {n \in Nat : n <= L => Good(n)}
<1>22. 0 \in T
  <2>1. copied[0] = g
    BY <1>21
  <2>2. Olds(0) = {}
    OBVIOUS
  <2>3. CopiesFrom(M, Olds(0), N) = {}
    BY <2>2 DEF CopiesFrom
  <2> HIDE DEF Olds
  <2>4. Good(0)
    BY <1>13, <2>1, <2>3
  <2> HIDE DEF Good
  <2>5. QED
    BY <2>4
<1>23. ASSUME NEW n \in Nat, n \in T PROVE n + 1 \in T
  <2> HIDE DEF Good
  <2> SUFFICES ASSUME n + 1 <= L PROVE Good(n + 1)
    OBVIOUS
  <2>1. n + 1 \in 0 .. L /\ n + 1 # 0 /\ (n + 1) - 1 = n /\ n + 1 \in 1 .. L /\ n <= L
    OBVIOUS
  <2>2. Good(n)
    BY <1>23, <2>1
  <2>3. copied[n + 1] = step(copied[n], n + 1)
    BY <1>21, <2>1
  <2>4. PICK q \in Nat : q = olds[n + 1] /\ q < N
    BY <1>3, <1>9, <2>1
  <2>5. Olds(n + 1) = Olds(n) \cup {q}
    <3>1. \A k : k \in 1 .. n + 1 <=> k \in 1 .. n \/ k = n + 1
      OBVIOUS
    <3>2. QED
      BY <2>4, <3>1
  <2> HIDE DEF Olds
  <2>6. PICK e : e = copied[n]
    OBVIOUS
  <2>7. IsRelation(e) /\ Len(e) = N + 1 /\ MovesOf(e) = M \cup CopiesFrom(M, Olds(n), N)
    BY <2>2, <2>6 DEF Good
  <2>8. e \in Fits
    <3>1. \A m \in CopiesFrom(M, Olds(n), N) : m[3] < N + 1
      BY <1>11 DEF CopiesFrom, Triples
    <3>2. \A m \in M : m[3] < N + 1
      BY <1>11 DEF Triples
    <3>3. e \in Relations
      BY <2>7 DEF Relations, IsRelation
    <3>4. QED
      BY <2>7, <3>1, <3>2, <3>3 DEF Fits
  <2>9. /\ IsRelation(copied[n + 1]) /\ Len(copied[n + 1]) = N + 1
        /\ MovesOf(copied[n + 1]) = MovesOf(e) \cup CopiesFrom(MovesOf(e), {q}, N)
    BY <1>14, <2>1, <2>3, <2>4, <2>6, <2>8
  <2>10. CopiesFrom(MovesOf(e), {q}, N) = CopiesFrom(M, {q}, N)
    <3>1. \A m \in CopiesFrom(M, Olds(n), N) : m[1] = N /\ m[1] # q
      BY <2>4 DEF CopiesFrom
    <3>2. \A m : m \in MovesOf(e) /\ m[1] \in {q} <=> m \in M /\ m[1] \in {q}
      BY <2>7, <3>1
    <3>3. QED
      BY <3>2 DEF CopiesFrom
  <2>11. CopiesFrom(M, Olds(n + 1), N) = CopiesFrom(M, Olds(n), N) \cup CopiesFrom(M, {q}, N)
    BY <2>5 DEF CopiesFrom
  <2>12. QED
    BY <2>7, <2>9, <2>10, <2>11 DEF Good
<1>24. Good(L)
  <2> HIDE DEF Good
  <2>1. L \in T
    <3> HIDE DEF T
    <3>1. QED
      BY <1>22, <1>23, SetInduction
  <2>2. QED
    BY <2>1
<1>25. Olds(L) = S
  BY <1>6, <1>9 DEF ElementsOf
<1>26. QED
  BY <1>1, <1>2, <1>10, <1>21, <1>24, <1>25

(* The moves to the final states are copied.                                 *)
CopiedFinal(o, copied) ==
  LET new == num_of_states(o)
      olds == ascending(o.final.set)
  IN copied = [n \in 0 .. Len(olds) |->
       IF n = 0 THEN WithState(o).delta
       ELSE WithMoves(copied[n - 1], ToNew(new, get_transitions_to(copied[n - 1], olds[n])))]

LEMMA CopiedFinalIs ==
  ASSUME NEW o, IsObject(o), NEW d,
         d = (CHOOSE f : CopiedFinal(o, f))[Len(ascending(o.final.set))]
  PROVE  /\ IsRelation(d) /\ Len(d) = num_of_states(o) + 1
         /\ MovesOf(d) = MovesOf(o.delta) \cup CopiesTo(MovesOf(o.delta), o.final.set, num_of_states(o))
<1>1. PICK N \in Nat : N = num_of_states(o)
  BY ObjectIs
<1>2. PICK S : S = o.final.set
  OBVIOUS
<1>3. S \in SUBSET Nat /\ IsFiniteSet(S) /\ \A q \in S : q < N
  BY <1>1, <1>2, ObjectIs, ObjectTypes
<1>4. PICK olds : olds = ascending(S)
  OBVIOUS
<1>5. IsVector(olds)
  BY <1>3, <1>4, AscendingIs
<1>6. ElementsOf(olds) = S
  BY <1>3, <1>4, AscendingIs
<1>7. olds \in Seq(Nat)
  BY <1>5 DEF IsVector
<1>8. PICK L \in Nat : L = Len(olds)
  BY <1>7, LenProperties
<1>9. DOMAIN olds = 1 .. L /\ \A n \in 1 .. L : olds[n] \in Nat /\ olds[n] \in S
  <2>1. DOMAIN olds = 1 .. L
    BY <1>7, <1>8, LenProperties
  <2>2. \A n \in 1 .. L : olds[n] \in S
    BY <1>6, <2>1 DEF ElementsOf
  <2>3. QED
    BY <1>3, <2>1, <2>2
<1>10. PICK M : M = MovesOf(o.delta)
  OBVIOUS
<1>11. \A m \in M : m \in Triples /\ m = <<m[1], m[2], m[3]>> /\ m[1] < N /\ m[3] < N
  BY <1>1, <1>10, ObjectIs
<1>12. PICK g : g = WithState(o).delta
  OBVIOUS
<1>13. IsRelation(g) /\ MovesOf(g) = M /\ Len(g) = N + 1
  <2>1. Became(WithState(o), o, MovesOf(o.delta), num_of_states(o) + 1)
    BY WithStateIs
  <2>2. Len(WithState(o).delta) = num_of_states(o) + 1
    BY WithStateIs
  <2>3. IsObject(WithState(o)) /\ MovesOf(WithState(o).delta) = MovesOf(o.delta)
    BY <2>1 DEF Became
  <2>4. IsRelation(WithState(o).delta)
    BY <2>3 DEF IsObject, Objects, Relations
  <2>5. QED
    BY <1>1, <1>10, <1>12, <2>2, <2>3, <2>4
<1> DEFINE step(e, n) == WithMoves(e, ToNew(N, get_transitions_to(e, olds[n])))
           Fits == {e \in Relations : Len(e) = N + 1 /\ \A m \in MovesOf(e) : m[3] < Len(e)}
           F == [n \in 1 .. L |-> [e \in Fits |-> step(e, n)]]
<1>14. ASSUME NEW n \in 1 .. L, NEW e \in Fits
       PROVE  /\ IsRelation(step(e, n)) /\ Len(step(e, n)) = N + 1
              /\ MovesOf(step(e, n)) = MovesOf(e) \cup CopiesTo(MovesOf(e), {olds[n]}, N)
  <2>1. IsRelation(e) /\ Len(e) = N + 1 /\ N < Len(e) /\ \A m \in MovesOf(e) : m[3] < Len(e)
    BY DEF Relations
  <2>2. PICK q \in Nat : q = olds[n]
    BY <1>9
  <2>3. IsRelation(WithMoves(e, ToNew(N, get_transitions_to(e, q))))
    BY <2>1, CopiedMoves
  <2>4. MovesOf(WithMoves(e, ToNew(N, get_transitions_to(e, q)))) = MovesOf(e) \cup CopiesTo(MovesOf(e), {q}, N)
    BY <2>1, CopiedMoves
  <2>5. Len(WithMoves(e, ToNew(N, get_transitions_to(e, q)))) = Len(e)
    BY <2>1, CopiedMoves
  <2>6. QED
    BY <2>1, <2>2, <2>3, <2>4, <2>5
<1>15. g \in Fits
  BY <1>11, <1>13 DEF Relations, IsRelation, Triples
<1> HIDE DEF step
<1>16. \A n \in 1 .. L : \A e \in Fits : step(e, n) \in Fits
  <2> SUFFICES ASSUME NEW n \in 1 .. L, NEW e \in Fits PROVE step(e, n) \in Fits
    OBVIOUS
  <2>1. /\ IsRelation(step(e, n)) /\ Len(step(e, n)) = N + 1
        /\ MovesOf(step(e, n)) = MovesOf(e) \cup CopiesTo(MovesOf(e), {olds[n]}, N)
    BY <1>14
  <2>2. \A m \in CopiesTo(MovesOf(e), {olds[n]}, N) : m[3] < N + 1
    BY DEF CopiesTo
  <2>3. step(e, n) \in Relations
    BY <2>1 DEF Relations, IsRelation
  <2>4. QED
    BY <2>1, <2>2, <2>3
<1> HIDE DEF Fits
<1>17. IsStepwise(Fits, L, F)
  BY <1>16 DEF IsStepwise
<1>18. PICK f : IsRecursion(Fits, L, g, F, f)
  <2> HIDE DEF F
  <2>1. QED
    BY <1>15, <1>17, RecursionExists
<1> DEFINE EqOf(h) == h = [n \in 0 .. L |-> IF n = 0 THEN g ELSE step(h[n - 1], n)]
<1>19. \A h : EqOf(h) <=> CopiedFinal(o, h)
  BY <1>1, <1>2, <1>4, <1>8, <1>12 DEF CopiedFinal, step
<1>20. EqOf(f)
  <2>1. f \in [0 .. L -> Fits] /\ f[0] = g /\ \A n \in 1 .. L : f[n] = F[n][f[n - 1]]
    BY <1>18 DEF IsRecursion
  <2>2. \A n \in 0 .. L : f[n] = IF n = 0 THEN g ELSE step(f[n - 1], n)
    <3> SUFFICES ASSUME NEW n \in 0 .. L, n # 0 PROVE f[n] = step(f[n - 1], n)
      BY <2>1
    <3>1. n \in 1 .. L /\ n - 1 \in 0 .. L
      OBVIOUS
    <3>2. QED
      BY <2>1, <3>1
  <2>3. QED
    BY <2>1, <2>2
<1>21. PICK copied : EqOf(copied) /\ d = copied[L]
  <2> HIDE DEF EqOf
  <2>1. CopiedFinal(o, CHOOSE h : CopiedFinal(o, h))
    BY <1>19, <1>20
  <2>2. d = (CHOOSE h : CopiedFinal(o, h))[L]
    BY <1>2, <1>4, <1>8
  <2>3. QED
    BY <1>19, <2>1, <2>2
<1> DEFINE Olds(n) == {olds[k] : k \in 1 .. n}
           Good(n) == /\ IsRelation(copied[n]) /\ Len(copied[n]) = N + 1
                      /\ MovesOf(copied[n]) = M \cup CopiesTo(M, Olds(n), N)
           T == {n \in Nat : n <= L => Good(n)}
<1>22. 0 \in T
  <2>1. copied[0] = g
    BY <1>21
  <2>2. Olds(0) = {}
    OBVIOUS
  <2>3. CopiesTo(M, Olds(0), N) = {}
    BY <2>2 DEF CopiesTo
  <2> HIDE DEF Olds
  <2>4. Good(0)
    BY <1>13, <2>1, <2>3
  <2> HIDE DEF Good
  <2>5. QED
    BY <2>4
<1>23. ASSUME NEW n \in Nat, n \in T PROVE n + 1 \in T
  <2> HIDE DEF Good
  <2> SUFFICES ASSUME n + 1 <= L PROVE Good(n + 1)
    OBVIOUS
  <2>1. n + 1 \in 0 .. L /\ n + 1 # 0 /\ (n + 1) - 1 = n /\ n + 1 \in 1 .. L /\ n <= L
    OBVIOUS
  <2>2. Good(n)
    BY <1>23, <2>1
  <2>3. copied[n + 1] = step(copied[n], n + 1)
    BY <1>21, <2>1
  <2>4. PICK q \in Nat : q = olds[n + 1] /\ q < N
    BY <1>3, <1>9, <2>1
  <2>5. Olds(n + 1) = Olds(n) \cup {q}
    <3>1. \A k : k \in 1 .. n + 1 <=> k \in 1 .. n \/ k = n + 1
      OBVIOUS
    <3>2. QED
      BY <2>4, <3>1
  <2> HIDE DEF Olds
  <2>6. PICK e : e = copied[n]
    OBVIOUS
  <2>7. IsRelation(e) /\ Len(e) = N + 1 /\ MovesOf(e) = M \cup CopiesTo(M, Olds(n), N)
    BY <2>2, <2>6 DEF Good
  <2>8. e \in Fits
    <3>1. \A m \in CopiesTo(M, Olds(n), N) : m[3] < N + 1
      BY <1>11 DEF CopiesTo, Triples
    <3>2. \A m \in M : m[3] < N + 1
      BY <1>11 DEF Triples
    <3>3. e \in Relations
      BY <2>7 DEF Relations, IsRelation
    <3>4. QED
      BY <2>7, <3>1, <3>2, <3>3 DEF Fits
  <2>9. /\ IsRelation(copied[n + 1]) /\ Len(copied[n + 1]) = N + 1
        /\ MovesOf(copied[n + 1]) = MovesOf(e) \cup CopiesTo(MovesOf(e), {q}, N)
    BY <1>14, <2>1, <2>3, <2>4, <2>6, <2>8
  <2>10. CopiesTo(MovesOf(e), {q}, N) = CopiesTo(M, {q}, N)
    <3>1. \A m \in CopiesTo(M, Olds(n), N) : m[3] = N /\ m[3] # q
      BY <2>4 DEF CopiesTo
    <3>2. \A m : m \in MovesOf(e) /\ m[3] \in {q} <=> m \in M /\ m[3] \in {q}
      BY <2>7, <3>1
    <3>3. QED
      BY <3>2 DEF CopiesTo
  <2>11. CopiesTo(M, Olds(n + 1), N) = CopiesTo(M, Olds(n), N) \cup CopiesTo(M, {q}, N)
    BY <2>5 DEF CopiesTo
  <2>12. QED
    BY <2>7, <2>9, <2>10, <2>11 DEF Good
<1>24. Good(L)
  <2> HIDE DEF Good
  <2>1. L \in T
    <3> HIDE DEF T
    <3>1. QED
      BY <1>22, <1>23, SetInduction
  <2>2. QED
    BY <2>1
<1>25. Olds(L) = S
  BY <1>6, <1>9 DEF ElementsOf
<1>26. QED
  BY <1>1, <1>2, <1>10, <1>21, <1>24, <1>25

------------------------------------------------------------------------------
(* The other calls that change the transitions.                             *)

LEMMA WithStateNumberIs ==
  ASSUME NEW o, IsObject(o), NEW q \in Nat
  PROVE  Became([o EXCEPT !.delta = allocate(@, q + 1)], o, MovesOf(o.delta), Larger(num_of_states(o), q + 1))
<1>1. PICK e : e = o.delta
  OBVIOUS
<1>2. o \in Objects
  BY DEF IsObject
<1>3. IsRelation(e) /\ Len(e) \in Nat /\ num_of_states(o) \in Nat /\ Len(e) <= num_of_states(o)
  BY <1>1, <1>2, ObjectTypes
<1>4. PICK n \in Nat : n = q + 1
  OBVIOUS
<1>5. PICK d : d = allocate(e, n)
  OBVIOUS
<1>6. IsRelation(d)
  BY <1>3, <1>5, AllocateIs
<1>7. MovesOf(d) = MovesOf(e)
  BY <1>3, <1>5, AllocateIs
<1>8. Len(d) = Larger(Len(e), n)
  BY <1>3, <1>5, AllocateIs
<1>9. Len(e) <= Len(d) /\ Larger(num_of_states(o), Len(d)) = Larger(num_of_states(o), n)
  BY <1>3, <1>8 DEF Larger
<1>10. \A m \in MovesOf(d) : m[3] < Larger(num_of_states(o), Len(d))
  <2> SUFFICES ASSUME NEW m \in MovesOf(o.delta) PROVE m[3] < Larger(num_of_states(o), n)
    BY <1>1, <1>7, <1>9
  <2>1. m \in Triples /\ m[3] < num_of_states(o)
    BY ObjectIs
  <2>2. QED
    BY <1>3, <2>1 DEF Triples, Larger
<1>11. Became([o EXCEPT !.delta = d], o, MovesOf(d), Larger(num_of_states(o), Len(d)))
  BY <1>1, <1>6, <1>9, <1>10, DeltaReplaced
<1>12. QED
  BY <1>1, <1>4, <1>5, <1>7, <1>9, <1>11

(* What add comes to, in one formula.                                       *)
AddsTo(d, s, a, ts, w) ==
  /\ IsRelation(w) /\ MovesOf(w) = MovesOf(d) \cup ({s} \X {a} \X ElementsOf(ts))
  /\ ts # << >> => Len(w) = Larger(Len(d), 1 + Larger(s, ts[Len(ts)]))

LEMMA AddComesTo ==
  ASSUME NEW d, IsRelation(d), NEW s \in Nat, NEW a \in Nat, NEW ts, IsVector(ts)
  PROVE  AddsTo(d, s, a, ts, add(d, s, a, ts))
<1>1. IsRelation(add(d, s, a, ts))
  BY AddIs
<1>2. MovesOf(add(d, s, a, ts)) = MovesOf(d) \cup ({s} \X {a} \X ElementsOf(ts))
  BY AddIs
<1>3. ts # << >> => Len(add(d, s, a, ts)) = Larger(Len(d), 1 + Larger(s, ts[Len(ts)]))
  BY AddIs
<1>4. QED
  BY <1>1, <1>2, <1>3 DEF AddsTo

LEMMA WithTargetsIs ==
  ASSUME NEW o, IsObject(o), NEW s \in Nat, NEW a \in Nat, NEW A \in SUBSET Nat, IsFiniteSet(A), A # {}
  PROVE  \E last \in A \cup {s} :
           /\ \A q \in A \cup {s} : q <= last
           /\ Became([o EXCEPT !.delta = add(@, s, a, ascending(A))], o,
                     MovesOf(o.delta) \cup ({s} \X {a} \X A), Larger(num_of_states(o), last + 1))
<1>1. PICK e : e = o.delta
  OBVIOUS
<1>2. o \in Objects
  BY DEF IsObject
<1>3. IsRelation(e) /\ Len(e) \in Nat /\ num_of_states(o) \in Nat /\ Len(e) <= num_of_states(o)
  BY <1>1, <1>2, ObjectTypes
<1>4. PICK ts : ts = ascending(A)
  OBVIOUS
<1>5. IsVector(ts)
  BY <1>4, AscendingIs
<1>6. ElementsOf(ts) = A
  BY <1>4, AscendingIs
<1>7. ts # << >>
  BY <1>6, EmptyIsVector
<1>8. PICK z \in Nat : z = ts[Len(ts)] /\ z \in A /\ \A x \in A : x <= z
  <2>1. ts[Len(ts)] \in ElementsOf(ts) /\ ts[Len(ts)] \in Nat /\ \A x \in ElementsOf(ts) : x <= ts[Len(ts)]
    BY <1>5, <1>7, LastIsLargest
  <2>2. QED
    BY <1>6, <2>1
<1>9. PICK last \in A \cup {s} : last = Larger(s, z) /\ last \in Nat
  BY <1>8 DEF Larger
<1>10. \A q \in A \cup {s} : q <= last
  BY <1>8, <1>9 DEF Larger
<1>11. PICK d : d = add(e, s, a, ts)
  OBVIOUS
<1>12. IsRelation(d)
  BY <1>3, <1>5, <1>11, AddIs
<1>13. MovesOf(d) = MovesOf(e) \cup ({s} \X {a} \X A)
  <2>1. MovesOf(add(e, s, a, ts)) = MovesOf(e) \cup ({s} \X {a} \X ElementsOf(ts))
    BY <1>3, <1>5, AddIs
  <2>2. QED
    BY <1>6, <1>11, <2>1
<1>14. Len(d) = Larger(Len(e), 1 + last)
  <2>1. IsRelation(e)
    BY <1>3
  <2>2. AddsTo(e, s, a, ts, d)
    BY <1>5, <1>11, <2>1, AddComesTo
  <2>3. QED
    BY <1>7, <1>8, <1>9, <2>2 DEF AddsTo
<1>15. Len(e) <= Len(d) /\ Larger(num_of_states(o), Len(d)) = Larger(num_of_states(o), last + 1)
  BY <1>3, <1>9, <1>14 DEF Larger
<1>16. \A m \in MovesOf(d) : m[3] < Larger(num_of_states(o), Len(d))
  <2>1. ASSUME NEW m \in MovesOf(o.delta) PROVE m[3] < Larger(num_of_states(o), last + 1)
    <3>1. m \in Triples /\ m[3] < num_of_states(o)
      BY ObjectIs
    <3>2. QED
      BY <1>3, <1>9, <3>1 DEF Triples, Larger
  <2>2. ASSUME NEW m \in {s} \X {a} \X A PROVE m[3] < Larger(num_of_states(o), last + 1)
    <3>1. m[3] \in A /\ m[3] \in Nat
      OBVIOUS
    <3>2. m[3] <= last
      BY <1>10, <3>1
    <3>3. QED
      BY <1>3, <1>9, <3>1, <3>2 DEF Larger
  <2>3. QED
    BY <1>1, <1>13, <1>15, <2>1, <2>2
<1>17. Became([o EXCEPT !.delta = d], o, MovesOf(d), Larger(num_of_states(o), Len(d)))
  BY <1>1, <1>12, <1>15, <1>16, DeltaReplaced
<1>18. Became([o EXCEPT !.delta = add(@, s, a, ascending(A))], o,
              MovesOf(o.delta) \cup ({s} \X {a} \X A), Larger(num_of_states(o), last + 1))
  BY <1>1, <1>4, <1>11, <1>13, <1>15, <1>17
<1>19. QED
  BY <1>10, <1>18

LEMMA WithoutTargetsIs ==
  ASSUME NEW o, IsObject(o), NEW s, NEW a
  PROVE  [o EXCEPT !.delta = add(@, s, a, ascending({}))] = o
<1>1. IsVector(ascending({})) /\ ElementsOf(ascending({})) = {}
  BY AscendingIs, FS_EmptySet
<1>2. ascending({}) = << >>
  <2>1. PICK v : v = ascending({})
    OBVIOUS
  <2>2. v \in Seq(Nat) /\ ElementsOf(v) = {}
    BY <1>1, <2>1 DEF IsVector
  <2>3. Len(v) \in Nat /\ DOMAIN v = 1 .. Len(v)
    BY <2>2, LenProperties
  <2>4. Len(v) = 0
    <3> SUFFICES ASSUME Len(v) # 0 PROVE FALSE
      OBVIOUS
    <3>1. 1 \in 1 .. Len(v)
      BY <2>3
    <3>2. v[1] \in ElementsOf(v)
      BY <2>3, <3>1 DEF ElementsOf
    <3>3. QED
      BY <2>2, <3>2
  <2>5. v = << >>
    BY <2>2, <2>4, EmptySeq
  <2>6. QED
    BY <2>1, <2>5
<1>3. add(o.delta, s, a, << >>) = o.delta
  BY DEF add
<1>4. o \in Objects
  BY DEF IsObject
<1>5. QED
  BY <1>2, <1>3, <1>4 DEF Objects

LEMMA WithoutMoveIs ==
  ASSUME NEW o, IsObject(o), NEW s \in Nat, NEW a \in Nat, NEW t \in Nat
  PROVE  /\ Became([o EXCEPT !.delta = remove(@, s, a, t)], o, MovesOf(o.delta) \ {<<s, a, t>>}, num_of_states(o))
         /\ RemoveThrows(o.delta, s, a) => <<s, a, t>> \notin MovesOf(o.delta)
<1>1. PICK e : e = o.delta
  OBVIOUS
<1>2. o \in Objects
  BY DEF IsObject
<1>3. IsRelation(e) /\ Len(e) \in Nat /\ num_of_states(o) \in Nat /\ Len(e) <= num_of_states(o)
  BY <1>1, <1>2, ObjectTypes
<1>4. PICK d : d = remove(e, s, a, t)
  OBVIOUS
<1>5. RemovesTo(e, s, a, t, d)
  BY <1>3, <1>4, RemoveIs
<1>6. IsRelation(d) /\ Len(d) = Len(e)
  BY <1>5 DEF RemovesTo
<1>7. MovesOf(d) = MovesOf(e) \ {<<s, a, t>>}
  BY <1>5 DEF RemovesTo
<1>8. RemoveThrows(e, s, a) => <<s, a, t>> \notin MovesOf(e)
  BY <1>3, RemoveIs
<1>9. Len(e) <= Len(d) /\ Larger(num_of_states(o), Len(d)) = num_of_states(o)
  BY <1>3, <1>6 DEF Larger
<1>10. \A m \in MovesOf(d) : m[3] < Larger(num_of_states(o), Len(d))
  BY <1>1, <1>7, <1>9, ObjectIs
<1>11. Became([o EXCEPT !.delta = d], o, MovesOf(d), Larger(num_of_states(o), Len(d)))
  BY <1>1, <1>6, <1>9, <1>10, DeltaReplaced
<1>12. QED
  BY <1>1, <1>4, <1>7, <1>8, <1>9, <1>11

------------------------------------------------------------------------------
(* Calls on the sets of states.                                             *)

FitsSet(S) == S \in SparseSets /\ \A q \in S.set : q < S.domain_size

LEMMA InsertedFits ==
  ASSUME NEW S, FitsSet(S), NEW q \in Nat
  PROVE  /\ FitsSet(Inserted(S, q)) /\ Inserted(S, q).set = S.set \cup {q}
         /\ Inserted(S, q).domain_size = Larger(S.domain_size, q + 1)
<1>1. S.set \in SUBSET Nat /\ S.domain_size \in Nat
  BY DEF FitsSet, SparseSets
<1>2. Larger(S.domain_size, q + 1) \in Nat /\ q < Larger(S.domain_size, q + 1)
      /\ \A p \in S.set : p < Larger(S.domain_size, q + 1)
  BY <1>1 DEF FitsSet, Larger
<1>3. QED
  BY <1>1, <1>2 DEF FitsSet, SparseSets, Inserted, Sparse

LEMMA ErasedFits ==
  ASSUME NEW S, FitsSet(S), NEW q
  PROVE  FitsSet(Erased(S, q)) /\ Erased(S, q).set = S.set \ {q} /\ Erased(S, q).domain_size = S.domain_size
BY DEF FitsSet, SparseSets, Erased, Sparse

LEMMA ClearedFits ==
  ASSUME NEW S, FitsSet(S)
  PROVE  FitsSet(Cleared(S)) /\ Cleared(S).set = {} /\ Cleared(S).domain_size = S.domain_size
BY DEF FitsSet, SparseSets, Cleared, Sparse

LEMMA ComplementedFits ==
  ASSUME NEW S, FitsSet(S), NEW n \in Nat
  PROVE  /\ FitsSet(Complemented(S, n)) /\ Complemented(S, n).set = (0 .. n - 1) \ S.set
         /\ Complemented(S, n).domain_size = Larger(S.domain_size, n)
<1>1. S.domain_size \in Nat
  BY DEF FitsSet, SparseSets
<1>2. Larger(S.domain_size, n) \in Nat /\ n <= Larger(S.domain_size, n)
  BY <1>1 DEF Larger
<1>3. \A q \in 0 .. n - 1 : q \in Nat /\ q < Larger(S.domain_size, n)
  BY <1>2
<1>4. QED
  BY <1>2, <1>3 DEF FitsSet, SparseSets, Complemented, Sparse

(* An object of a relation and two sets whose states it counts.             *)
LEMMA ObjectOf ==
  ASSUME NEW d, IsRelation(d), NEW I, FitsSet(I), NEW G, FitsSet(G), NEW w,
         w = [delta |-> d, initial |-> I, final |-> G],
         \A m \in MovesOf(d) : m[3] < num_of_states(w)
  PROVE  /\ IsObject(w) /\ w.delta = d /\ w.initial = I /\ w.final = G
         /\ num_of_states(w) = Larger(Larger(I.domain_size, G.domain_size), Len(d))
<1>1. w.delta = d /\ w.initial = I /\ w.final = G
  OBVIOUS
<1>2. d \in Relations /\ I \in SparseSets /\ G \in SparseSets
  BY DEF Relations, IsRelation, FitsSet
<1>3. w \in Objects
  BY <1>2 DEF Objects
<1>4. QED
  BY <1>1, <1>3 DEF IsObject, FitsSet, num_of_states

LEMMA PartsOf ==
  ASSUME NEW o, IsObject(o)
  PROVE  /\ IsRelation(o.delta) /\ FitsSet(o.initial) /\ FitsSet(o.final)
         /\ o = [delta |-> o.delta, initial |-> o.initial, final |-> o.final]
BY DEF IsObject, Objects, Relations, FitsSet

LEMMA InitialReplaced ==
  ASSUME NEW o, IsObject(o), NEW S, FitsSet(S), o.initial.domain_size <= S.domain_size
  PROVE  /\ IsObject([o EXCEPT !.initial = S])
         /\ num_of_states([o EXCEPT !.initial = S]) = Larger(num_of_states(o), S.domain_size)
         /\ [o EXCEPT !.initial = S].delta = o.delta
         /\ [o EXCEPT !.initial = S].initial = S /\ [o EXCEPT !.initial = S].final = o.final
<1>1. IsRelation(o.delta) /\ FitsSet(o.initial) /\ FitsSet(o.final)
      /\ o = [delta |-> o.delta, initial |-> o.initial, final |-> o.final]
  BY PartsOf
<1>2. PICK w : w = [delta |-> o.delta, initial |-> S, final |-> o.final]
  OBVIOUS
<1>3. [o EXCEPT !.initial = S] = w
  BY <1>1, <1>2
<1>4. /\ Len(o.delta) \in Nat /\ o.initial.domain_size \in Nat /\ o.final.domain_size \in Nat
      /\ S.domain_size \in Nat /\ num_of_states(o) \in Nat
  BY ObjectTypes DEF IsObject, FitsSet, SparseSets
<1>5. num_of_states(w) = Larger(num_of_states(o), S.domain_size) /\ num_of_states(o) <= num_of_states(w)
  BY <1>2, <1>4 DEF num_of_states, Larger
<1>6. \A m \in MovesOf(o.delta) : m[3] < num_of_states(w)
  <2> SUFFICES ASSUME NEW m \in MovesOf(o.delta) PROVE m[3] < num_of_states(w)
    OBVIOUS
  <2>1. m \in Triples /\ m[3] < num_of_states(o)
    BY ObjectIs
  <2>2. num_of_states(w) \in Nat
    BY <1>4, <1>5 DEF Larger
  <2>3. QED
    BY <1>4, <1>5, <2>1, <2>2 DEF Triples
<1>7. IsObject(w) /\ w.delta = o.delta /\ w.initial = S /\ w.final = o.final
  BY <1>1, <1>2, <1>6, ObjectOf
<1>8. QED
  BY <1>3, <1>5, <1>7

LEMMA FinalReplaced ==
  ASSUME NEW o, IsObject(o), NEW S, FitsSet(S), o.final.domain_size <= S.domain_size
  PROVE  /\ IsObject([o EXCEPT !.final = S])
         /\ num_of_states([o EXCEPT !.final = S]) = Larger(num_of_states(o), S.domain_size)
         /\ [o EXCEPT !.final = S].delta = o.delta
         /\ [o EXCEPT !.final = S].final = S /\ [o EXCEPT !.final = S].initial = o.initial
<1>1. IsRelation(o.delta) /\ FitsSet(o.initial) /\ FitsSet(o.final)
      /\ o = [delta |-> o.delta, initial |-> o.initial, final |-> o.final]
  BY PartsOf
<1>2. PICK w : w = [delta |-> o.delta, initial |-> o.initial, final |-> S]
  OBVIOUS
<1>3. [o EXCEPT !.final = S] = w
  BY <1>1, <1>2
<1>4. /\ Len(o.delta) \in Nat /\ o.initial.domain_size \in Nat /\ o.final.domain_size \in Nat
      /\ S.domain_size \in Nat /\ num_of_states(o) \in Nat
  BY ObjectTypes DEF IsObject, FitsSet, SparseSets
<1>5. num_of_states(w) = Larger(num_of_states(o), S.domain_size) /\ num_of_states(o) <= num_of_states(w)
  BY <1>2, <1>4 DEF num_of_states, Larger
<1>6. \A m \in MovesOf(o.delta) : m[3] < num_of_states(w)
  <2> SUFFICES ASSUME NEW m \in MovesOf(o.delta) PROVE m[3] < num_of_states(w)
    OBVIOUS
  <2>1. m \in Triples /\ m[3] < num_of_states(o)
    BY ObjectIs
  <2>2. num_of_states(w) \in Nat
    BY <1>4, <1>5 DEF Larger
  <2>3. QED
    BY <1>4, <1>5, <2>1, <2>2 DEF Triples
<1>7. IsObject(w) /\ w.delta = o.delta /\ w.final = S /\ w.initial = o.initial
  BY <1>1, <1>2, <1>6, ObjectOf
<1>8. QED
  BY <1>3, <1>5, <1>7

------------------------------------------------------------------------------
(* Each call is a call on the value.                                        *)

LEMMA AddStateImplements ==
  ASSUME IsObject(nfa), AddState
  PROVE  IsObject(nfa') /\ Value!AddState
<1>1. PICK k \in Called("add_state") : nfa' = WithState(nfa) /\ Made(k, num_of_states(nfa))
  BY DEF AddState
<1>2. PICK o : o = nfa
  OBVIOUS
<1>3. PICK w : w = nfa'
  OBVIOUS
<1>4. Became(w, o, MovesOf(o.delta), num_of_states(o) + 1)
  BY <1>1, <1>2, <1>3, WithStateIs
<1>5. /\ IsObject(nfa') /\ MovesOf(nfa'.delta) = MovesOf(nfa.delta) /\ num_of_states(nfa') = num_of_states(nfa) + 1
      /\ nfa'.initial = nfa.initial /\ nfa'.final = nfa.final
  BY <1>2, <1>3, <1>4 DEF Became
<1>6. QED
  BY <1>1, <1>5 DEF Value!AddState, Value!Made, Value!Called, Called, Made, Moves

LEMMA AddStateNumberImplements ==
  ASSUME Value!CallsTyped, IsObject(nfa), AddStateNumber
  PROVE  IsObject(nfa') /\ Value!AddStateNumber
<1>1. PICK k \in Called("add_state_of_number") :
        nfa' = [nfa EXCEPT !.delta = allocate(@, k.state + 1)] /\ Made(k, k.state)
  BY DEF AddStateNumber
<1>2. PICK q \in Nat : q = k.state
  BY <1>1 DEF Called, Value!CallsTyped
<1>3. PICK o : o = nfa
  OBVIOUS
<1>4. PICK w : w = nfa'
  OBVIOUS
<1>5. Became(w, o, MovesOf(o.delta), Larger(num_of_states(o), q + 1))
  BY <1>1, <1>2, <1>3, <1>4, WithStateNumberIs
<1>6. /\ IsObject(nfa') /\ MovesOf(nfa'.delta) = MovesOf(nfa.delta)
      /\ num_of_states(nfa') = Larger(num_of_states(nfa), k.state + 1)
      /\ nfa'.initial = nfa.initial /\ nfa'.final = nfa.final
  BY <1>2, <1>3, <1>4, <1>5 DEF Became
<1>7. QED
  BY <1>1, <1>6 DEF Value!AddStateNumber, Value!Made, Value!Called, Value!Larger, Larger, Called, Made, Moves

LEMMA AddImplements ==
  ASSUME Value!CallsTyped, IsObject(nfa), Add
  PROVE  IsObject(nfa') /\ Value!Add
<1>1. PICK k \in Called("add") :
        nfa' = [nfa EXCEPT !.delta = add(@, k.source, k.symbol, ascending(k.targets))] /\ Made(k, "done")
  BY DEF Add
<1>2. PICK s \in Nat, a \in Nat, A \in SUBSET Nat :
        s = k.source /\ a = k.symbol /\ A = k.targets /\ IsFiniteSet(A)
  <2>1. k.source \in Nat /\ k.symbol \in Nat /\ k.targets \in SUBSET Nat /\ Value!IsFiniteSet(k.targets)
    BY <1>1 DEF Called, Value!CallsTyped
  <2>2. IsFiniteSet(k.targets)
    BY <2>1 DEF IsFiniteSet, Value!IsFiniteSet
  <2>3. QED
    BY <2>1, <2>2
<1>3. PICK o : o = nfa
  OBVIOUS
<1>4. PICK w : w = nfa'
  OBVIOUS
<1>5. w = [o EXCEPT !.delta = add(@, s, a, ascending(A))]
  BY <1>1, <1>2, <1>3, <1>4
<1>6. CASE A = {}
  <2>1. w = o
    BY <1>3, <1>5, <1>6, WithoutTargetsIs
  <2>2. /\ IsObject(nfa') /\ MovesOf(nfa'.delta) = MovesOf(nfa.delta)
        /\ num_of_states(nfa') = num_of_states(nfa)
        /\ nfa'.initial = nfa.initial /\ nfa'.final = nfa.final
    BY <1>3, <1>4, <2>1
  <2>3. k.targets = {} /\ {k.source} \X {k.symbol} \X k.targets = {}
    BY <1>2, <1>6
  <2>4. QED
    BY <1>1, <2>2, <2>3 DEF Value!Add, Value!Made, Value!Called, Called, Made, Moves
<1>7. CASE A # {}
  <2>1. PICK last \in A \cup {s} :
          /\ \A q \in A \cup {s} : q <= last
          /\ Became(w, o, MovesOf(o.delta) \cup ({s} \X {a} \X A), Larger(num_of_states(o), last + 1))
    <3>1. IsObject(o)
      BY <1>3
    <3>2. \E last \in A \cup {s} :
           /\ \A q \in A \cup {s} : q <= last
           /\ Became([o EXCEPT !.delta = add(@, s, a, ascending(A))], o,
                     MovesOf(o.delta) \cup ({s} \X {a} \X A), Larger(num_of_states(o), last + 1))
      BY <1>2, <1>7, <3>1, WithTargetsIs
    <3>3. QED
      BY <1>5, <3>2
  <2>2. /\ IsObject(nfa') /\ MovesOf(nfa'.delta) = MovesOf(nfa.delta) \cup ({k.source} \X {k.symbol} \X k.targets)
        /\ num_of_states(nfa') = Larger(num_of_states(nfa), last + 1)
        /\ nfa'.initial = nfa.initial /\ nfa'.final = nfa.final
    BY <1>2, <1>3, <1>4, <2>1 DEF Became
  <2>3. k.targets # {} /\ last \in k.targets \cup {k.source} /\ \A q \in k.targets \cup {k.source} : q <= last
    BY <1>2, <1>7, <2>1
  <2>4. QED
    BY <1>1, <2>2, <2>3 DEF Value!Add, Value!Made, Value!Called, Value!Larger, Larger, Called, Made, Moves
<1>8. QED
  BY <1>6, <1>7

LEMMA RemoveImplements ==
  ASSUME Value!CallsTyped, IsObject(nfa), Remove
  PROVE  IsObject(nfa') /\ Value!Remove
<1>1. PICK k \in Called("remove") :
        /\ nfa' = [nfa EXCEPT !.delta = remove(@, k.source, k.symbol, k.target)]
        /\ Made(k, IF RemoveThrows(nfa.delta, k.source, k.symbol) THEN "invalid_argument" ELSE "done")
  BY DEF Remove
<1>2. PICK s \in Nat, a \in Nat, t \in Nat : s = k.source /\ a = k.symbol /\ t = k.target
  <2>1. k.source \in Nat /\ k.symbol \in Nat /\ k.target \in Nat
    BY <1>1 DEF Called, Value!CallsTyped
  <2>2. QED
    BY <2>1
<1>3. PICK o : o = nfa
  OBVIOUS
<1>4. PICK w : w = nfa'
  OBVIOUS
<1>5. IsObject(o)
  BY <1>3
<1>6. Became([o EXCEPT !.delta = remove(@, s, a, t)], o, MovesOf(o.delta) \ {<<s, a, t>>}, num_of_states(o))
  BY <1>5, WithoutMoveIs
<1>7. RemoveThrows(o.delta, s, a) => <<s, a, t>> \notin MovesOf(o.delta)
  BY <1>5, WithoutMoveIs
<1>8. w = [o EXCEPT !.delta = remove(@, s, a, t)]
  BY <1>1, <1>2, <1>3, <1>4
<1>9. /\ IsObject(nfa') /\ MovesOf(nfa'.delta) = MovesOf(nfa.delta) \ {<<k.source, k.symbol, k.target>>}
      /\ num_of_states(nfa') = num_of_states(nfa)
      /\ nfa'.initial = nfa.initial /\ nfa'.final = nfa.final
  BY <1>2, <1>3, <1>4, <1>6, <1>8 DEF Became
<1>10. RemoveThrows(nfa.delta, k.source, k.symbol) => <<k.source, k.symbol, k.target>> \notin MovesOf(nfa.delta)
  BY <1>2, <1>3, <1>7
<1>11. QED
  BY <1>1, <1>9, <1>10 DEF Value!Remove, Value!Made, Value!Called, Called, Made, Moves

(* The path of a word as both modules have it.                              *)
LEMMA PathsAgree ==
  ASSUME NEW word \in Seq(Nat), NEW s \in Nat, NEW t \in Nat, NEW n \in Nat
  PROVE  /\ SpelledBy(word, PathOver(word, s, t, n))
              = Value!SpelledOver(word,
                  [k \in 1 .. (Len(word) - 1) + 2 |-> IF k = 1 THEN s
                                                      ELSE IF k = (Len(word) - 1) + 2 THEN t ELSE n + k - 2])
         /\ SpelledBy(word, PathOver(word, s, t, n + 1))
              = Value!SpelledOver(word,
                  [k \in 1 .. (Len(word) - 1) + 2 |-> IF k = 1 THEN s
                                                      ELSE IF k = (Len(word) - 1) + 2 THEN t ELSE n + k - 1])
<1>1. PICK L \in Nat : L = Len(word) /\ DOMAIN word = 1 .. L
  BY LenProperties
<1>2. (L - 1) + 2 = L + 1
  OBVIOUS
<1>3. PathOver(word, s, t, n)
        = [k \in 1 .. (L - 1) + 2 |-> IF k = 1 THEN s ELSE IF k = (L - 1) + 2 THEN t ELSE n + k - 2]
  BY <1>1, <1>2 DEF PathOver
<1>4. PathOver(word, s, t, n + 1)
        = [k \in 1 .. (L - 1) + 2 |-> IF k = 1 THEN s ELSE IF k = (L - 1) + 2 THEN t ELSE n + k - 1]
  <2>1. \A k \in 1 .. L + 1 : (n + 1) + k - 2 = n + k - 1
    OBVIOUS
  <2>2. PathOver(word, s, t, n + 1)
          = [k \in 1 .. L + 1 |-> IF k = 1 THEN s ELSE IF k = L + 1 THEN t ELSE (n + 1) + k - 2]
    BY <1>1 DEF PathOver
  <2>3. QED
    BY <1>2, <2>1, <2>2
<1>5. \A path : SpelledBy(word, path) = Value!SpelledOver(word, path)
  BY <1>1 DEF SpelledBy, Value!SpelledOver
<1>6. QED
  BY <1>1, <1>3, <1>4, <1>5

LEMMA InsertWordImplements ==
  ASSUME Value!CallsTyped, IsObject(nfa), InsertWord
  PROVE  IsObject(nfa') /\ Value!InsertWord
<1>1. PICK k \in Called("insert_word") :
        /\ k.source < num_of_states(nfa) /\ k.target < num_of_states(nfa)
        /\ nfa' = WithWord(nfa, k.source, k.word, k.target) /\ Made(k, k.target)
  BY DEF InsertWord
<1>2. PICK s \in Nat, t \in Nat, word \in Seq(Nat) :
        s = k.source /\ t = k.target /\ word = k.word /\ word # << >>
  <2>1. k.source \in Nat /\ k.target \in Nat /\ k.word \in Seq(Nat) /\ k.word # << >>
    BY <1>1 DEF Called, Value!CallsTyped
  <2>2. QED
    BY <2>1
<1>3. PICK o : o = nfa
  OBVIOUS
<1>4. PICK w : w = nfa'
  OBVIOUS
<1>5. IsObject(o) /\ s < num_of_states(o) /\ t < num_of_states(o) /\ w = WithWord(o, s, word, t)
  BY <1>1, <1>2, <1>3, <1>4
<1>6. PICK n \in Nat : n = num_of_states(o)
  BY <1>5, ObjectIs
<1>7. Became(w, o, MovesOf(o.delta) \cup SpelledBy(word, PathOver(word, s, t, num_of_states(o))),
             num_of_states(o) + (Len(word) - 1))
  BY <1>2, <1>5, WithWordIs
<1>8. SpelledBy(word, PathOver(word, s, t, n))
        = Value!SpelledOver(word,
            [i \in 1 .. (Len(word) - 1) + 2 |-> IF i = 1 THEN s
                                                ELSE IF i = (Len(word) - 1) + 2 THEN t ELSE n + i - 2])
  BY PathsAgree
<1>9. /\ IsObject(nfa') /\ num_of_states(nfa') = num_of_states(nfa) + (Len(k.word) - 1)
      /\ nfa'.initial = nfa.initial /\ nfa'.final = nfa.final
      /\ MovesOf(nfa'.delta) = MovesOf(nfa.delta) \cup
           Value!SpelledOver(k.word,
             [i \in 1 .. (Len(k.word) - 1) + 2 |->
                IF i = 1 THEN k.source
                ELSE IF i = (Len(k.word) - 1) + 2 THEN k.target ELSE num_of_states(nfa) + i - 2])
  BY <1>2, <1>3, <1>4, <1>6, <1>7, <1>8 DEF Became
<1>10. QED
  BY <1>1, <1>9 DEF Value!InsertWord, Value!Made, Value!Called, Called, Made, Moves

LEMMA InsertWordToNewImplements ==
  ASSUME Value!CallsTyped, IsObject(nfa), InsertWordToNew
  PROVE  IsObject(nfa') /\ Value!InsertWordToNew
<1>1. PICK k \in Called("insert_word_to_new_state") :
        /\ k.source < num_of_states(nfa)
        /\ nfa' = WithWord(WithState(nfa), k.source, k.word, num_of_states(nfa))
        /\ Made(k, num_of_states(nfa))
  BY DEF InsertWordToNew
<1>2. PICK s \in Nat, word \in Seq(Nat) : s = k.source /\ word = k.word /\ word # << >>
  <2>1. k.source \in Nat /\ k.word \in Seq(Nat) /\ k.word # << >>
    BY <1>1 DEF Called, Value!CallsTyped
  <2>2. QED
    BY <2>1
<1>3. PICK o : o = nfa
  OBVIOUS
<1>4. PICK w : w = nfa'
  OBVIOUS
<1>5. PICK n \in Nat : n = num_of_states(o)
  BY <1>3, ObjectIs
<1>6. PICK g : g = WithState(o)
  OBVIOUS
<1>7. Became(g, o, MovesOf(o.delta), num_of_states(o) + 1)
  BY <1>3, <1>6, WithStateIs
<1>8. /\ IsObject(g) /\ num_of_states(g) = n + 1 /\ MovesOf(g.delta) = MovesOf(o.delta)
      /\ g.initial = o.initial /\ g.final = o.final
  BY <1>5, <1>7 DEF Became
<1>9. w = WithWord(g, s, word, n) /\ s < n + 1 /\ n < n + 1
  BY <1>1, <1>2, <1>3, <1>4, <1>5, <1>6
<1>10. s < num_of_states(g) /\ n < num_of_states(g)
  BY <1>8, <1>9
<1>11. Became(w, g, MovesOf(g.delta) \cup SpelledBy(word, PathOver(word, s, n, num_of_states(g))),
              num_of_states(g) + (Len(word) - 1))
  BY <1>2, <1>8, <1>9, <1>10, WithWordIs
<1>12. SpelledBy(word, PathOver(word, s, n, n + 1))
         = Value!SpelledOver(word,
             [i \in 1 .. (Len(word) - 1) + 2 |-> IF i = 1 THEN s
                                                 ELSE IF i = (Len(word) - 1) + 2 THEN n ELSE n + i - 1])
  BY PathsAgree
<1>13. (n + 1) + (Len(word) - 1) = n + Len(word)
  <2>1. Len(word) \in Nat
    BY LenProperties
  <2>2. QED
    BY <2>1
<1>14. /\ IsObject(nfa') /\ num_of_states(nfa') = num_of_states(nfa) + Len(k.word)
       /\ nfa'.initial = nfa.initial /\ nfa'.final = nfa.final
       /\ MovesOf(nfa'.delta) = MovesOf(nfa.delta) \cup
            Value!SpelledOver(k.word,
              [i \in 1 .. (Len(k.word) - 1) + 2 |->
                 IF i = 1 THEN k.source
                 ELSE IF i = (Len(k.word) - 1) + 2 THEN num_of_states(nfa) ELSE num_of_states(nfa) + i - 1])
  BY <1>2, <1>3, <1>4, <1>5, <1>8, <1>11, <1>12, <1>13 DEF Became
<1>15. QED
  BY <1>1, <1>14 DEF Value!InsertWordToNew, Value!Made, Value!Called, Called, Made, Moves

LEMMA InsertInitialImplements ==
  ASSUME Value!CallsTyped, IsObject(nfa), InsertInitial
  PROVE  IsObject(nfa') /\ Value!InsertInitial
<1>1. PICK k \in Called("initial_insert") :
        nfa' = [nfa EXCEPT !.initial = Inserted(@, k.state)] /\ Made(k, "done")
  BY DEF InsertInitial
<1>2. PICK q \in Nat : q = k.state
  BY <1>1 DEF Called, Value!CallsTyped
<1>3. PICK o : o = nfa
  OBVIOUS
<1>4. PICK w : w = nfa'
  OBVIOUS
<1>5. IsObject(o) /\ FitsSet(o.initial)
  BY <1>3, PartsOf
<1>6. PICK S : S = Inserted(o.initial, q)
  OBVIOUS
<1>7. FitsSet(S) /\ S.set = o.initial.set \cup {q} /\ S.domain_size = Larger(o.initial.domain_size, q + 1)
  BY <1>5, <1>6, InsertedFits
<1>8. /\ num_of_states(o) \in Nat /\ o.initial.domain_size \in Nat /\ o.initial.domain_size <= num_of_states(o)
  BY <1>5, ObjectTypes DEF IsObject
<1>9. /\ o.initial.domain_size <= S.domain_size
      /\ Larger(num_of_states(o), S.domain_size) = Larger(num_of_states(o), q + 1)
  BY <1>7, <1>8 DEF Larger
<1>10. w = [o EXCEPT !.initial = S]
  BY <1>1, <1>2, <1>3, <1>4, <1>6
<1>11. /\ IsObject(w) /\ num_of_states(w) = Larger(num_of_states(o), S.domain_size)
       /\ w.delta = o.delta /\ w.initial = S /\ w.final = o.final
  BY <1>5, <1>7, <1>9, <1>10, InitialReplaced
<1>12. /\ IsObject(nfa') /\ num_of_states(nfa') = Larger(num_of_states(nfa), k.state + 1)
       /\ MovesOf(nfa'.delta) = MovesOf(nfa.delta)
       /\ nfa'.initial.set = nfa.initial.set \cup {k.state} /\ nfa'.final = nfa.final
  BY <1>2, <1>3, <1>4, <1>7, <1>9, <1>11
<1>13. QED
  BY <1>1, <1>12 DEF Value!InsertInitial, Value!Made, Value!Called, Value!Larger, Larger, Called, Made, Moves

LEMMA InsertFinalImplements ==
  ASSUME Value!CallsTyped, IsObject(nfa), InsertFinal
  PROVE  IsObject(nfa') /\ Value!InsertFinal
<1>1. PICK k \in Called("final_insert") :
        nfa' = [nfa EXCEPT !.final = Inserted(@, k.state)] /\ Made(k, "done")
  BY DEF InsertFinal
<1>2. PICK q \in Nat : q = k.state
  BY <1>1 DEF Called, Value!CallsTyped
<1>3. PICK o : o = nfa
  OBVIOUS
<1>4. PICK w : w = nfa'
  OBVIOUS
<1>5. IsObject(o) /\ FitsSet(o.final)
  BY <1>3, PartsOf
<1>6. PICK S : S = Inserted(o.final, q)
  OBVIOUS
<1>7. FitsSet(S) /\ S.set = o.final.set \cup {q} /\ S.domain_size = Larger(o.final.domain_size, q + 1)
  BY <1>5, <1>6, InsertedFits
<1>8. /\ num_of_states(o) \in Nat /\ o.final.domain_size \in Nat /\ o.final.domain_size <= num_of_states(o)
  BY <1>5, ObjectTypes DEF IsObject
<1>9. /\ o.final.domain_size <= S.domain_size
      /\ Larger(num_of_states(o), S.domain_size) = Larger(num_of_states(o), q + 1)
  BY <1>7, <1>8 DEF Larger
<1>10. w = [o EXCEPT !.final = S]
  BY <1>1, <1>2, <1>3, <1>4, <1>6
<1>11. /\ IsObject(w) /\ num_of_states(w) = Larger(num_of_states(o), S.domain_size)
       /\ w.delta = o.delta /\ w.final = S /\ w.initial = o.initial
  BY <1>5, <1>7, <1>9, <1>10, FinalReplaced
<1>12. /\ IsObject(nfa') /\ num_of_states(nfa') = Larger(num_of_states(nfa), k.state + 1)
       /\ MovesOf(nfa'.delta) = MovesOf(nfa.delta)
       /\ nfa'.final.set = nfa.final.set \cup {k.state} /\ nfa'.initial = nfa.initial
  BY <1>2, <1>3, <1>4, <1>7, <1>9, <1>11
<1>13. QED
  BY <1>1, <1>12 DEF Value!InsertFinal, Value!Made, Value!Called, Value!Larger, Larger, Called, Made, Moves

LEMMA EraseFinalImplements ==
  ASSUME IsObject(nfa), EraseFinal
  PROVE  IsObject(nfa') /\ Value!EraseFinal
<1>1. PICK k \in Called("final_erase") :
        nfa' = [nfa EXCEPT !.final = Erased(@, k.state)] /\ Made(k, "done")
  BY DEF EraseFinal
<1>2. PICK o : o = nfa
  OBVIOUS
<1>3. PICK w : w = nfa'
  OBVIOUS
<1>4. IsObject(o) /\ FitsSet(o.final)
  BY <1>2, PartsOf
<1>5. PICK S : S = Erased(o.final, k.state)
  OBVIOUS
<1>6. FitsSet(S) /\ S.set = o.final.set \ {k.state} /\ S.domain_size = o.final.domain_size
  BY <1>4, <1>5, ErasedFits
<1>7. /\ num_of_states(o) \in Nat /\ o.final.domain_size \in Nat /\ o.final.domain_size <= num_of_states(o)
  BY <1>4, ObjectTypes DEF IsObject
<1>8. /\ o.final.domain_size <= S.domain_size
      /\ Larger(num_of_states(o), S.domain_size) = num_of_states(o)
  BY <1>6, <1>7 DEF Larger
<1>9. w = [o EXCEPT !.final = S]
  BY <1>1, <1>2, <1>3, <1>5
<1>10. /\ IsObject(w) /\ num_of_states(w) = Larger(num_of_states(o), S.domain_size)
       /\ w.delta = o.delta /\ w.final = S /\ w.initial = o.initial
  BY <1>4, <1>6, <1>8, <1>9, FinalReplaced
<1>11. /\ IsObject(nfa') /\ num_of_states(nfa') = num_of_states(nfa)
       /\ MovesOf(nfa'.delta) = MovesOf(nfa.delta)
       /\ nfa'.final.set = nfa.final.set \ {k.state} /\ nfa'.initial = nfa.initial
  BY <1>2, <1>3, <1>6, <1>8, <1>10
<1>12. QED
  BY <1>1, <1>11 DEF Value!EraseFinal, Value!Made, Value!Called, Called, Made, Moves

LEMMA SwapFinalNonfinalImplements ==
  ASSUME IsObject(nfa), SwapFinalNonfinal
  PROVE  IsObject(nfa') /\ Value!SwapFinalNonfinal
<1>1. PICK k \in Called("swap_final_nonfinal") :
        nfa' = [nfa EXCEPT !.final = Complemented(@, num_of_states(nfa))] /\ Made(k, "done")
  BY DEF SwapFinalNonfinal
<1>2. PICK o : o = nfa
  OBVIOUS
<1>3. PICK w : w = nfa'
  OBVIOUS
<1>4. IsObject(o) /\ FitsSet(o.final)
  BY <1>2, PartsOf
<1>5. PICK n \in Nat : n = num_of_states(o)
  BY <1>4, ObjectIs
<1>6. PICK S : S = Complemented(o.final, n)
  OBVIOUS
<1>7. FitsSet(S) /\ S.set = (0 .. n - 1) \ o.final.set /\ S.domain_size = Larger(o.final.domain_size, n)
  BY <1>4, <1>6, ComplementedFits
<1>8. o.final.domain_size \in Nat /\ o.final.domain_size <= n
  BY <1>4, <1>5, ObjectTypes DEF IsObject
<1>9. o.final.domain_size <= S.domain_size /\ Larger(n, S.domain_size) = n
  BY <1>7, <1>8 DEF Larger
<1>10. w = [o EXCEPT !.final = S]
  BY <1>1, <1>2, <1>3, <1>5, <1>6
<1>11. /\ IsObject(w) /\ num_of_states(w) = Larger(num_of_states(o), S.domain_size)
       /\ w.delta = o.delta /\ w.final = S /\ w.initial = o.initial
  BY <1>4, <1>7, <1>9, <1>10, FinalReplaced
<1>12. /\ IsObject(nfa') /\ num_of_states(nfa') = num_of_states(nfa)
       /\ MovesOf(nfa'.delta) = MovesOf(nfa.delta)
       /\ nfa'.final.set = (0 .. num_of_states(nfa) - 1) \ nfa.final.set /\ nfa'.initial = nfa.initial
  BY <1>2, <1>3, <1>5, <1>7, <1>9, <1>11
<1>13. QED
  BY <1>1, <1>12 DEF Value!SwapFinalNonfinal, Value!Made, Value!Called, Called, Made, Moves

LEMMA ClearImplements ==
  ASSUME IsObject(nfa), Clear
  PROVE  IsObject(nfa') /\ ClearKeepsDomains
<1>1. PICK k \in Called("clear") :
        /\ nfa' = [delta |-> << >>, initial |-> Cleared(nfa.initial), final |-> Cleared(nfa.final)]
        /\ Made(k, "done")
  BY DEF Clear
<1>2. PICK o : o = nfa
  OBVIOUS
<1>3. PICK w : w = nfa'
  OBVIOUS
<1>4. IsObject(o) /\ FitsSet(o.initial) /\ FitsSet(o.final)
  BY <1>2, PartsOf
<1>5. PICK I : I = Cleared(o.initial)
  OBVIOUS
<1>6. PICK G : G = Cleared(o.final)
  OBVIOUS
<1>7. FitsSet(I) /\ I.set = {} /\ I.domain_size = o.initial.domain_size
  BY <1>4, <1>5, ClearedFits
<1>8. FitsSet(G) /\ G.set = {} /\ G.domain_size = o.final.domain_size
  BY <1>4, <1>6, ClearedFits
<1>9. PICK d : d = << >>
  OBVIOUS
<1>10. IsRelation(d) /\ MovesOf(d) = {} /\ Len(d) = 0
  BY <1>9, EmptyRelation
<1>11. w = [delta |-> d, initial |-> I, final |-> G]
  BY <1>1, <1>2, <1>3, <1>5, <1>6, <1>9
<1>12. \A m \in MovesOf(d) : m[3] < num_of_states(w)
  BY <1>10
<1>13. /\ IsObject(w) /\ w.delta = d /\ w.initial = I /\ w.final = G
       /\ num_of_states(w) = Larger(Larger(I.domain_size, G.domain_size), Len(d))
  BY <1>7, <1>8, <1>10, <1>11, <1>12, ObjectOf
<1>14. o.initial.domain_size \in Nat /\ o.final.domain_size \in Nat
  BY <1>4, ObjectTypes DEF IsObject
<1>15. num_of_states(w) = Larger(o.initial.domain_size, o.final.domain_size)
  BY <1>7, <1>8, <1>10, <1>13, <1>14 DEF Larger
<1>16. /\ IsObject(nfa') /\ num_of_states(nfa') = Larger(nfa.initial.domain_size, nfa.final.domain_size)
       /\ MovesOf(nfa'.delta) = {} /\ nfa'.initial.set = {} /\ nfa'.final.set = {}
  BY <1>2, <1>3, <1>7, <1>8, <1>10, <1>13, <1>15
<1>17. QED
  BY <1>1, <1>16 DEF ClearKeepsDomains, Moves

LEMMA EmptyIsObject ==
  /\ IsObject(EmptyNfa) /\ num_of_states(EmptyNfa) = 0
  /\ MovesOf(EmptyNfa.delta) = {} /\ EmptyNfa.initial.set = {} /\ EmptyNfa.final.set = {}
<1>1. PICK d : d = << >>
  OBVIOUS
<1>2. IsRelation(d) /\ MovesOf(d) = {} /\ Len(d) = 0
  BY <1>1, EmptyRelation
<1>3. PICK S : S = Sparse({}, 0)
  OBVIOUS
<1>4. FitsSet(S) /\ S.set = {} /\ S.domain_size = 0
  BY <1>3 DEF FitsSet, SparseSets, Sparse
<1>5. PICK w : w = EmptyNfa
  OBVIOUS
<1>6. w = [delta |-> d, initial |-> S, final |-> S]
  BY <1>1, <1>3, <1>5 DEF EmptyNfa
<1>7. \A m \in MovesOf(d) : m[3] < num_of_states(w)
  BY <1>2
<1>8. /\ IsObject(w) /\ w.delta = d /\ w.initial = S /\ w.final = S
      /\ num_of_states(w) = Larger(Larger(S.domain_size, S.domain_size), Len(d))
  BY <1>2, <1>4, <1>6, <1>7, ObjectOf
<1>9. num_of_states(w) = 0
  BY <1>2, <1>4, <1>8 DEF Larger
<1>10. QED
  BY <1>2, <1>4, <1>5, <1>8, <1>9

LEMMA MoveAwayImplements ==
  ASSUME IsObject(nfa), MoveAway
  PROVE  IsObject(nfa') /\ Value!MoveAway
<1>1. PICK k \in Called("move") : nfa' = EmptyNfa /\ Made(k, "done")
  BY DEF MoveAway
<1>2. /\ IsObject(nfa') /\ num_of_states(nfa') = 0
      /\ MovesOf(nfa'.delta) = {} /\ nfa'.initial.set = {} /\ nfa'.final.set = {}
  BY <1>1, EmptyIsObject
<1>3. QED
  BY <1>1, <1>2 DEF Value!MoveAway, Value!Emptied, Value!Made, Value!Called, Called, Made, Moves

(* One state takes the place of the initial, or of the final ones.         *)
LEMMA UnifiedInitialIs ==
  ASSUME NEW o, IsObject(o), NEW w, w = UnifiedInitial(o)
  PROVE  /\ IsObject(w) /\ num_of_states(w) = num_of_states(o) + 1
         /\ MovesOf(w.delta) = MovesOf(o.delta) \cup CopiesFrom(MovesOf(o.delta), o.initial.set, num_of_states(o))
         /\ w.initial.set = {num_of_states(o)}
         /\ w.final.set = o.final.set \cup (IF o.initial.set \cap o.final.set = {} THEN {} ELSE {num_of_states(o)})
<1>1. FitsSet(o.initial) /\ FitsSet(o.final)
  BY PartsOf
<1>2. PICK n \in Nat : n = num_of_states(o)
  BY ObjectIs
<1>3. PICK d : d = (CHOOSE f : CopiedInitial(o, f))[Len(ascending(o.initial.set))]
  OBVIOUS
<1>4. /\ IsRelation(d) /\ Len(d) = n + 1
      /\ MovesOf(d) = MovesOf(o.delta) \cup CopiesFrom(MovesOf(o.delta), o.initial.set, n)
  BY <1>2, <1>3, CopiedInitialIs
<1>5. PICK S : S = Inserted(Cleared(o.initial), n)
  OBVIOUS
<1>6. PICK R : R = IF o.initial.set \cap o.final.set = {} THEN o.final ELSE Inserted(o.final, n)
  OBVIOUS
<1>7. w = [delta |-> d, initial |-> S, final |-> R]
  BY <1>2, <1>3, <1>5, <1>6 DEF UnifiedInitial, CopiedInitial, FromNew
<1>8. /\ o.initial.domain_size \in Nat /\ o.initial.domain_size <= n
      /\ o.final.domain_size \in Nat /\ o.final.domain_size <= n
  BY <1>2, ObjectTypes DEF IsObject
<1>9. FitsSet(S) /\ S.set = {n} /\ S.domain_size = n + 1
  <2>1. PICK C : C = Cleared(o.initial)
    OBVIOUS
  <2>2. FitsSet(C) /\ C.set = {} /\ C.domain_size = o.initial.domain_size
    BY <1>1, <2>1, ClearedFits
  <2>3. FitsSet(S) /\ S.set = C.set \cup {n} /\ S.domain_size = Larger(C.domain_size, n + 1)
    BY <1>5, <2>1, <2>2, InsertedFits
  <2>4. QED
    BY <1>8, <2>2, <2>3 DEF Larger
<1>10. /\ FitsSet(R) /\ R.domain_size \in Nat /\ R.domain_size <= n + 1
       /\ R.set = o.final.set \cup (IF o.initial.set \cap o.final.set = {} THEN {} ELSE {n})
  <2>1. CASE o.initial.set \cap o.final.set = {}
    BY <1>1, <1>6, <1>8, <2>1
  <2>2. CASE o.initial.set \cap o.final.set # {}
    <3>1. R = Inserted(o.final, n)
      BY <1>6, <2>2
    <3>2. FitsSet(R) /\ R.set = o.final.set \cup {n} /\ R.domain_size = Larger(o.final.domain_size, n + 1)
      BY <1>1, <3>1, InsertedFits
    <3>3. QED
      BY <1>8, <2>2, <3>2 DEF Larger
  <2>3. QED
    BY <2>1, <2>2
<1>11. w = [delta |-> d, initial |-> S, final |-> R]
  BY <1>7
<1>12. num_of_states(w) = n + 1
  BY <1>4, <1>7, <1>9, <1>10 DEF num_of_states, Larger
<1>13. \A m \in MovesOf(d) : m[3] < num_of_states(w)
  <2>1. ASSUME NEW m \in MovesOf(o.delta) PROVE m[3] \in Nat /\ m[3] < n
    BY <1>2, ObjectIs DEF Triples
  <2>2. \A m \in CopiesFrom(MovesOf(o.delta), o.initial.set, n) : m[3] < n + 1
    BY <2>1 DEF CopiesFrom
  <2>3. \A m \in MovesOf(o.delta) : m[3] < n + 1
    BY <2>1
  <2>4. QED
    BY <1>4, <1>12, <2>2, <2>3
<1>14. IsObject(w) /\ w.delta = d /\ w.initial = S /\ w.final = R
  BY <1>4, <1>9, <1>10, <1>11, <1>13, ObjectOf
<1>15. QED
  BY <1>2, <1>4, <1>9, <1>10, <1>12, <1>14

LEMMA UnifyInitialImplements ==
  ASSUME IsObject(nfa), UnifyInitial
  PROVE  IsObject(nfa') /\ Value!UnifyInitial
<1>1. PICK k \in Called("unify_initial") :
        /\ IF ~ k.force /\ Cardinality(nfa.initial.set) <= 1 THEN UNCHANGED nfa
           ELSE nfa' = UnifiedInitial(nfa)
        /\ Made(k, "done")
  BY DEF UnifyInitial
<1>2. Cardinality(nfa.initial.set) = Value!Cardinality(nfa.initial.set)
  BY DEF Cardinality, Value!Cardinality
<1>3. CASE ~ k.force /\ Cardinality(nfa.initial.set) <= 1
  <2>1. nfa' = nfa
    BY <1>1, <1>3
  <2>2. ~ k.force /\ Value!Cardinality(nfa.initial.set) <= 1
    BY <1>2, <1>3
  <2>3. UNCHANGED Value!value
    BY <2>1 DEF Value!value, Moves
  <2>4. QED
    BY <1>1, <2>1, <2>2, <2>3 DEF Value!UnifyInitial, Value!Made, Value!Called, Called, Made
<1>4. CASE ~(~ k.force /\ Cardinality(nfa.initial.set) <= 1)
  <2>1. PICK o : o = nfa
    OBVIOUS
  <2>2. PICK w : w = nfa'
    OBVIOUS
  <2>3. IsObject(o) /\ w = UnifiedInitial(o)
    BY <1>1, <1>4, <2>1, <2>2
  <2>4. IsObject(w) /\ num_of_states(w) = num_of_states(o) + 1
    BY <2>3, UnifiedInitialIs
  <2>5. MovesOf(w.delta) = MovesOf(o.delta) \cup CopiesFrom(MovesOf(o.delta), o.initial.set, num_of_states(o))
    BY <2>3, UnifiedInitialIs
  <2>6. w.initial.set = {num_of_states(o)}
    BY <2>3, UnifiedInitialIs
  <2>7. w.final.set = o.final.set \cup (IF o.initial.set \cap o.final.set = {} THEN {} ELSE {num_of_states(o)})
    BY <2>3, UnifiedInitialIs
  <2>8. /\ IsObject(nfa') /\ num_of_states(nfa') = num_of_states(nfa) + 1
        /\ nfa'.initial.set = {num_of_states(nfa)}
        /\ nfa'.final.set = nfa.final.set \cup
             (IF nfa.initial.set \cap nfa.final.set = {} THEN {} ELSE {num_of_states(nfa)})
    BY <2>1, <2>2, <2>4, <2>6, <2>7
  <2>9. MovesOf(nfa'.delta) = MovesOf(nfa.delta) \cup
          {<<num_of_states(nfa), m[2], m[3]>> : m \in {e \in MovesOf(nfa.delta) : e[1] \in nfa.initial.set}}
    BY <2>1, <2>2, <2>5 DEF CopiesFrom
  <2>10. ~(~ k.force /\ Value!Cardinality(nfa.initial.set) <= 1)
    BY <1>2, <1>4
  <2>11. QED
    BY <1>1, <2>8, <2>9, <2>10 DEF Value!UnifyInitial, Value!Made, Value!Called, Called, Made, Moves
<1>5. QED
  BY <1>3, <1>4

LEMMA UnifiedFinalIs ==
  ASSUME NEW o, IsObject(o), NEW w, w = UnifiedFinal(o)
  PROVE  /\ IsObject(w) /\ num_of_states(w) = num_of_states(o) + 1
         /\ MovesOf(w.delta) = MovesOf(o.delta) \cup CopiesTo(MovesOf(o.delta), o.final.set, num_of_states(o))
         /\ w.final.set = {num_of_states(o)}
         /\ w.initial.set = o.initial.set \cup (IF o.initial.set \cap o.final.set = {} THEN {} ELSE {num_of_states(o)})
<1>1. FitsSet(o.initial) /\ FitsSet(o.final)
  BY PartsOf
<1>2. PICK n \in Nat : n = num_of_states(o)
  BY ObjectIs
<1>3. PICK d : d = (CHOOSE f : CopiedFinal(o, f))[Len(ascending(o.final.set))]
  OBVIOUS
<1>4. /\ IsRelation(d) /\ Len(d) = n + 1
      /\ MovesOf(d) = MovesOf(o.delta) \cup CopiesTo(MovesOf(o.delta), o.final.set, n)
  BY <1>2, <1>3, CopiedFinalIs
<1>5. PICK S : S = Inserted(Cleared(o.final), n)
  OBVIOUS
<1>6. PICK R : R = IF o.initial.set \cap o.final.set = {} THEN o.initial ELSE Inserted(o.initial, n)
  OBVIOUS
<1>7. w = [delta |-> d, final |-> S, initial |-> R]
  BY <1>2, <1>3, <1>5, <1>6 DEF UnifiedFinal, CopiedFinal, ToNew
<1>8. /\ o.initial.domain_size \in Nat /\ o.initial.domain_size <= n
      /\ o.final.domain_size \in Nat /\ o.final.domain_size <= n
  BY <1>2, ObjectTypes DEF IsObject
<1>9. FitsSet(S) /\ S.set = {n} /\ S.domain_size = n + 1
  <2>1. PICK C : C = Cleared(o.final)
    OBVIOUS
  <2>2. FitsSet(C) /\ C.set = {} /\ C.domain_size = o.final.domain_size
    BY <1>1, <2>1, ClearedFits
  <2>3. FitsSet(S) /\ S.set = C.set \cup {n} /\ S.domain_size = Larger(C.domain_size, n + 1)
    BY <1>5, <2>1, <2>2, InsertedFits
  <2>4. QED
    BY <1>8, <2>2, <2>3 DEF Larger
<1>10. /\ FitsSet(R) /\ R.domain_size \in Nat /\ R.domain_size <= n + 1
       /\ R.set = o.initial.set \cup (IF o.initial.set \cap o.final.set = {} THEN {} ELSE {n})
  <2>1. CASE o.initial.set \cap o.final.set = {}
    BY <1>1, <1>6, <1>8, <2>1
  <2>2. CASE o.initial.set \cap o.final.set # {}
    <3>1. R = Inserted(o.initial, n)
      BY <1>6, <2>2
    <3>2. FitsSet(R) /\ R.set = o.initial.set \cup {n} /\ R.domain_size = Larger(o.initial.domain_size, n + 1)
      BY <1>1, <3>1, InsertedFits
    <3>3. QED
      BY <1>8, <2>2, <3>2 DEF Larger
  <2>3. QED
    BY <2>1, <2>2
<1>11. w = [delta |-> d, initial |-> R, final |-> S]
  BY <1>7
<1>12. num_of_states(w) = n + 1
  BY <1>4, <1>7, <1>9, <1>10 DEF num_of_states, Larger
<1>13. \A m \in MovesOf(d) : m[3] < num_of_states(w)
  <2>1. ASSUME NEW m \in MovesOf(o.delta) PROVE m[3] \in Nat /\ m[3] < n
    BY <1>2, ObjectIs DEF Triples
  <2>2. \A m \in CopiesTo(MovesOf(o.delta), o.final.set, n) : m[3] < n + 1
    BY <2>1 DEF CopiesTo
  <2>3. \A m \in MovesOf(o.delta) : m[3] < n + 1
    BY <2>1
  <2>4. QED
    BY <1>4, <1>12, <2>2, <2>3
<1>14. IsObject(w) /\ w.delta = d /\ w.final = S /\ w.initial = R
  BY <1>4, <1>9, <1>10, <1>11, <1>13, ObjectOf
<1>15. QED
  BY <1>2, <1>4, <1>9, <1>10, <1>12, <1>14

LEMMA UnifyFinalImplements ==
  ASSUME IsObject(nfa), UnifyFinal
  PROVE  IsObject(nfa') /\ Value!UnifyFinal
<1>1. PICK k \in Called("unify_final") :
        /\ IF ~ k.force /\ Cardinality(nfa.final.set) <= 1 THEN UNCHANGED nfa
           ELSE nfa' = UnifiedFinal(nfa)
        /\ Made(k, "done")
  BY DEF UnifyFinal
<1>2. Cardinality(nfa.final.set) = Value!Cardinality(nfa.final.set)
  BY DEF Cardinality, Value!Cardinality
<1>3. CASE ~ k.force /\ Cardinality(nfa.final.set) <= 1
  <2>1. nfa' = nfa
    BY <1>1, <1>3
  <2>2. ~ k.force /\ Value!Cardinality(nfa.final.set) <= 1
    BY <1>2, <1>3
  <2>3. UNCHANGED Value!value
    BY <2>1 DEF Value!value, Moves
  <2>4. QED
    BY <1>1, <2>1, <2>2, <2>3 DEF Value!UnifyFinal, Value!Made, Value!Called, Called, Made
<1>4. CASE ~(~ k.force /\ Cardinality(nfa.final.set) <= 1)
  <2>1. PICK o : o = nfa
    OBVIOUS
  <2>2. PICK w : w = nfa'
    OBVIOUS
  <2>3. IsObject(o) /\ w = UnifiedFinal(o)
    BY <1>1, <1>4, <2>1, <2>2
  <2>4. IsObject(w) /\ num_of_states(w) = num_of_states(o) + 1
    BY <2>3, UnifiedFinalIs
  <2>5. MovesOf(w.delta) = MovesOf(o.delta) \cup CopiesTo(MovesOf(o.delta), o.final.set, num_of_states(o))
    BY <2>3, UnifiedFinalIs
  <2>6. w.final.set = {num_of_states(o)}
    BY <2>3, UnifiedFinalIs
  <2>7. w.initial.set = o.initial.set \cup (IF o.initial.set \cap o.final.set = {} THEN {} ELSE {num_of_states(o)})
    BY <2>3, UnifiedFinalIs
  <2>8. /\ IsObject(nfa') /\ num_of_states(nfa') = num_of_states(nfa) + 1
        /\ nfa'.final.set = {num_of_states(nfa)}
        /\ nfa'.initial.set = nfa.initial.set \cup
             (IF nfa.initial.set \cap nfa.final.set = {} THEN {} ELSE {num_of_states(nfa)})
    BY <2>1, <2>2, <2>4, <2>6, <2>7
  <2>9. MovesOf(nfa'.delta) = MovesOf(nfa.delta) \cup
          {<<m[1], m[2], num_of_states(nfa)>> : m \in {e \in MovesOf(nfa.delta) : e[3] \in nfa.final.set}}
    BY <2>1, <2>2, <2>5 DEF CopiesTo
  <2>10. ~(~ k.force /\ Value!Cardinality(nfa.final.set) <= 1)
    BY <1>2, <1>4
  <2>11. QED
    BY <1>1, <2>8, <2>9, <2>10 DEF Value!UnifyFinal, Value!Made, Value!Called, Called, Made, Moves
<1>5. QED
  BY <1>3, <1>4

------------------------------------------------------------------------------
(* The theorems.                                                            *)

LEMMA ObjectAtFirst == Init => IsObject(nfa) /\ Value!Init
BY EmptyIsObject DEF Init, Value!Init, Value!NoCall, Moves

LEMMA StepImplements ==
  ASSUME Value!CallsTyped, IsObject(nfa), [Next]_vars
  PROVE  IsObject(nfa') /\ [Value!Next \/ ClearKeepsDomains]_(Value!vars)
<1>1. CASE UNCHANGED vars
  <2>1. nfa' = nfa /\ call' = call /\ answer' = answer
    BY <1>1 DEF vars
  <2>2. UNCHANGED Value!vars
    BY <2>1 DEF Value!vars, Value!value, Moves
  <2>3. QED
    BY <2>1, <2>2
<1>2. CASE AddState \/ AddStateNumber \/ Add \/ Remove \/ InsertWord \/ InsertWordToNew
  BY <1>2, AddStateImplements, AddStateNumberImplements, AddImplements, RemoveImplements,
     InsertWordImplements, InsertWordToNewImplements DEF Value!Next
<1>3. CASE InsertInitial \/ InsertFinal \/ EraseFinal \/ SwapFinalNonfinal
  BY <1>3, InsertInitialImplements, InsertFinalImplements, EraseFinalImplements,
     SwapFinalNonfinalImplements DEF Value!Next
<1>4. CASE Clear \/ MoveAway \/ UnifyInitial \/ UnifyFinal
  BY <1>4, ClearImplements, MoveAwayImplements, UnifyInitialImplements, UnifyFinalImplements DEF Value!Next
<1>5. QED
  BY <1>1, <1>2, <1>3, <1>4 DEF Next

LEMMA ObjectIsInOrder ==
  ASSUME IsObject(nfa)
  PROVE  VectorsInOrder
<1>1. PICK o : o = nfa
  OBVIOUS
<1>2. IsRelation(o.delta)
  BY <1>1, ObjectIs
<1>3. ASSUME NEW q \in DOMAIN o.delta
      PROVE  /\ is_sorted(SymbolsOf(o.delta[q]))
             /\ \A p \in ElementsOf(o.delta[q]) : p.targets # << >> /\ is_sorted(p.targets)
  <2>1. IsPost(o.delta[q])
    BY <1>2, RelationIs
  <2>2. is_sorted(SymbolsOf(o.delta[q]))
    BY <2>1 DEF IsPost, IsVector
  <2>3. DOMAIN o.delta[q] = 1 .. Len(o.delta[q])
    BY <2>1, LenProperties DEF IsPost
  <2>4. ASSUME NEW p \in ElementsOf(o.delta[q]) PROVE p.targets # << >> /\ is_sorted(p.targets)
    <3>1. PICK n \in 1 .. Len(o.delta[q]) : p = o.delta[q][n]
      BY <2>3 DEF ElementsOf
    <3>2. QED
      BY <2>1, <3>1 DEF IsPost, HasTargets, IsVector
  <2>5. QED
    BY <2>2, <2>4
<1>4. \A S \in {o.initial, o.final} : \A q \in S.set : q < S.domain_size
  BY <1>1 DEF IsObject
<1>5. \A m \in MovesOf(o.delta) : m[1] < Len(o.delta) /\ m[3] < num_of_states(o)
  BY <1>1, ObjectIs
<1>6. QED
  BY <1>1, <1>3, <1>4, <1>5 DEF VectorsInOrder, Moves

(* What an object uses is below the number of its states.                   *)
LEMMA ObjectCoversUse ==
  ASSUME IsObject(nfa)
  PROVE  Value!StatesCoverUse
<1>1. num_of_states(nfa) \in Nat
  BY ObjectIs
<1>2. nfa.initial.set \subseteq Nat /\ nfa.final.set \subseteq Nat
  BY ObjectTypes DEF IsObject
<1>3. /\ \A q \in nfa.initial.set : q < num_of_states(nfa)
      /\ \A q \in nfa.final.set : q < num_of_states(nfa)
  BY ObjectIs
<1>4. \A m \in Moves : m[1] \in Nat /\ m[3] \in Nat /\ m[1] < num_of_states(nfa) /\ m[3] < num_of_states(nfa)
  BY ObjectIs DEF Moves, Triples
<1>5. QED
  BY <1>1, <1>2, <1>3, <1>4 DEF Value!StatesCoverUse, Value!Used

(* Whatever calls are made on an object in whatever order, its users see a  *)
(* set of transitions, two sets of states and a number of states that       *)
(* change as AutomatonValue says: no vector, no length that an earlier call *)
(* has left behind ever shows, but for the number of states after clear().  *)
THEOREM ObjectImplementsValue ==
  ASSUME Value!CallsTyped
  PROVE  Spec => ImplementsValue
<1>1. Init => IsObject(nfa) /\ Value!Init
  BY ObjectAtFirst
<1>2. IsObject(nfa) /\ [Next]_vars => IsObject(nfa)' /\ [Value!Next \/ ClearKeepsDomains]_(Value!vars)
  BY StepImplements
<1>3. QED
  BY <1>1, <1>2, PTL DEF Spec, ImplementsValue

(* The vectors of an object stay ordered and without repetition, no symbol  *)
(* post stays without a target, and no state in use is beyond               *)
(* num_of_states(), whatever calls came before: what the binary searches of *)
(* find(), back() and *targets.begin() take for granted.                    *)
THEOREM VectorsAlwaysInOrder ==
  ASSUME Value!CallsTyped
  PROVE  Spec => []VectorsInOrder
<1>1. Init => IsObject(nfa)
  BY ObjectAtFirst
<1>2. IsObject(nfa) /\ [Next]_vars => IsObject(nfa)'
  BY StepImplements
<1>3. IsObject(nfa) => VectorsInOrder
  BY ObjectIsInOrder
<1>4. QED
  BY <1>1, <1>2, <1>3, PTL DEF Spec

(* Whatever calls are made on an object in whatever order, every state that *)
(* is initial, final, or at an end of a transition is below num_of_states().*)
THEOREM StatesAlwaysCoverUse ==
  ASSUME Value!CallsTyped
  PROVE  Spec => []Value!StatesCoverUse
<1>1. Init => IsObject(nfa)
  BY ObjectAtFirst
<1>2. IsObject(nfa) /\ [Next]_vars => IsObject(nfa)'
  BY StepImplements
<1>3. IsObject(nfa) => Value!StatesCoverUse
  BY ObjectCoversUse
<1>4. QED
  BY <1>1, <1>2, <1>3, PTL DEF Spec

(* The state that add_state returns is used by nothing at that moment.      *)
THEOREM AddedStateIsNew ==
  ASSUME Value!CallsTyped
  PROVE  Spec => Value!NewStateIsUnused
<1>1. Init => IsObject(nfa)
  BY ObjectAtFirst
<1>2. IsObject(nfa) /\ [Next]_vars => IsObject(nfa)'
  BY StepImplements
<1>3. ASSUME IsObject(nfa), Value!AddState
      PROVE  answer' \notin Value!Used
  <2>1. answer' = num_of_states(nfa)
    BY <1>3 DEF Value!AddState, Value!Made
  <2>2. num_of_states(nfa) \in Nat /\ \A q \in Value!Used : q \in Nat /\ q < num_of_states(nfa)
    BY <1>3, ObjectCoversUse DEF Value!StatesCoverUse
  <2>3. QED
    BY <2>1, <2>2
<1>4. IsObject(nfa) /\ [Next]_vars => [Value!AddState => answer' \notin Value!Used]_(Value!vars)
  BY <1>3
<1>5. QED
  BY <1>1, <1>2, <1>4, PTL DEF Spec, Value!NewStateIsUnused


==============================================================================
