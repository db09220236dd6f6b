----------------------------- MODULE Hopcroft_proofs -----------------------------
(***************************************************************************)
(* Proofs about Hopcroft and its partitions, for automata of any size.     *)
(***************************************************************************)
EXTENDS Hopcroft, Automata_proofs, FiniteSetTheorems, TLAPS

(***************************************************************************)
(* The vectors of a partition of n elements.  Seen from outside, it gives  *)
(* every element the number of its set and some elements a mark.           *)
(***************************************************************************)
Elements(n) == 0 .. n - 1

Partitions(n) ==
  [num_of_sets : 0 .. n, set_idx : [Elements(n) -> 0 .. n],
   elems : [Elements(n) -> Elements(n)], location : [Elements(n) -> Elements(n)],
   first : [Elements(n) -> 0 .. n], end : [Elements(n) -> 0 .. n],
   mid : [Elements(n) -> 0 .. n]]

Sets(P) == 0 .. P.num_of_sets - 1

IsPermutation(P, n) ==
  /\ \A e \in Elements(n) : P.elems[P.location[e]] = e
  /\ \A l \in Elements(n) : P.location[P.elems[l]] = l

HasBounds(P, n) ==
  \A s \in Sets(P) :
    /\ P.first[s] <= P.mid[s] /\ P.mid[s] <= P.end[s]
    /\ P.first[s] < P.end[s]

LiesBetween(P, n) ==
  \A e \in Elements(n) :
    /\ P.set_idx[e] \in Sets(P)
    /\ \A s \in Sets(P) :
         P.set_idx[e] = s <=> P.first[s] <= P.location[e] /\ P.location[e] < P.end[s]

IsPartition(P, n) ==
  /\ P \in Partitions(n)
  /\ IsPermutation(P, n) /\ HasBounds(P, n) /\ LiesBetween(P, n)

IsMarked(P, e) == P.location[e] < P.mid[P.set_idx[e]]
Marked(P, n) == {e \in Elements(n) : IsMarked(P, e)}

(* The entries of the vectors.                                              *)
LEMMA Entries ==
  ASSUME NEW n \in Nat, NEW P, IsPartition(P, n)
  PROVE  /\ P.num_of_sets \in 0 .. n
         /\ \A s \in Sets(P) : s \in Elements(n)
         /\ \A e \in Elements(n) :
              /\ P.elems[e] \in Elements(n) /\ P.location[e] \in Elements(n)
              /\ P.set_idx[e] \in Sets(P)
              /\ P.first[e] \in 0 .. n /\ P.mid[e] \in 0 .. n /\ P.end[e] \in 0 .. n
<1>1. P \in Partitions(n)
  BY DEF IsPartition
<1>2. P.num_of_sets \in 0 .. n
  BY <1>1 DEF Partitions
<1>3. \A s \in Sets(P) : s \in Elements(n)
  BY <1>2 DEF Sets, Elements
<1>4. \A e \in Elements(n) :
        /\ P.elems[e] \in Elements(n) /\ P.location[e] \in Elements(n)
        /\ P.first[e] \in 0 .. n /\ P.mid[e] \in 0 .. n /\ P.end[e] \in 0 .. n
  BY <1>1 DEF Partitions
<1>5. \A e \in Elements(n) : P.set_idx[e] \in Sets(P)
  BY DEF IsPartition, LiesBetween
<1>6. QED
  BY <1>2, <1>3, <1>4, <1>5

LEMMA PartitionIsConsistent ==
  ASSUME NEW n \in Nat, NEW P, IsPartition(P, n)
  PROVE  Consistent(P)
<1>1. P \in Partitions(n)
  BY DEF IsPartition
<1>2. DOMAIN P.set_idx = Elements(n)
  BY <1>1 DEF Partitions
<1>3. Cardinality(Elements(n)) = n
  BY FS_Interval DEF Elements
<1>4. \A s \in Sets(P) : s \in Elements(n)
  BY <1>1 DEF Partitions, Sets, Elements
<1>5. \A e \in Elements(n) : P.location[e] \in Elements(n) /\ P.elems[P.location[e]] = e
  BY <1>1 DEF Partitions, IsPartition, IsPermutation
<1>6. \A l \in Elements(n) : P.elems[l] \in Elements(n) /\ P.location[P.elems[l]] = l
  BY <1>1 DEF Partitions, IsPartition, IsPermutation
<1>7. \A s \in Sets(P) : P.first[s] \in 0 .. n /\ P.mid[s] \in 0 .. n /\ P.end[s] \in 0 .. n
  BY <1>1, <1>4 DEF Partitions
<1>8. \A s \in Sets(P) :
        /\ 0 <= P.first[s] /\ P.first[s] <= P.mid[s] /\ P.mid[s] <= P.end[s]
        /\ P.first[s] < P.end[s] /\ P.end[s] <= n
  BY <1>7 DEF IsPartition, HasBounds
<1>9. \A e \in Elements(n) : \A s \in Sets(P) :
        P.set_idx[e] = s <=> P.first[s] <= P.location[e] /\ P.location[e] < P.end[s]
  BY DEF IsPartition, LiesBetween
<1>10. QED
  BY <1>2, <1>3, <1>5, <1>6, <1>8, <1>9 DEF Consistent, Sets

(* A set without marks is one whose middle is its first.                    *)
LEMMA MarksOfASet ==
  ASSUME NEW n \in Nat, NEW P, IsPartition(P, n), NEW s \in Sets(P)
  PROVE  has_no_marks(P, s) <=> \A e \in Marked(P, n) : P.set_idx[e] # s
<1>1. s \in Elements(n)
  BY Entries
<1>2. P.first[s] \in 0 .. n /\ P.mid[s] \in 0 .. n /\ P.end[s] \in 0 .. n
  BY <1>1, Entries
<1>3. P.first[s] <= P.mid[s] /\ P.mid[s] <= P.end[s] /\ P.first[s] < P.end[s]
  BY DEF IsPartition, HasBounds
<1>4. ASSUME has_no_marks(P, s), NEW e \in Marked(P, n), P.set_idx[e] = s PROVE FALSE
  <2>1. P.location[e] < P.mid[s] /\ P.first[s] <= P.location[e] /\ P.location[e] \in Int
    <3>1. e \in Elements(n) /\ P.location[e] < P.mid[P.set_idx[e]]
      BY DEF Marked, IsMarked
    <3>2. P.first[s] <= P.location[e]
      BY <3>1, <1>4 DEF IsPartition, LiesBetween
    <3>3. P.location[e] \in Int
      <4>1. P.location[e] \in Elements(n)
        BY <3>1, Entries
      <4>2. QED
        BY <4>1 DEF Elements
    <3>4. QED
      BY <3>1, <3>2, <3>3, <1>4
  <2>2. QED
    BY <1>2, <1>4, <2>1 DEF has_no_marks
<1>5. ASSUME ~has_no_marks(P, s) PROVE \E e \in Marked(P, n) : P.set_idx[e] = s
  <2>1. P.first[s] < P.mid[s] /\ P.first[s] < n
    BY <1>2, <1>3, <1>5 DEF has_no_marks
  <2>2. PICK l : l = P.first[s]
    OBVIOUS
  <2>3. l \in Elements(n)
    BY <1>2, <2>1, <2>2 DEF Elements
  <2>4. PICK e : e = P.elems[l]
    OBVIOUS
  <2>5. e \in Elements(n) /\ P.location[e] = l
    BY <2>3, <2>4, Entries DEF IsPartition, IsPermutation
  <2>6. P.set_idx[e] = s
    BY <1>2, <1>3, <2>2, <2>5 DEF IsPartition, LiesBetween
  <2>7. QED
    BY <2>1, <2>2, <2>5, <2>6 DEF Marked, IsMarked
<1>6. QED
  BY <1>4, <1>5

(* mark marks the element and leaves the sets alone.                        *)
LEMMA MarkMarks ==
  ASSUME NEW n \in Nat, NEW P, IsPartition(P, n), NEW e \in Elements(n)
  PROVE  /\ IsPartition(Mark(P, e), n)
         /\ Mark(P, e).num_of_sets = P.num_of_sets
         /\ Mark(P, e).set_idx = P.set_idx
         /\ Mark(P, e).first = P.first /\ Mark(P, e).end = P.end
         /\ Marked(Mark(P, e), n) = Marked(P, n) \cup {e}
<1>1. P \in Partitions(n)
  BY DEF IsPartition
<1> DEFINE s == P.set_idx[e]  l == P.location[e]  m == P.mid[s]  x == P.elems[m]
<1>2. s \in Sets(P) /\ s \in Elements(n) /\ l \in Elements(n)
  BY Entries
<1>3. P.first[s] \in 0 .. n /\ m \in 0 .. n /\ P.end[s] \in 0 .. n
  BY <1>2, Entries
<1>4. P.first[s] <= m /\ m <= P.end[s] /\ P.first[s] <= l /\ l < P.end[s]
  BY <1>2 DEF IsPartition, HasBounds, LiesBetween
<1>5. CASE l < m
  <2>1. Mark(P, e) = P
    BY <1>5 DEF Mark
  <2>2. e \in Marked(P, n)
    BY <1>5 DEF Marked, IsMarked
  <2>3. QED
    BY <2>1, <2>2
<1>6. CASE ~(l < m)
  <2>1. m \in Elements(n) /\ x \in Elements(n)
    <3>1. m \in Elements(n)
      BY <1>2, <1>3, <1>4, <1>6 DEF Elements
    <3>2. QED
      BY <3>1, Entries
  <2>2. P.location[x] = m /\ P.elems[l] = e
    BY <1>2, <2>1 DEF IsPartition, IsPermutation
  <2> DEFINE Q == [P EXCEPT !.elems = [@ EXCEPT ![l] = x, ![m] = e],
                            !.location = [@ EXCEPT ![x] = l, ![e] = m],
                            !.mid = [@ EXCEPT ![s] = m + 1]]
  <2>3. Mark(P, e) = Q
    BY <1>6 DEF Mark
  <2>4. /\ Q.elems = [P.elems EXCEPT ![l] = x, ![m] = e]
        /\ Q.location = [P.location EXCEPT ![x] = l, ![e] = m]
        /\ Q.mid = [P.mid EXCEPT ![s] = m + 1]
        /\ Q.num_of_sets = P.num_of_sets /\ Q.set_idx = P.set_idx
        /\ Q.first = P.first /\ Q.end = P.end
    BY <1>1 DEF Partitions
  <2>5. Q \in Partitions(n)
    <3>1. Q.elems \in [Elements(n) -> Elements(n)]
      BY <1>1, <1>2, <2>1, <2>4 DEF Partitions
    <3>2. Q.location \in [Elements(n) -> Elements(n)]
      BY <1>1, <1>2, <2>1, <2>4 DEF Partitions
    <3>3. m + 1 \in 0 .. n
      BY <1>3, <2>1 DEF Elements
    <3>4. Q.mid \in [Elements(n) -> 0 .. n]
      BY <1>1, <3>3, <2>4 DEF Partitions
    <3>5. QED
      BY <1>1, <3>1, <3>2, <3>4, <2>4 DEF Partitions
  <2> HIDE DEF Q
  <2>6. /\ \A k \in Elements(n) : Q.elems[k] = IF k = m THEN e ELSE IF k = l THEN x ELSE P.elems[k]
        /\ \A y \in Elements(n) : Q.location[y] = IF y = e THEN m ELSE IF y = x THEN l ELSE P.location[y]
        /\ \A t \in Elements(n) : Q.mid[t] = IF t = s THEN m + 1 ELSE P.mid[t]
    BY <1>1, <1>2, <2>1, <2>4 DEF Partitions
  <2>7. \A k \in Elements(n) : P.elems[k] \in Elements(n) /\ P.location[k] \in Elements(n)
    BY <1>1 DEF Partitions
  <2>8. IsPermutation(Q, n)
    <3>1. /\ \A y \in Elements(n) : P.elems[P.location[y]] = y
          /\ \A k \in Elements(n) : P.location[P.elems[k]] = k
      BY DEF IsPartition, IsPermutation
    <3>2. ASSUME NEW y \in Elements(n) PROVE Q.elems[Q.location[y]] = y
      <4> HIDE DEF l, m, x, s
      <4>0. P.elems[m] = x /\ P.location[e] = l
        BY DEF x, l
      <4>1. CASE y = e
        BY <4>1, <2>1, <2>6
      <4>2. CASE y # e /\ y = x
        BY <4>2, <1>2, <2>1, <2>2, <2>6, <4>0
      <4>3. CASE y # e /\ y # x
        <5>1. P.location[y] # m /\ P.location[y] # l
          BY <4>3, <3>1, <4>0, <2>2
        <5>2. QED
          BY <4>3, <5>1, <2>6, <2>7, <3>1
      <4>4. QED
        BY <4>1, <4>2, <4>3
    <3>3. ASSUME NEW k \in Elements(n) PROVE Q.location[Q.elems[k]] = k
      <4> HIDE DEF l, m, x, s
      <4>0. P.elems[m] = x /\ P.location[e] = l
        BY DEF x, l
      <4>1. CASE k = m
        BY <4>1, <2>6
      <4>2. CASE k # m /\ k = l
        <5>1. x # e
          BY <4>2, <2>2, <4>0
        <5>2. QED
          BY <4>2, <2>1, <2>6, <5>1
      <4>3. CASE k # m /\ k # l
        <5>1. P.elems[k] # e /\ P.elems[k] # x
          BY <4>3, <3>1, <4>0, <2>2
        <5>2. QED
          BY <4>3, <5>1, <2>6, <2>7, <3>1
      <4>4. QED
        BY <4>1, <4>2, <4>3
    <3>4. QED
      BY <3>2, <3>3 DEF IsPermutation
  <2>9. Sets(Q) = Sets(P) /\ \A t \in Sets(P) : t \in Elements(n)
    BY <1>1, <2>4 DEF Sets, Partitions, Elements
  <2>10. HasBounds(Q, n)
    <3>1. \A t \in Sets(P) : /\ P.first[t] <= P.mid[t] /\ P.mid[t] <= P.end[t]
                             /\ P.first[t] < P.end[t]
      BY DEF IsPartition, HasBounds
    <3>2. m + 1 <= P.end[s] /\ P.first[s] <= m + 1
      BY <1>2, <1>3, <1>4, <1>6 DEF Elements
    <3>3. QED
      BY <2>4, <2>6, <2>9, <3>1, <3>2 DEF HasBounds
  <2>11. P.set_idx[x] = s
    <3> HIDE DEF l, m, x, s
    <3>1. s \in Sets(P) /\ P.location[x] = m
      BY <1>2, <2>2 DEF IsPartition, LiesBetween
    <3>2. P.first[s] <= m /\ m < P.end[s]
      BY <1>2, <1>3, <1>4, <1>6 DEF Elements
    <3>3. P.set_idx[x] = s <=> P.first[s] <= P.location[x] /\ P.location[x] < P.end[s]
      BY <2>1, <3>1 DEF IsPartition, LiesBetween
    <3>4. QED
      BY <3>1, <3>2, <3>3
  <2>12. LiesBetween(Q, n)
    <3>1. \A y \in Elements(n) :
            /\ P.set_idx[y] \in Sets(P)
            /\ \A t \in Sets(P) :
                 P.set_idx[y] = t <=> P.first[t] <= P.location[y] /\ P.location[y] < P.end[t]
      BY DEF IsPartition, LiesBetween
    <3>2. ASSUME NEW y \in Elements(n), NEW t \in Sets(P)
          PROVE  P.set_idx[y] = t <=> P.first[t] <= Q.location[y] /\ Q.location[y] < P.end[t]
      <4>1. CASE y = e
        <5>1. Q.location[y] = P.location[x]
          BY <4>1, <2>2, <2>6
        <5>2. P.set_idx[y] = P.set_idx[x]
          BY <4>1, <2>11
        <5>3. P.set_idx[x] = t <=> P.first[t] <= P.location[x] /\ P.location[x] < P.end[t]
          BY <3>1, <2>1
        <5>4. QED
          BY <5>1, <5>2, <5>3
      <4>2. CASE y # e /\ y = x
        <5>1. Q.location[y] = P.location[e]
          BY <4>2, <2>6
        <5>2. P.set_idx[y] = P.set_idx[e]
          BY <4>2, <2>11
        <5>3. QED
          BY <5>1, <5>2, <3>1
      <4>3. CASE y # e /\ y # x
        BY <4>3, <2>6, <3>1
      <4>4. QED
        BY <4>1, <4>2, <4>3
    <3>3. \A y \in Elements(n) : Q.set_idx[y] \in Sets(Q)
      BY <3>1, <2>4, <2>9
    <3>4. ASSUME NEW y \in Elements(n), NEW t \in Sets(Q)
          PROVE  Q.set_idx[y] = t <=> Q.first[t] <= Q.location[y] /\ Q.location[y] < Q.end[t]
      <4>1. t \in Sets(P)
        BY <2>9
      <4>2. P.set_idx[y] = t <=> P.first[t] <= Q.location[y] /\ Q.location[y] < P.end[t]
        BY <4>1, <3>2
      <4>3. Q.set_idx = P.set_idx /\ Q.first = P.first /\ Q.end = P.end
        BY <2>4
      <4>4. QED
        BY <4>2, <4>3
    <3>5. QED
      BY <3>3, <3>4 DEF LiesBetween
  <2>13. IsPartition(Q, n)
    BY <2>5, <2>8, <2>10, <2>12 DEF IsPartition
  <2>14. ASSUME NEW y \in Elements(n) PROVE IsMarked(Q, y) <=> (IsMarked(P, y) \/ y = e)
    <3>1. P.set_idx[y] \in Elements(n)
      BY <2>9 DEF IsPartition, LiesBetween
    <3>2. IsMarked(Q, y) <=> Q.location[y] < Q.mid[P.set_idx[y]]
      BY <2>4 DEF IsMarked
    <3>3. CASE y = e
      <4>1. Q.location[y] = m /\ Q.mid[P.set_idx[y]] = m + 1
        BY <3>1, <3>3, <2>6
      <4>2. QED
        BY <3>2, <3>3, <4>1, <1>3
    <3>4. CASE y # e /\ y = x
      <4>1. Q.location[y] = l /\ Q.mid[P.set_idx[y]] = m + 1 /\ l # m
        BY <3>1, <3>4, <2>6, <2>11, <2>2
      <4>2. ~IsMarked(Q, y)
        BY <3>2, <4>1, <1>2, <1>3, <1>6 DEF Elements
      <4>3. ~IsMarked(P, y)
        BY <3>4, <2>2, <2>11, <1>3 DEF IsMarked
      <4>4. QED
        BY <3>4, <4>2, <4>3
    <3>5. CASE y # e /\ y # x
      <4>1. Q.location[y] = P.location[y] /\ P.location[y] # m /\ P.location[y] \in Elements(n)
        <5>1. P.elems[P.location[y]] = y
          BY DEF IsPartition, IsPermutation
        <5>2. QED
          BY <5>1, <3>5, <2>6, <2>7
      <4>2. CASE P.set_idx[y] = s
        <5>1. Q.mid[P.set_idx[y]] = m + 1
          BY <4>2, <3>1, <2>6
        <5>2. QED
          BY <5>1, <4>1, <4>2, <3>2, <3>5, <1>3 DEF IsMarked, Elements
      <4>3. CASE P.set_idx[y] # s
        BY <4>1, <4>3, <3>1, <3>2, <3>5, <2>6 DEF IsMarked
      <4>4. QED
        BY <4>2, <4>3
    <3>6. QED
      BY <3>3, <3>4, <3>5
  <2>15. Marked(Q, n) = Marked(P, n) \cup {e}
    BY <2>14 DEF Marked
  <2>16. QED
    BY <2>3, <2>4, <2>13, <2>15
<1>7. QED
  BY <1>5, <1>6

(* What lies at a place between the bounds of a set is in the set.          *)
LEMMA PlaceInSet ==
  ASSUME NEW n \in Nat, NEW P, IsPartition(P, n), NEW s \in Sets(P),
         NEW l \in Int, P.first[s] <= l, l < P.end[s]
  PROVE  /\ l \in Elements(n) /\ P.elems[l] \in Elements(n)
         /\ P.location[P.elems[l]] = l /\ P.set_idx[P.elems[l]] = s
<1>1. s \in Elements(n) /\ P.first[s] \in 0 .. n /\ P.end[s] \in 0 .. n
  BY Entries
<1>2. l \in Elements(n)
  BY <1>1 DEF Elements
<1>3. P.elems[l] \in Elements(n)
  BY <1>2, Entries
<1>4. P.location[P.elems[l]] = l
  BY <1>2 DEF IsPartition, IsPermutation
<1>5. P.set_idx[P.elems[l]] = s
  BY <1>3, <1>4 DEF IsPartition, LiesBetween
<1>6. QED
  BY <1>2, <1>3, <1>4, <1>5

(* A set with a middle of its own shows that there is room for one more.    *)
LEMMA RoomForOneMore ==
  ASSUME NEW n \in Nat, NEW P, IsPartition(P, n), NEW s \in Sets(P),
         P.mid[s] # P.first[s], P.mid[s] # P.end[s]
  PROVE  P.num_of_sets < n
<1>1. P.num_of_sets \in 0 .. n /\ \A t \in Sets(P) : t \in Elements(n)
  BY Entries
<1>2. \A t \in Sets(P) : P.first[t] \in 0 .. n /\ P.mid[t] \in 0 .. n /\ P.end[t] \in 0 .. n
  BY <1>1, Entries
<1>3. \A t \in Sets(P) : P.first[t] <= P.mid[t] /\ P.mid[t] <= P.end[t] /\ P.first[t] < P.end[t]
  BY DEF IsPartition, HasBounds
<1>4. P.first[s] < P.mid[s] /\ P.mid[s] < P.end[s]
  BY <1>2, <1>3
<1> DEFINE opens == [t \in 0 .. P.num_of_sets |->
                       IF t = P.num_of_sets THEN P.mid[s] ELSE P.first[t]]
<1>5. \A t \in Sets(P) : opens[t] = P.first[t]
  BY <1>1 DEF Sets
<1>6. opens[P.num_of_sets] = P.mid[s]
  BY <1>1
<1>7. \A t \in 0 .. P.num_of_sets : t \in Sets(P) \/ t = P.num_of_sets
  BY <1>1 DEF Sets
<1> HIDE DEF opens
<1>8. \A t \in Sets(P) : opens[t] \in Elements(n) /\ P.set_idx[P.elems[opens[t]]] = t
  <2> TAKE t \in Sets(P)
  <2>1. P.first[t] \in Int /\ P.first[t] <= P.first[t] /\ P.first[t] < P.end[t]
    BY <1>2, <1>3
  <2>2. QED
    BY <2>1, <1>5, PlaceInSet
<1>9. opens[P.num_of_sets] \in Elements(n) /\ P.set_idx[P.elems[opens[P.num_of_sets]]] = s
  <2>1. P.mid[s] \in Int /\ P.first[s] <= P.mid[s] /\ P.mid[s] < P.end[s]
    BY <1>2, <1>4
  <2>2. QED
    BY <2>1, <1>6, PlaceInSet
<1>10. opens[s] # opens[P.num_of_sets]
  BY <1>2, <1>4, <1>5, <1>6
<1>11. \A t, u \in 0 .. P.num_of_sets : opens[t] = opens[u] => t = u
  BY <1>7, <1>8, <1>9, <1>10
<1>12. opens \in [0 .. P.num_of_sets -> Elements(n)]
  <2>1. \A t \in 0 .. P.num_of_sets : opens[t] \in Elements(n)
    BY <1>7, <1>8, <1>9
  <2>2. QED
    BY <2>1 DEF opens
<1>13. /\ IsFiniteSet(0 .. P.num_of_sets) /\ Cardinality(0 .. P.num_of_sets) = P.num_of_sets + 1
       /\ IsFiniteSet(Elements(n)) /\ Cardinality(Elements(n)) = n
  <2>1. PICK k : k = P.num_of_sets
    OBVIOUS
  <2>2. k \in Nat /\ 0 \in Int /\ k \in Int /\ n - 1 \in Int
    BY <2>1, <1>1
  <2>3. IsFiniteSet(0 .. k) /\ Cardinality(0 .. k) = k + 1
    BY <2>2, FS_Interval
  <2>4. IsFiniteSet(0 .. n - 1) /\ Cardinality(0 .. n - 1) = n
    BY <2>2, FS_Interval
  <2>5. QED
    BY <2>1, <2>3, <2>4 DEF Elements
<1>14. ~(n < P.num_of_sets + 1)
  <2> SUFFICES ASSUME n < P.num_of_sets + 1 PROVE FALSE
    OBVIOUS
  <2> DEFINE D == 0 .. P.num_of_sets
  <2>1. IsFiniteSet(D) /\ IsFiniteSet(Elements(n)) /\ Cardinality(Elements(n)) < Cardinality(D)
        /\ opens \in [D -> Elements(n)]
    BY <1>12, <1>13
  <2> HIDE DEF D
  <2>2. \E t, u \in D : t # u /\ opens[t] = opens[u]
    BY <2>1, FS_PigeonHole
  <2>3. QED
    BY <2>2, <1>11 DEF D
<1>15. QED
  BY <1>1, <1>14

(* What split does to the sets: nothing, when all or none of the set is     *)
(* marked; else the marked elements move to a set of their own, the last.   *)
KeepsSets(P, Q, s, n) ==
  /\ Q.num_of_sets = P.num_of_sets /\ Q.set_idx = P.set_idx
  /\ \/ \A e \in Elements(n) : P.set_idx[e] = s => ~IsMarked(P, e)
     \/ \A e \in Elements(n) : P.set_idx[e] = s => IsMarked(P, e)

SplitsOff(P, Q, s, n) ==
  /\ Q.num_of_sets = P.num_of_sets + 1
  /\ \A e \in Elements(n) :
       Q.set_idx[e] = IF P.set_idx[e] = s /\ IsMarked(P, e) THEN P.num_of_sets
                                                            ELSE P.set_idx[e]
  /\ \E e \in Elements(n) : P.set_idx[e] = s /\ IsMarked(P, e)
  /\ \E e \in Elements(n) : P.set_idx[e] = s /\ ~IsMarked(P, e)

LEMMA SplitKeeps ==
  ASSUME NEW n \in Nat, NEW P, IsPartition(P, n), NEW s \in Sets(P),
         P.mid[s] \in {P.first[s], P.end[s]}
  PROVE  /\ IsPartition(Split(P, s), n)
         /\ Marked(Split(P, s), n) = {e \in Marked(P, n) : P.set_idx[e] # s}
         /\ KeepsSets(P, Split(P, s), s, n)
<1> DEFINE Q == [P EXCEPT !.mid = [@ EXCEPT ![s] = P.first[s]]]
<1>1. Split(P, s) = Q
  BY DEF Split
<1>2. P \in Partitions(n)
  BY DEF IsPartition
<1>3. /\ Q.num_of_sets = P.num_of_sets /\ Q.set_idx = P.set_idx
      /\ Q.elems = P.elems /\ Q.location = P.location
      /\ Q.first = P.first /\ Q.end = P.end
  BY <1>2 DEF Partitions
<1>4. Q.mid = [P.mid EXCEPT ![s] = P.first[s]]
  BY <1>2 DEF Partitions
<1>5. s \in Elements(n) /\ P.first[s] \in 0 .. n
  BY Entries
<1>6. Q.mid \in [Elements(n) -> 0 .. n]
  BY <1>2, <1>4, <1>5 DEF Partitions
<1>7. Q \in Partitions(n)
  BY <1>2, <1>3, <1>6 DEF Partitions
<1>8. \A t \in Elements(n) : Q.mid[t] = IF t = s THEN P.first[s] ELSE P.mid[t]
  BY <1>2, <1>4, <1>5 DEF Partitions
<1> HIDE DEF Q
<1>9. Sets(Q) = Sets(P) /\ \A t \in Sets(P) : t \in Elements(n)
  BY <1>3, Entries DEF Sets
<1>10. IsPermutation(Q, n)
  BY <1>3 DEF IsPartition, IsPermutation
<1>11. LiesBetween(Q, n)
  <2>1. \A y \in Elements(n) : Q.set_idx[y] \in Sets(Q)
    BY <1>3, <1>9 DEF IsPartition, LiesBetween
  <2>2. ASSUME NEW y \in Elements(n), NEW t \in Sets(Q)
        PROVE  Q.set_idx[y] = t <=> Q.first[t] <= Q.location[y] /\ Q.location[y] < Q.end[t]
    <3>1. P.set_idx[y] = t <=> P.first[t] <= P.location[y] /\ P.location[y] < P.end[t]
      BY <1>9 DEF IsPartition, LiesBetween
    <3>2. QED
      BY <3>1, <1>3
  <2>3. QED
    BY <2>1, <2>2 DEF LiesBetween
<1>12. HasBounds(Q, n)
  <2> SUFFICES ASSUME NEW t \in Sets(Q)
               PROVE  /\ Q.first[t] <= Q.mid[t] /\ Q.mid[t] <= Q.end[t]
                      /\ Q.first[t] < Q.end[t]
    BY DEF HasBounds
  <2>1. P.first[t] <= P.mid[t] /\ P.mid[t] <= P.end[t] /\ P.first[t] < P.end[t]
    BY <1>9 DEF IsPartition, HasBounds
  <2>2. t \in Elements(n) /\ P.first[t] \in 0 .. n /\ P.end[t] \in 0 .. n
    BY <1>9, Entries
  <2>3. QED
    BY <2>1, <2>2, <1>3, <1>8
<1>13. IsPartition(Q, n)
  BY <1>7, <1>10, <1>11, <1>12 DEF IsPartition
<1>14. ASSUME NEW e \in Elements(n) PROVE IsMarked(Q, e) <=> IsMarked(P, e) /\ P.set_idx[e] # s
  <2>1. P.set_idx[e] \in Elements(n) /\ P.location[e] \in Int
    BY Entries DEF Elements
  <2>2. P.set_idx[e] = s => P.first[s] <= P.location[e]
    BY DEF IsPartition, LiesBetween
  <2>3. IsMarked(Q, e) <=> P.location[e] < Q.mid[P.set_idx[e]]
    BY <1>3 DEF IsMarked
  <2>4. QED
    BY <2>1, <2>2, <2>3, <1>5, <1>8 DEF IsMarked
<1>15. Marked(Q, n) = {e \in Marked(P, n) : P.set_idx[e] # s}
  BY <1>14 DEF Marked
<1>16. KeepsSets(P, Q, s, n)
  <2>1. ASSUME P.mid[s] = P.first[s], NEW e \in Elements(n), P.set_idx[e] = s PROVE ~IsMarked(P, e)
    <3>1. P.first[s] <= P.location[e] /\ P.location[e] \in Int
      BY <2>1, Entries DEF IsPartition, LiesBetween, Elements
    <3>2. QED
      BY <3>1, <2>1, <1>5 DEF IsMarked
  <2>2. ASSUME P.mid[s] = P.end[s], NEW e \in Elements(n), P.set_idx[e] = s PROVE IsMarked(P, e)
    BY <2>2 DEF IsPartition, LiesBetween, IsMarked
  <2>3. QED
    BY <2>1, <2>2, <1>3 DEF KeepsSets
<1>17. QED
  BY <1>1, <1>13, <1>15, <1>16

LEMMA SplitOffMarked ==
  ASSUME NEW n \in Nat, NEW P, IsPartition(P, n), NEW s \in Sets(P),
         P.mid[s] # P.first[s], P.mid[s] # P.end[s]
  PROVE  /\ IsPartition(Split(P, s), n)
         /\ Marked(Split(P, s), n) = {e \in Marked(P, n) : P.set_idx[e] # s}
         /\ SplitsOff(P, Split(P, s), s, n)
<1> DEFINE new == P.num_of_sets
           InFront(e) == \E l \in P.first[s] .. P.mid[s] - 1 : P.elems[l] = e
           Q == [P EXCEPT !.num_of_sets = new + 1,
                   !.first = [@ EXCEPT ![new] = P.first[s], ![s] = P.mid[s]],
                   !.mid = [@ EXCEPT ![new] = P.first[s]],
                   !.end = [@ EXCEPT ![new] = P.mid[s]],
                   !.set_idx = [e \in DOMAIN @ |-> IF InFront(e) THEN new ELSE @[e]]]
<1>1. Split(P, s) = Q
  BY DEF Split
<1>2. P \in Partitions(n)
  BY DEF IsPartition
<1>3. new \in 0 .. n /\ new < n /\ new \in Elements(n)
  BY RoomForOneMore, Entries DEF Elements
<1>4. /\ s \in Elements(n) /\ P.first[s] \in 0 .. n /\ P.mid[s] \in 0 .. n /\ P.end[s] \in 0 .. n
      /\ s # new
  BY <1>3, Entries DEF Sets
<1>5. P.first[s] < P.mid[s] /\ P.mid[s] < P.end[s]
  BY <1>4 DEF IsPartition, HasBounds
<1>6. /\ Q.num_of_sets = new + 1 /\ Q.elems = P.elems /\ Q.location = P.location
      /\ Q.first = [P.first EXCEPT ![new] = P.first[s], ![s] = P.mid[s]]
      /\ Q.mid = [P.mid EXCEPT ![new] = P.first[s]]
      /\ Q.end = [P.end EXCEPT ![new] = P.mid[s]]
      /\ Q.set_idx = [e \in DOMAIN P.set_idx |-> IF InFront(e) THEN new ELSE P.set_idx[e]]
  BY <1>2 DEF Partitions
<1>7. DOMAIN P.set_idx = Elements(n) /\ P.set_idx \in [Elements(n) -> 0 .. n]
  BY <1>2 DEF Partitions
<1>8. Q \in Partitions(n)
  <2>1. Q.first \in [Elements(n) -> 0 .. n] /\ Q.mid \in [Elements(n) -> 0 .. n]
        /\ Q.end \in [Elements(n) -> 0 .. n]
    BY <1>2, <1>3, <1>4, <1>6 DEF Partitions
  <2>2. Q.set_idx \in [Elements(n) -> 0 .. n]
    <3> HIDE DEF InFront, new, Q
    <3>1. QED
      BY <1>3, <1>6, <1>7
  <2>3. Q.num_of_sets \in 0 .. n
    BY <1>3, <1>6
  <2>4. QED
    BY <1>2, <1>6, <2>1, <2>2, <2>3 DEF Partitions
<1>9. \A e \in Elements(n) : InFront(e) <=> P.set_idx[e] = s /\ IsMarked(P, e)
  <2> TAKE e \in Elements(n)
  <2>1. P.location[e] \in Elements(n) /\ P.elems[P.location[e]] = e
    BY Entries DEF IsPartition, IsPermutation
  <2>2. P.set_idx[e] = s <=> P.first[s] <= P.location[e] /\ P.location[e] < P.end[s]
    BY DEF IsPartition, LiesBetween
  <2>3. ASSUME InFront(e) PROVE P.set_idx[e] = s /\ IsMarked(P, e)
    <3>1. PICK l \in P.first[s] .. P.mid[s] - 1 : P.elems[l] = e
      BY <2>3
    <3>2. l \in Int /\ P.first[s] <= l /\ l < P.end[s] /\ l < P.mid[s]
      BY <1>4, <1>5
    <3>3. P.location[e] = l /\ P.set_idx[e] = s
      BY <3>1, <3>2, PlaceInSet
    <3>4. QED
      BY <3>2, <3>3 DEF IsMarked
  <2>4. ASSUME P.set_idx[e] = s, IsMarked(P, e) PROVE InFront(e)
    <3>1. P.location[e] \in P.first[s] .. P.mid[s] - 1
      BY <2>1, <2>2, <2>4, <1>4 DEF IsMarked, Elements
    <3>2. QED
      BY <3>1, <2>1
  <2>5. QED
    BY <2>3, <2>4
<1>10. /\ \A e \in Elements(n) :
            Q.set_idx[e] = IF P.set_idx[e] = s /\ IsMarked(P, e) THEN new ELSE P.set_idx[e]
  <2> HIDE DEF InFront, new, Q
  <2>1. QED
    BY <1>6, <1>7, <1>9
<1>11. \A t \in Elements(n) :
         /\ Q.first[t] = IF t = s THEN P.mid[s] ELSE IF t = new THEN P.first[s] ELSE P.first[t]
         /\ Q.mid[t] = IF t = new THEN P.first[s] ELSE P.mid[t]
         /\ Q.end[t] = IF t = new THEN P.mid[s] ELSE P.end[t]
  BY <1>2, <1>3, <1>4, <1>6 DEF Partitions
<1>12. Q.elems = P.elems /\ Q.location = P.location /\ Q.num_of_sets = new + 1
  BY <1>6
<1> HIDE DEF Q, InFront
<1>13. \A t : t \in Sets(Q) <=> t \in Sets(P) \/ t = new
  BY <1>3, <1>12 DEF Sets
<1>14. \A t \in Sets(P) : t \in Elements(n) /\ t # new
  BY <1>3, Entries DEF Sets
<1>15. IsPermutation(Q, n)
  BY <1>12 DEF IsPartition, IsPermutation
<1>16. HasBounds(Q, n)
  <2> SUFFICES ASSUME NEW t \in Sets(Q)
               PROVE  /\ Q.first[t] <= Q.mid[t] /\ Q.mid[t] <= Q.end[t]
                      /\ Q.first[t] < Q.end[t]
    BY DEF HasBounds
  <2>1. CASE t = new
    BY <2>1, <1>3, <1>4, <1>5, <1>11
  <2>2. CASE t = s
    BY <2>2, <1>4, <1>5, <1>11
  <2>3. CASE t # s /\ t # new
    <3>1. t \in Sets(P) /\ t \in Elements(n)
      BY <2>3, <1>13, <1>14
    <3>2. P.first[t] <= P.mid[t] /\ P.mid[t] <= P.end[t] /\ P.first[t] < P.end[t]
      BY <3>1 DEF IsPartition, HasBounds
    <3>3. QED
      BY <2>3, <3>1, <3>2, <1>11
  <2>4. QED
    BY <2>1, <2>2, <2>3
<1>17. LiesBetween(Q, n)
  <2>1. ASSUME NEW y \in Elements(n) PROVE Q.set_idx[y] \in Sets(Q)
    <3>1. P.set_idx[y] \in Sets(P)
      BY Entries
    <3>2. QED
      BY <3>1, <1>10, <1>13
  <2>2. ASSUME NEW y \in Elements(n), NEW t \in Sets(Q)
        PROVE  Q.set_idx[y] = t <=> Q.first[t] <= Q.location[y] /\ Q.location[y] < Q.end[t]
    <3>1. Q.location[y] = P.location[y] /\ P.location[y] \in Int
      BY <1>12, Entries DEF Elements
    <3>2. P.set_idx[y] \in Sets(P) /\ P.set_idx[y] # new
      BY <1>14, Entries
    <3>3. P.set_idx[y] = s <=> P.first[s] <= P.location[y] /\ P.location[y] < P.end[s]
      BY DEF IsPartition, LiesBetween
    <3>4. P.set_idx[y] = s => (IsMarked(P, y) <=> P.location[y] < P.mid[s])
      BY DEF IsMarked
    <3>5. CASE t = new
      <4>1. Q.first[t] = P.first[s] /\ Q.end[t] = P.mid[s]
        BY <3>5, <1>3, <1>4, <1>11
      <4>2. QED
        BY <4>1, <3>1, <3>2, <3>3, <3>4, <3>5, <1>4, <1>5, <1>10
    <3>6. CASE t = s
      <4>1. Q.first[t] = P.mid[s] /\ Q.end[t] = P.end[s]
        BY <3>6, <1>4, <1>11
      <4>2. QED
        BY <4>1, <3>1, <3>2, <3>3, <3>4, <3>6, <1>4, <1>5, <1>10
    <3>7. CASE t # s /\ t # new
      <4>1. t \in Sets(P) /\ Q.first[t] = P.first[t] /\ Q.end[t] = P.end[t]
        BY <3>7, <1>11, <1>13, <1>14
      <4>2. P.set_idx[y] = t <=> P.first[t] <= P.location[y] /\ P.location[y] < P.end[t]
        BY <4>1 DEF IsPartition, LiesBetween
      <4>3. Q.set_idx[y] = t <=> P.set_idx[y] = t
        BY <3>7, <1>10
      <4>4. QED
        BY <4>1, <4>2, <4>3, <3>1
    <3>8. QED
      BY <3>5, <3>6, <3>7
  <2>3. QED
    BY <2>1, <2>2 DEF LiesBetween
<1>18. IsPartition(Q, n)
  BY <1>8, <1>15, <1>16, <1>17 DEF IsPartition
<1>19. ASSUME NEW e \in Elements(n) PROVE IsMarked(Q, e) <=> IsMarked(P, e) /\ P.set_idx[e] # s
  <2>1. /\ P.set_idx[e] \in Sets(P) /\ P.set_idx[e] \in Elements(n) /\ P.set_idx[e] # new
        /\ P.location[e] \in Int
    BY <1>14, Entries DEF Elements
  <2>2. P.set_idx[e] = s <=> P.first[s] <= P.location[e] /\ P.location[e] < P.end[s]
    BY DEF IsPartition, LiesBetween
  <2>3. IsMarked(Q, e) <=> P.location[e] < Q.mid[Q.set_idx[e]]
    BY <1>12 DEF IsMarked
  <2>4. CASE P.set_idx[e] = s /\ IsMarked(P, e)
    <3>1. Q.mid[Q.set_idx[e]] = P.first[s]
      BY <2>4, <1>3, <1>10, <1>11
    <3>2. QED
      BY <3>1, <2>1, <2>2, <2>3, <2>4, <1>4
  <2>5. CASE ~(P.set_idx[e] = s /\ IsMarked(P, e))
    <3>1. Q.mid[Q.set_idx[e]] = P.mid[P.set_idx[e]]
      BY <2>1, <2>5, <1>10, <1>11
    <3>2. QED
      BY <3>1, <2>3, <2>5 DEF IsMarked
  <2>6. QED
    BY <2>4, <2>5
<1>20. Marked(Q, n) = {e \in Marked(P, n) : P.set_idx[e] # s}
  BY <1>19 DEF Marked
<1>21. \E e \in Elements(n) : P.set_idx[e] = s /\ IsMarked(P, e)
  <2>1. P.first[s] \in Int /\ P.first[s] <= P.first[s] /\ P.first[s] < P.end[s]
    BY <1>4, <1>5
  <2>2. PICK e : e = P.elems[P.first[s]]
    OBVIOUS
  <2>3. e \in Elements(n) /\ P.location[e] = P.first[s] /\ P.set_idx[e] = s
    BY <2>1, <2>2, PlaceInSet
  <2>4. QED
    BY <2>3, <1>5 DEF IsMarked
<1>22. \E e \in Elements(n) : P.set_idx[e] = s /\ ~IsMarked(P, e)
  <2>1. P.mid[s] \in Int /\ P.first[s] <= P.mid[s] /\ P.mid[s] < P.end[s]
    BY <1>4, <1>5
  <2>2. PICK e : e = P.elems[P.mid[s]]
    OBVIOUS
  <2>3. e \in Elements(n) /\ P.location[e] = P.mid[s] /\ P.set_idx[e] = s
    BY <2>1, <2>2, PlaceInSet
  <2>4. QED
    BY <2>3, <1>4 DEF IsMarked
<1>23. SplitsOff(P, Q, s, n)
  BY <1>10, <1>12, <1>21, <1>22 DEF SplitsOff
<1>24. QED
  BY <1>1, <1>18, <1>20, <1>23

------------------------------------------------------------------------------
(* Elements of a finite set, counted along an order.                        *)

RankBy(S, R, t) == Cardinality({u \in S : <<u, t>> \in R})

IsOrderOn(S, R) ==
  /\ \A t \in S : <<t, t>> \notin R
  /\ \A t, u, v \in S : <<t, u>> \in R /\ <<u, v>> \in R => <<t, v>> \in R
  /\ \A t, u \in S : t = u \/ <<t, u>> \in R \/ <<u, t>> \in R

LEMMA Ranks ==
  ASSUME NEW S, IsFiniteSet(S), NEW R, IsOrderOn(S, R)
  PROVE  /\ Cardinality(S) \in Nat
         /\ \A t \in S : RankBy(S, R, t) \in 0 .. Cardinality(S) - 1
         /\ \A t, u \in S : RankBy(S, R, t) < RankBy(S, R, u) <=> <<t, u>> \in R
         /\ \A t, u \in S : RankBy(S, R, t) = RankBy(S, R, u) => t = u
         /\ \A k \in 0 .. Cardinality(S) - 1 : \E t \in S : RankBy(S, R, t) = k
<1> DEFINE Under(t) == {u \in S : <<u, t>> \in R}
           n == Cardinality(S)
<1>1. \A t \in S : RankBy(S, R, t) = Cardinality(Under(t))
  BY DEF RankBy
<1>2. \A t \in S : IsFiniteSet(Under(t)) /\ Cardinality(Under(t)) \in Nat
  BY FS_Subset, FS_CardinalityType
<1>3. n \in Nat
  BY FS_CardinalityType
<1>4. \A t \in S : IsFiniteSet(Under(t) \cup {t}) /\ Cardinality(Under(t) \cup {t}) = Cardinality(Under(t)) + 1
  <2> TAKE t \in S
  <2>1. t \notin Under(t)
    BY DEF IsOrderOn
  <2> HIDE DEF Under
  <2>2. QED
    BY <1>2, <2>1, FS_AddElement
<1>5. \A t \in S : Cardinality(Under(t)) + 1 <= n
  <2> TAKE t \in S
  <2>1. Under(t) \cup {t} \in SUBSET S
    OBVIOUS
  <2> HIDE DEF Under
  <2>2. Cardinality(Under(t) \cup {t}) <= Cardinality(S)
    BY <2>1, FS_Subset
  <2>3. QED
    BY <2>2, <1>4
<1>6. \A t, u \in S : <<t, u>> \in R => Cardinality(Under(t)) + 1 <= Cardinality(Under(u))
  <2> TAKE t, u \in S
  <2> HAVE <<t, u>> \in R
  <2>1. Under(t) \cup {t} \in SUBSET Under(u)
    BY DEF IsOrderOn
  <2> HIDE DEF Under
  <2>2. Cardinality(Under(t) \cup {t}) <= Cardinality(Under(u))
    BY <1>2, <2>1, FS_Subset
  <2>3. QED
    BY <2>2, <1>4
<1> HIDE DEF Under
<1>7. \A t \in S : RankBy(S, R, t) \in 0 .. n - 1
  BY <1>1, <1>2, <1>3, <1>5
<1>8. \A t, u \in S : <<t, u>> \in R => RankBy(S, R, t) < RankBy(S, R, u)
  BY <1>1, <1>2, <1>6
<1>9. \A t, u \in S : t = u \/ <<t, u>> \in R \/ <<u, t>> \in R
  BY DEF IsOrderOn
<1>10. \A t, u \in S : RankBy(S, R, t) < RankBy(S, R, u) => <<t, u>> \in R
  <2> TAKE t, u \in S
  <2>1. PICK i : i = RankBy(S, R, t)
    OBVIOUS
  <2>2. PICK j : j = RankBy(S, R, u)
    OBVIOUS
  <2>3. i \in Int /\ j \in Int
    BY <2>1, <2>2, <1>3, <1>7
  <2>4. (<<t, u>> \in R => i < j) /\ (<<u, t>> \in R => j < i)
    BY <2>1, <2>2, <1>8
  <2>5. t = u \/ <<t, u>> \in R \/ <<u, t>> \in R
    BY <1>9
  <2>6. QED
    BY <2>1, <2>2, <2>3, <2>4, <2>5
<1>11. \A t, u \in S : RankBy(S, R, t) = RankBy(S, R, u) => t = u
  <2> TAKE t, u \in S
  <2>1. PICK i : i = RankBy(S, R, t)
    OBVIOUS
  <2>2. PICK j : j = RankBy(S, R, u)
    OBVIOUS
  <2>3. i \in Int /\ j \in Int
    BY <2>1, <2>2, <1>3, <1>7
  <2>4. (<<t, u>> \in R => i < j) /\ (<<u, t>> \in R => j < i)
    BY <2>1, <2>2, <1>8
  <2>5. t = u \/ <<t, u>> \in R \/ <<u, t>> \in R
    BY <1>9
  <2>6. QED
    BY <2>1, <2>2, <2>3, <2>4, <2>5
<1>12. \A k \in 0 .. n - 1 : \E t \in S : RankBy(S, R, t) = k
  <2> DEFINE rank == [t \in S |-> RankBy(S, R, t)]
             K == 0 .. n - 1
  <2>1. rank \in [S -> K]
    BY <1>7
  <2>2. \A t, u \in S : rank[t] = rank[u] => t = u
    BY <1>11
  <2>3. rank \in Injection(S, K)
    BY <2>1, <2>2 DEF Injection, IsInjective
  <2>4. IsFiniteSet(K) /\ Cardinality(K) = n
    BY SMTT(30), <1>3, FS_Interval
  <2> HIDE DEF rank, K
  <2>5. rank \in Surjection(S, K)
    BY <2>3, <2>4, FS_Injection
  <2>6. \A k \in K : \E t \in S : rank[t] = k
    BY <2>5 DEF Surjection
  <2>7. QED
    BY <2>6 DEF rank, K
<1>13. QED
  BY <1>3, <1>7, <1>8, <1>10, <1>11, <1>12

(* The partition of states to begin with.                                   *)
LEMMA StatesTogether ==
  ASSUME NEW n \in Nat, n > 0
  PROVE  /\ IsPartition(OfStates(n), n)
         /\ OfStates(n).num_of_sets = 1
         /\ \A e \in Elements(n) : OfStates(n).set_idx[e] = 0
         /\ Marked(OfStates(n), n) = {}
<1> DEFINE P == OfStates(n)
<1>1. /\ P.num_of_sets = 1
      /\ P.set_idx = [e \in Elements(n) |-> 0]
      /\ P.elems = [e \in Elements(n) |-> e] /\ P.location = [e \in Elements(n) |-> e]
      /\ P.first = [s \in Elements(n) |-> 0] /\ P.mid = [s \in Elements(n) |-> 0]
      /\ P.end = [s \in Elements(n) |-> IF s = 0 THEN n ELSE 0]
  BY DEF OfStates, Elements
<1>2. 0 \in Elements(n) /\ 0 \in 0 .. n /\ n \in 0 .. n /\ 1 \in 0 .. n
  BY DEF Elements
<1>3. P \in Partitions(n)
  <2>1. /\ P.set_idx \in [Elements(n) -> 0 .. n]
        /\ P.elems \in [Elements(n) -> Elements(n)] /\ P.location \in [Elements(n) -> Elements(n)]
        /\ P.first \in [Elements(n) -> 0 .. n] /\ P.mid \in [Elements(n) -> 0 .. n]
        /\ P.end \in [Elements(n) -> 0 .. n]
    BY <1>1, <1>2
  <2>2. QED
    BY <1>1, <1>2, <2>1 DEF Partitions, OfStates
<1> HIDE DEF P
<1>4. Sets(P) = {0}
  BY <1>1 DEF Sets
<1>5. \A e \in Elements(n) : P.location[e] = e /\ P.elems[e] = e /\ P.set_idx[e] = 0
  BY <1>1
<1>6. P.first[0] = 0 /\ P.mid[0] = 0 /\ P.end[0] = n
  BY <1>1, <1>2
<1>7. \A e \in Elements(n) : 0 <= e /\ e < n /\ e \in Int
  BY DEF Elements
<1>8. IsPermutation(P, n)
  BY <1>5 DEF IsPermutation
<1>9. HasBounds(P, n)
  BY <1>4, <1>6 DEF HasBounds
<1>10. LiesBetween(P, n)
  BY <1>4, <1>5, <1>6, <1>7 DEF LiesBetween
<1>11. Marked(P, n) = {}
  BY <1>5, <1>6, <1>7 DEF Marked, IsMarked
<1>12. QED
  BY <1>1, <1>3, <1>5, <1>8, <1>9, <1>10, <1>11 DEF IsPartition, P

(* The partition of transitions to begin with: one set for each symbol.     *)
OpeningOf(trans, t) ==
  CHOOSE o \in DOMAIN trans :
    /\ trans[o][2] = trans[t][2]
    /\ \A u \in 0 .. o - 1 : trans[u][2] # trans[t][2]

LEMMA Openings ==
  ASSUME NEW n \in Nat, NEW trans, DOMAIN trans = Elements(n)
  PROVE  /\ \A t \in Elements(n) : /\ OpeningOf(trans, t) \in Elements(n)
                                   /\ trans[OpeningOf(trans, t)][2] = trans[t][2]
                                   /\ OpeningOf(trans, OpeningOf(trans, t)) = OpeningOf(trans, t)
         /\ \A t, u \in Elements(n) :
              OpeningOf(trans, t) = OpeningOf(trans, u) <=> trans[t][2] = trans[u][2]
<1> DEFINE Opens(o, a) == /\ trans[o][2] = a
                          /\ \A u \in 0 .. o - 1 : trans[u][2] # a
<1>1. \A t \in Elements(n) : \E o \in Elements(n) : Opens(o, trans[t][2])
  <2> TAKE t \in Elements(n)
  <2> DEFINE Same == {u \in Elements(n) : trans[u][2] = trans[t][2]}
  <2>1. Same \in SUBSET Nat /\ Same # {}
    BY DEF Elements
  <2>2. PICK o \in Same : \A m \in Same : o <= m
    <3> HIDE DEF Same
    <3>1. QED
      BY <2>1, LeastElement
  <2>3. ASSUME NEW u \in 0 .. o - 1 PROVE trans[u][2] # trans[t][2]
    <3>1. u \in Elements(n) /\ ~(o <= u)
      BY <2>2 DEF Elements
    <3>2. QED
      BY <3>1, <2>2
  <2>4. QED
    BY <2>2, <2>3
<1>2. \A t \in Elements(n) : OpeningOf(trans, t) = CHOOSE o \in Elements(n) : Opens(o, trans[t][2])
  BY DEF OpeningOf
<1>3. \A t \in Elements(n) : OpeningOf(trans, t) \in Elements(n) /\ Opens(OpeningOf(trans, t), trans[t][2])
  <2> HIDE DEF Opens
  <2>1. QED
    BY <1>1, <1>2
<1>4. \A t, u \in Elements(n) : trans[t][2] = trans[u][2] => OpeningOf(trans, t) = OpeningOf(trans, u)
  <2> HIDE DEF Opens
  <2>1. QED
    BY <1>2
<1>5. QED
  BY <1>3, <1>4

LEMMA TransitionsBySymbol ==
  ASSUME NEW n \in Nat, NEW trans, DOMAIN trans = Elements(n)
  PROVE  /\ IsPartition(OfTransitions(trans), n)
         /\ \A t, u \in Elements(n) :
              OfTransitions(trans).set_idx[t] = OfTransitions(trans).set_idx[u]
                <=> trans[t][2] = trans[u][2]
         /\ Marked(OfTransitions(trans), n) = {}
<1> DEFINE P == OfTransitions(trans)
           T == DOMAIN trans
           Op(t) == OpeningOf(trans, t)
           O == {t \in T : Op(t) = t}
           idx(t) == Cardinality({o \in O : o < Op(t)})
           Size(s) == Cardinality({t \in T : idx(t) < s})
           loc(t) == Cardinality({u \in T : Op(u) < Op(t) \/ (Op(u) = Op(t) /\ u > t)})
           location == [t \in T |-> loc(t)]
           begin == [s \in T |-> IF s < Cardinality(O) THEN Size(s) ELSE 0]
<1>0. T = Elements(n) /\ T = 0 .. n - 1
  BY DEF Elements
<1>1. P = [num_of_sets |-> Cardinality(O), set_idx |-> [t \in T |-> idx(t)],
           elems |-> [l \in T |-> CHOOSE t \in T : location[t] = l], location |-> location,
           first |-> begin,
           end |-> [s \in T |-> IF s < Cardinality(O) THEN Size(s + 1) ELSE 0],
           mid |-> begin]
  BY DEF OfTransitions, OpeningOf
<1>2. /\ P.num_of_sets = Cardinality(O) /\ P.set_idx = [t \in T |-> idx(t)]
      /\ P.elems = [l \in T |-> CHOOSE t \in T : location[t] = l] /\ P.location = location
      /\ P.first = begin /\ P.mid = begin
      /\ P.end = [s \in T |-> IF s < Cardinality(O) THEN Size(s + 1) ELSE 0]
  <2> HIDE DEF P, idx, O, Size, location, begin, T
  <2>1. QED
    BY <1>1
<1> HIDE DEF P
<1>3. /\ \A t \in T : Op(t) \in T /\ Op(t) \in O
      /\ \A t, u \in T : Op(t) = Op(u) <=> trans[t][2] = trans[u][2]
  <2>1. /\ \A t \in Elements(n) : /\ OpeningOf(trans, t) \in Elements(n)
                                   /\ trans[OpeningOf(trans, t)][2] = trans[t][2]
                                   /\ OpeningOf(trans, OpeningOf(trans, t)) = OpeningOf(trans, t)
        /\ \A t, u \in Elements(n) :
             OpeningOf(trans, t) = OpeningOf(trans, u) <=> trans[t][2] = trans[u][2]
    BY Openings
  <2>2. T = Elements(n)
    BY <1>0
  <2> HIDE DEF T
  <2>3. QED
    BY <2>1, <2>2, Zenon
<1>4. \A t \in T : t \in Int /\ t \in Nat
  BY <1>0
<1>5. IsFiniteSet(T) /\ Cardinality(T) = n
  <2>1. 0 \in Int /\ n - 1 \in Int
    OBVIOUS
  <2>2. QED
    BY <2>1, <1>0, FS_Interval
<1>6. O \in SUBSET T
  OBVIOUS
<1>7. IsFiniteSet(O) /\ Cardinality(O) \in Nat /\ Cardinality(O) <= n
  <2> HIDE DEF T, O
  <2>1. QED
    BY <1>5, <1>6, FS_Subset, FS_CardinalityType
<1> DEFINE Less == {w \in O \X O : w[1] < w[2]}
<1>8. IsOrderOn(O, Less)
  <2>1. \A x, y \in O : <<x, y>> \in Less <=> x < y
    OBVIOUS
  <2>2. \A x \in O : x \in Int
    BY <1>4, <1>6
  <2> HIDE DEF Less, O
  <2>3. QED
    BY <2>1, <2>2 DEF IsOrderOn
<1>9. \A t \in T : idx(t) = RankBy(O, Less, Op(t))
  <2> TAKE t \in T
  <2>1. {o \in O : o < Op(t)} = {o \in O : <<o, Op(t)>> \in Less}
    BY <1>3
  <2>2. QED
    BY <2>1 DEF RankBy
<1>10. /\ \A t \in T : idx(t) \in 0 .. Cardinality(O) - 1
       /\ \A t, u \in T : idx(t) = idx(u) <=> Op(t) = Op(u)
       /\ \A t, u \in T : idx(t) < idx(u) <=> Op(t) < Op(u)
       /\ \A s \in 0 .. Cardinality(O) - 1 : \E t \in T : idx(t) = s
  <2>1. \A x, y \in O : <<x, y>> \in Less <=> x < y
    OBVIOUS
  <2>2. \A o \in O : o \in T /\ Op(o) = o
    OBVIOUS
  <2> HIDE DEF Less, O, idx, T, Op
  <2>3. /\ \A o \in O : RankBy(O, Less, o) \in 0 .. Cardinality(O) - 1
        /\ \A o, p \in O : RankBy(O, Less, o) < RankBy(O, Less, p) <=> <<o, p>> \in Less
        /\ \A o, p \in O : RankBy(O, Less, o) = RankBy(O, Less, p) => o = p
        /\ \A k \in 0 .. Cardinality(O) - 1 : \E o \in O : RankBy(O, Less, o) = k
    BY <1>7, <1>8, Ranks
  <2>4. \A t \in T : idx(t) \in 0 .. Cardinality(O) - 1
    BY <1>3, <1>9, <2>3
  <2>5. \A t, u \in T : idx(t) = idx(u) <=> Op(t) = Op(u)
    BY <1>3, <1>9, <2>3
  <2>6. ASSUME NEW t \in T, NEW u \in T PROVE idx(t) < idx(u) <=> Op(t) < Op(u)
    <3>1. idx(t) = RankBy(O, Less, Op(t)) /\ idx(u) = RankBy(O, Less, Op(u))
      BY <1>9
    <3>2. Op(t) \in O /\ Op(u) \in O
      BY <1>3
    <3>3. RankBy(O, Less, Op(t)) < RankBy(O, Less, Op(u)) <=> <<Op(t), Op(u)>> \in Less
      BY <2>3, <3>2
    <3>4. <<Op(t), Op(u)>> \in Less <=> Op(t) < Op(u)
      BY <2>1, <3>2
    <3>5. QED
      BY <3>1, <3>3, <3>4
  <2>7. ASSUME NEW s \in 0 .. Cardinality(O) - 1 PROVE \E t \in T : idx(t) = s
    <3>1. PICK o \in O : RankBy(O, Less, o) = s
      BY <2>3
    <3>2. QED
      BY <3>1, <2>2, <1>9
  <2>8. QED
    BY <2>4, <2>5, <2>6, <2>7
<1>101. \A t \in T : idx(t) \in Int
  <2> HIDE DEF idx, O, T
  <2>1. PICK k \in Nat : k = Cardinality(O)
    BY <1>7
  <2>2. \A t \in T : idx(t) \in 0 .. k - 1
    BY <2>1, <1>10
  <2>3. QED
    BY <2>2
<1> DEFINE Places == {w \in T \X T : Op(w[1]) < Op(w[2]) \/ (Op(w[1]) = Op(w[2]) /\ w[1] > w[2])}
<1>11. \A t, u \in T : <<u, t>> \in Places <=> (Op(u) < Op(t) \/ (Op(u) = Op(t) /\ u > t))
  OBVIOUS
<1>12. \A t \in T : Op(t) \in Int
  BY <1>3, <1>4
<1>13. IsOrderOn(T, Places)
  <2> HIDE DEF Places, Op, T
  <2>1. \A t \in T : <<t, t>> \notin Places
    BY <1>4, <1>11, <1>12
  <2>2. \A t, u, v \in T : <<t, u>> \in Places /\ <<u, v>> \in Places => <<t, v>> \in Places
    BY <1>4, <1>11, <1>12
  <2>3. ASSUME NEW t \in T, NEW u \in T
        PROVE  t = u \/ <<t, u>> \in Places \/ <<u, t>> \in Places
    <3>1. t \in Int /\ u \in Int /\ Op(t) \in Int /\ Op(u) \in Int
      BY <1>4, <1>12
    <3>2. CASE Op(t) = Op(u)
      <4>1. t = u \/ t > u \/ u > t
        BY <3>1
      <4>2. QED
        BY <4>1, <3>2, <1>11
    <3>3. CASE Op(t) < Op(u)
      BY <3>3, <1>11
    <3>4. CASE Op(u) < Op(t)
      BY <3>4, <1>11
    <3>5. QED
      BY <3>1, <3>2, <3>3, <3>4
  <2>4. QED
    BY <2>1, <2>2, <2>3 DEF IsOrderOn
<1>14. \A t \in T : loc(t) = RankBy(T, Places, t)
  <2> TAKE t \in T
  <2>1. {u \in T : Op(u) < Op(t) \/ (Op(u) = Op(t) /\ u > t)} = {u \in T : <<u, t>> \in Places}
    BY <1>11
  <2>2. QED
    BY <2>1 DEF RankBy
<1>15. /\ \A t \in T : loc(t) \in T
       /\ \A t, u \in T : loc(t) = loc(u) => t = u
       /\ \A l \in T : \E t \in T : loc(t) = l
  <2>1. T = 0 .. Cardinality(T) - 1
    BY <1>0, <1>5
  <2> HIDE DEF Places, loc, T
  <2>2. /\ \A t \in T : RankBy(T, Places, t) \in 0 .. Cardinality(T) - 1
        /\ \A t, u \in T : RankBy(T, Places, t) = RankBy(T, Places, u) => t = u
        /\ \A k \in 0 .. Cardinality(T) - 1 : \E t \in T : RankBy(T, Places, t) = k
    BY <1>5, <1>13, Ranks
  <2>3. \A t \in T : loc(t) \in T
    BY ZenonT(40), <2>1, <2>2, <1>14
  <2>4. \A t, u \in T : loc(t) = loc(u) => t = u
    BY <2>2, <1>14
  <2>5. ASSUME NEW l \in T PROVE \E t \in T : loc(t) = l
    <3>1. l \in 0 .. Cardinality(T) - 1
      BY <2>1
    <3>2. PICK t \in T : RankBy(T, Places, t) = l
      BY <3>1, <2>2
    <3>3. QED
      BY <3>2, <1>14
  <2>6. QED
    BY <2>3, <2>4, <2>5
<1> HIDE DEF Places, Less
<1>16. \A s \in Int : Size(s) \in 0 .. n
  <2> TAKE s \in Int
  <2> DEFINE U == {t \in T : idx(t) < s}
  <2>1. U \in SUBSET T
    OBVIOUS
  <2> HIDE DEF U, T
  <2>2. IsFiniteSet(U) /\ Cardinality(U) <= Cardinality(T)
    BY <1>5, <2>1, FS_Subset
  <2>3. Cardinality(U) \in Nat
    BY <2>2, FS_CardinalityType
  <2>4. QED
    BY <2>2, <2>3, <1>5 DEF U
<1>17. \A s, r \in Int : s <= r => Size(s) <= Size(r)
  <2> TAKE s, r \in Int
  <2> HAVE s <= r
  <2> DEFINE U == {t \in T : idx(t) < s}
             V == {t \in T : idx(t) < r}
  <2>1. V \in SUBSET T /\ U \in SUBSET V
    <3>1. \A t \in T : idx(t) \in Int
      BY <1>101
    <3> HIDE DEF idx, T
    <3>2. QED
      BY <3>1
  <2> HIDE DEF U, V, T
  <2>2. IsFiniteSet(V)
    BY <1>5, <2>1, FS_Subset
  <2>3. Cardinality(U) <= Cardinality(V)
    BY <2>1, <2>2, FS_Subset
  <2>4. QED
    BY <2>3 DEF U, V
<1>18. \A t \in T : Size(idx(t)) <= loc(t) /\ loc(t) < Size(idx(t) + 1)
  <2> TAKE t \in T
  <2> DEFINE U == {u \in T : idx(u) < idx(t)}
             V == {u \in T : Op(u) < Op(t) \/ (Op(u) = Op(t) /\ u > t)}
             W == {u \in T : idx(u) < idx(t) + 1}
  <2>1. U \in SUBSET V /\ V \in SUBSET T /\ W \in SUBSET T
    BY <1>10
  <2>2. V \cup {t} \in SUBSET W
    <3>1. \A u \in T : idx(u) \in Int
      BY <1>101
    <3>2. \A u \in V : idx(u) < idx(t) \/ idx(u) = idx(t)
      BY <1>10
    <3> HIDE DEF idx, Op
    <3>3. QED
      BY <3>1, <3>2
  <2>3. t \notin V
    BY <1>4, <1>12
  <2>4. Size(idx(t)) = Cardinality(U) /\ loc(t) = Cardinality(V) /\ Size(idx(t) + 1) = Cardinality(W)
    OBVIOUS
  <2> HIDE DEF U, V, W, T, loc, Size, idx
  <2>5. IsFiniteSet(V) /\ IsFiniteSet(W)
    BY <1>5, <2>1, FS_Subset
  <2>6. Cardinality(U) <= Cardinality(V)
    BY <2>1, <2>5, FS_Subset
  <2>7. Cardinality(V \cup {t}) = Cardinality(V) + 1
    BY <2>3, <2>5, FS_AddElement
  <2>8. Cardinality(V \cup {t}) <= Cardinality(W)
    BY <2>2, <2>5, FS_Subset
  <2>9. Cardinality(V) \in Nat /\ Cardinality(W) \in Nat
    BY <2>5, FS_CardinalityType
  <2>10. QED
    BY <2>4, <2>6, <2>7, <2>8, <2>9
<1>19. Sets(P) = 0 .. Cardinality(O) - 1 /\ \A s \in Sets(P) : s \in T /\ s < Cardinality(O) /\ s \in Int
  <2> HIDE DEF O, T
  <2>1. PICK k \in Nat : k = Cardinality(O)
    BY <1>7
  <2>2. P.num_of_sets = k /\ k <= n
    BY <2>1, <1>2, <1>7
  <2>3. Sets(P) = 0 .. k - 1
    BY <2>2 DEF Sets
  <2>4. \A s \in 0 .. k - 1 : s \in 0 .. n - 1 /\ s < k /\ s \in Int
    BY <2>2
  <2>5. QED
    BY <2>1, <2>3, <2>4, <1>0
<1> HIDE DEF Op, O, idx, Size, loc, T
<1>20. \A s \in Sets(P) : P.first[s] = Size(s) /\ P.mid[s] = Size(s) /\ P.end[s] = Size(s + 1)
  BY <1>2, <1>19
<1>21. \A t \in T : P.location[t] = loc(t) /\ P.set_idx[t] = idx(t)
  BY <1>2
<1>22. \A l \in T : P.elems[l] \in T /\ loc(P.elems[l]) = l
  <2> TAKE l \in T
  <2>1. P.elems[l] = CHOOSE t \in T : location[t] = l
    BY <1>2
  <2>2. \E t \in T : location[t] = l
    BY <1>15
  <2>3. QED
    BY <2>1, <2>2
<1>23. P \in Partitions(n)
  <2>1. P.num_of_sets \in 0 .. n
    BY <1>2, <1>7
  <2>2. P.set_idx \in [T -> 0 .. n]
    <3>1. \A t \in T : idx(t) \in 0 .. n
      BY <1>7, <1>10
    <3>2. QED
      BY <1>2, <3>1
  <2>3. P.elems \in [T -> T]
    <3>1. P.elems = [l \in T |-> P.elems[l]]
      BY <1>2, Zenon
    <3>2. QED
      BY <1>22, <3>1
  <2>4. P.location \in [T -> T]
    BY <1>2, <1>15
  <2>5. \A s \in T : s \in Int /\ s + 1 \in Int
    BY <1>4
  <2>6. P.first \in [T -> 0 .. n]
    <3>1. \A s \in T : (IF s < Cardinality(O) THEN Size(s) ELSE 0) \in 0 .. n
      BY <2>5, <1>16
    <3>2. QED
      BY <1>2, <3>1
  <2>7. P.end \in [T -> 0 .. n]
    <3>1. \A s \in T : (IF s < Cardinality(O) THEN Size(s + 1) ELSE 0) \in 0 .. n
      BY <2>5, <1>16
    <3>2. QED
      BY <1>2, <3>1
  <2>8. P.mid \in [T -> 0 .. n]
    BY <1>2, <2>6
  <2>9. P = [num_of_sets |-> P.num_of_sets, set_idx |-> P.set_idx, elems |-> P.elems,
             location |-> P.location, first |-> P.first, end |-> P.end, mid |-> P.mid]
    <3> HIDE DEF begin, location
    <3>1. QED
      BY <1>1
  <2>10. QED
    BY <1>0, <2>1, <2>2, <2>3, <2>4, <2>6, <2>7, <2>8, <2>9 DEF Partitions
<1>24. IsPermutation(P, n)
  <2>1. \A l \in T : P.location[P.elems[l]] = l
    BY <1>21, <1>22
  <2>2. \A t \in T : P.elems[P.location[t]] = t
    BY <1>15, <1>21, <1>22
  <2>3. QED
    BY <1>0, <2>1, <2>2 DEF IsPermutation
<1>25. LiesBetween(P, n)
  <2>1. \A t \in T : P.set_idx[t] \in Sets(P)
    BY <1>10, <1>19, <1>21
  <2>2. ASSUME NEW t \in T, NEW s \in Sets(P)
        PROVE  P.set_idx[t] = s <=> P.first[s] <= P.location[t] /\ P.location[t] < P.end[s]
    <3>1. PICK i : i = idx(t)
      OBVIOUS
    <3>2. i \in Int /\ s \in Int /\ loc(t) \in Int
      BY <3>1, <1>4, <1>7, <1>10, <1>15, <1>19
    <3>3. Size(i) <= loc(t) /\ loc(t) < Size(i + 1)
      BY <3>1, <1>18
    <3>4. i < s => Size(i + 1) <= Size(s)
      BY <3>2, <1>17
    <3>5. s < i => Size(s + 1) <= Size(i)
      BY <3>2, <1>17
    <3>6. Size(i) \in Int /\ Size(i + 1) \in Int /\ Size(s) \in Int /\ Size(s + 1) \in Int
      BY <3>2, <1>16
    <3>7. i = s <=> Size(s) <= loc(t) /\ loc(t) < Size(s + 1)
      BY <3>2, <3>3, <3>4, <3>5, <3>6
    <3>8. QED
      BY <3>1, <3>7, <1>20, <1>21
  <2>3. QED
    BY <1>0, <2>1, <2>2 DEF LiesBetween
<1>26. HasBounds(P, n)
  <2> SUFFICES ASSUME NEW s \in Sets(P)
               PROVE  /\ P.first[s] <= P.mid[s] /\ P.mid[s] <= P.end[s]
                      /\ P.first[s] < P.end[s]
    BY DEF HasBounds
  <2>1. PICK t \in T : idx(t) = s
    BY <1>10, <1>19
  <2>2. Size(s) <= loc(t) /\ loc(t) < Size(s + 1)
    BY <2>1, <1>18
  <2>3. Size(s) \in Int /\ Size(s + 1) \in Int /\ loc(t) \in Int
    <3>1. s \in Int /\ s + 1 \in Int
      BY <1>19
    <3>2. Size(s) \in 0 .. n /\ Size(s + 1) \in 0 .. n
      BY <3>1, <1>16
    <3>3. loc(t) \in T
      BY <1>15
    <3>4. QED
      BY <3>2, <3>3, <1>4
  <2>4. QED
    BY <2>2, <2>3, <1>20
<1>27. Marked(P, n) = {}
  <2> SUFFICES ASSUME NEW t \in T PROVE ~IsMarked(P, t)
    BY <1>0 DEF Marked
  <2>1. idx(t) \in Sets(P)
    BY <1>10, <1>19
  <2>2. Size(idx(t)) <= loc(t) /\ Size(idx(t)) \in Int /\ loc(t) \in Int
    BY <2>1, <1>4, <1>15, <1>16, <1>18, <1>19
  <2>3. QED
    BY <2>1, <2>2, <1>20, <1>21 DEF IsMarked
<1>28. \A t, u \in T : P.set_idx[t] = P.set_idx[u] <=> trans[t][2] = trans[u][2]
  BY <1>3, <1>10, <1>21
<1>29. QED
  BY <1>0, <1>23, <1>24, <1>25, <1>26, <1>27, <1>28 DEF IsPartition, P

------------------------------------------------------------------------------
(* The stacks of touched sets.                                              *)

NoneTwice(seq) == \A i, j \in 1 .. Len(seq) : seq[i] = seq[j] => i = j

(* The stack holds the sets that have marks, each once.                     *)
HoldsMarked(P, n, stack) ==
  /\ stack \in Seq(Sets(P)) /\ NoneTwice(stack)
  /\ \A s \in Sets(P) :
       s \in ToSet(stack) <=> \E e \in Marked(P, n) : P.set_idx[e] = s

LEMMA HeldIsWaiting ==
  ASSUME NEW n \in Nat, NEW P, IsPartition(P, n), NEW stack, HoldsMarked(P, n, stack)
  PROVE  Waiting(P, stack)
<1>1. stack \in Seq(Sets(P)) /\ NoneTwice(stack) /\ Len(stack) \in Nat
  BY DEF HoldsMarked
<1>2. ToSet(stack) = {s \in Sets(P) : ~has_no_marks(P, s)}
  <2>1. ToSet(stack) \subseteq Sets(P)
    BY <1>1 DEF ToSet
  <2>2. \A s \in Sets(P) : s \in ToSet(stack) <=> ~has_no_marks(P, s)
    <3> TAKE s \in Sets(P)
    <3>1. has_no_marks(P, s) <=> \A e \in Marked(P, n) : P.set_idx[e] # s
      BY MarksOfASet
    <3>2. s \in ToSet(stack) <=> \E e \in Marked(P, n) : P.set_idx[e] = s
      BY DEF HoldsMarked
    <3>3. QED
      BY <3>1, <3>2
  <2>3. QED
    BY <2>1, <2>2
<1>3. stack \in Bijection(1 .. Len(stack), ToSet(stack))
  <2>1. DOMAIN stack = 1 .. Len(stack) /\ stack \in [1 .. Len(stack) -> ToSet(stack)]
    BY <1>1 DEF ToSet
  <2>2. stack \in Injection(1 .. Len(stack), ToSet(stack))
    BY <1>1, <2>1 DEF Injection, IsInjective, NoneTwice
  <2>3. stack \in Surjection(1 .. Len(stack), ToSet(stack))
    BY <2>1 DEF Surjection, ToSet
  <2>4. QED
    BY <2>2, <2>3 DEF Bijection
<1>4. ExistsBijection(1 .. Len(stack), ToSet(stack))
  BY <1>3 DEF ExistsBijection
<1>5. Cardinality(ToSet(stack)) = Len(stack)
  BY <1>1, <1>4, FS_CountingElements
<1>6. QED
  BY <1>2, <1>5 DEF Waiting, Sets

LEMMA NothingHeld ==
  ASSUME NEW n \in Nat, NEW P, IsPartition(P, n)
  PROVE  HoldsMarked(P, n, << >>) <=> Marked(P, n) = {}
<1>1. << >> \in Seq(Sets(P)) /\ NoneTwice(<< >>) /\ ToSet(<< >>) = {}
  BY DEF NoneTwice, ToSet
<1>2. \A e \in Marked(P, n) : P.set_idx[e] \in Sets(P)
  BY Entries DEF Marked
<1>3. QED
  BY <1>1, <1>2 DEF HoldsMarked

(* Marking an element pushes its set unless it is there already.            *)
LEMMA PushedWhenMarked ==
  ASSUME NEW n \in Nat, NEW P, IsPartition(P, n), NEW stack, HoldsMarked(P, n, stack),
         NEW e \in Elements(n)
  PROVE  HoldsMarked(Mark(P, e), n,
                     IF has_no_marks(P, P.set_idx[e]) THEN Append(stack, P.set_idx[e])
                                                      ELSE stack)
<1> DEFINE s == P.set_idx[e]
           Q == Mark(P, e)
           pushed == IF has_no_marks(P, s) THEN Append(stack, s) ELSE stack
<1>1. s \in Sets(P)
  BY Entries
<1>2. stack \in Seq(Sets(P)) /\ NoneTwice(stack) /\ Len(stack) \in Nat
  BY DEF HoldsMarked
<1>3. \A r \in Sets(P) : r \in ToSet(stack) <=> \E x \in Marked(P, n) : P.set_idx[x] = r
  BY DEF HoldsMarked
<1>4. Q.set_idx = P.set_idx /\ Sets(Q) = Sets(P) /\ Marked(Q, n) = Marked(P, n) \cup {e}
  BY MarkMarks DEF Sets
<1>5. has_no_marks(P, s) <=> s \notin ToSet(stack)
  BY <1>1, <1>3, MarksOfASet
<1> HIDE DEF Q, s
<1>6. \A r \in Sets(P) : (r \in ToSet(stack) \/ r = s) <=> \E x \in Marked(Q, n) : Q.set_idx[x] = r
  BY <1>3, <1>4 DEF s
<1>7. CASE s \in ToSet(stack)
  <2>1. pushed = stack
    BY <1>5, <1>7
  <2>2. QED
    BY <1>2, <1>4, <1>6, <1>7, <2>1 DEF HoldsMarked, Q, s
<1>8. CASE s \notin ToSet(stack)
  <2>1. pushed = Append(stack, s)
    BY <1>5, <1>8
  <2>2. /\ Append(stack, s) \in Seq(Sets(P)) /\ Len(Append(stack, s)) = Len(stack) + 1
        /\ DOMAIN Append(stack, s) = 1 .. Len(stack) + 1
        /\ \A i \in 1 .. Len(stack) : Append(stack, s)[i] = stack[i]
        /\ Append(stack, s)[Len(stack) + 1] = s
    BY <1>1, <1>2
  <2>3. \A i \in 1 .. Len(stack) : stack[i] # s
    BY <1>2, <1>8 DEF ToSet
  <2>4. NoneTwice(Append(stack, s))
    BY <1>2, <2>2, <2>3 DEF NoneTwice
  <2>5. ToSet(Append(stack, s)) = ToSet(stack) \cup {s}
    BY <1>2, <2>2 DEF ToSet
  <2>6. QED
    BY <1>4, <1>6, <2>1, <2>2, <2>4, <2>5 DEF HoldsMarked, Q, s
<1>9. QED
  BY <1>7, <1>8

(* Taking the top off.                                                      *)
LEMMA WithoutTop ==
  ASSUME NEW S, NEW stack \in Seq(S), stack # << >>
  PROVE  /\ Last(stack) \in S /\ Front(stack) \in Seq(S)
         /\ ToSet(stack) = ToSet(Front(stack)) \cup {Last(stack)}
         /\ NoneTwice(stack) => NoneTwice(Front(stack)) /\ Last(stack) \notin ToSet(Front(stack))
<1>1. PICK k \in Nat : k = Len(stack)
  OBVIOUS
<1>2. k > 0 /\ DOMAIN stack = 1 .. k /\ \A i \in 1 .. k : stack[i] \in S
  BY <1>1
<1>3. Last(stack) = stack[k] /\ k \in 1 .. k
  BY <1>1, <1>2 DEF Last
<1>4. /\ Front(stack) \in Seq(S) /\ Len(Front(stack)) = k - 1
      /\ \A i \in 1 .. k - 1 : Front(stack)[i] = stack[i]
  BY <1>1, <1>2 DEF Front
<1>5. DOMAIN Front(stack) = 1 .. k - 1
  BY <1>4
<1>6. ToSet(stack) = {stack[i] : i \in 1 .. k} /\ ToSet(Front(stack)) = {stack[i] : i \in 1 .. k - 1}
  BY <1>2, <1>4, <1>5 DEF ToSet
<1>7. \A i : i \in 1 .. k <=> i \in 1 .. k - 1 \/ i = k
  BY <1>2
<1>8. ToSet(stack) = ToSet(Front(stack)) \cup {Last(stack)}
  BY <1>3, <1>6, <1>7
<1>9. ASSUME NoneTwice(stack) PROVE NoneTwice(Front(stack)) /\ Last(stack) \notin ToSet(Front(stack))
  <2>1. \A i, j \in 1 .. k : stack[i] = stack[j] => i = j
    BY <1>1, <1>9 DEF NoneTwice
  <2>2. NoneTwice(Front(stack))
    BY <1>4, <1>7, <2>1 DEF NoneTwice
  <2>3. Last(stack) \notin ToSet(Front(stack))
    BY <1>3, <1>6, <1>7, <2>1
  <2>4. QED
    BY <2>2, <2>3
<1>10. QED
  BY <1>2, <1>3, <1>4, <1>8, <1>9

(* Splitting the set on top takes it off.                                   *)
LEMMA PoppedWhenSplit ==
  ASSUME NEW n \in Nat, NEW P, IsPartition(P, n), NEW stack, HoldsMarked(P, n, stack),
         stack # << >>
  PROVE  /\ Last(stack) \in Sets(P)
         /\ \E e \in Marked(P, n) : P.set_idx[e] = Last(stack)
         /\ IsPartition(Split(P, Last(stack)), n)
         /\ Marked(Split(P, Last(stack)), n) = {e \in Marked(P, n) : P.set_idx[e] # Last(stack)}
         /\ HoldsMarked(Split(P, Last(stack)), n, Front(stack))
         /\ \/ KeepsSets(P, Split(P, Last(stack)), Last(stack), n)
            \/ SplitsOff(P, Split(P, Last(stack)), Last(stack), n)
<1> DEFINE s == Last(stack)
           Q == Split(P, s)
<1>1. stack \in Seq(Sets(P)) /\ NoneTwice(stack)
  BY DEF HoldsMarked
<1>2. /\ s \in Sets(P) /\ Front(stack) \in Seq(Sets(P))
      /\ ToSet(stack) = ToSet(Front(stack)) \cup {s}
      /\ NoneTwice(Front(stack)) /\ s \notin ToSet(Front(stack))
  BY <1>1, WithoutTop
<1>3. \A r \in Sets(P) : r \in ToSet(stack) <=> \E x \in Marked(P, n) : P.set_idx[x] = r
  BY DEF HoldsMarked
<1>4. /\ IsPartition(Q, n) /\ Marked(Q, n) = {e \in Marked(P, n) : P.set_idx[e] # s}
      /\ (KeepsSets(P, Q, s, n) \/ SplitsOff(P, Q, s, n))
  BY <1>2, SplitKeeps, SplitOffMarked
<1> HIDE DEF Q, s
<1>5. \A e \in Marked(Q, n) : e \in Elements(n) /\ Q.set_idx[e] = P.set_idx[e]
  BY <1>4 DEF KeepsSets, SplitsOff, Marked
<1>6. \A r : r \in Sets(Q) => r \in Sets(P) \/ r = P.num_of_sets
  BY <1>4, Entries DEF KeepsSets, SplitsOff, Sets
<1>7. \A r \in Sets(P) : r \in Sets(Q)
  BY <1>4, Entries DEF KeepsSets, SplitsOff, Sets
<1>8. P.num_of_sets \notin Sets(P)
  BY Entries DEF Sets
<1>9. ToSet(Front(stack)) \subseteq Sets(P)
  BY <1>2 DEF ToSet
<1>10. \A r \in Sets(P) : r \in ToSet(Front(stack)) <=> \E e \in Marked(Q, n) : Q.set_idx[e] = r
  BY <1>2, <1>3, <1>4, <1>5
<1>11. \A e \in Marked(Q, n) : Q.set_idx[e] # P.num_of_sets
  BY <1>4, <1>5, <1>8, Entries
<1>12. \A r \in Sets(Q) : r \in ToSet(Front(stack)) <=> \E e \in Marked(Q, n) : Q.set_idx[e] = r
  BY <1>6, <1>8, <1>9, <1>10, <1>11
<1>13. Front(stack) \in Seq(Sets(Q))
  <2>1. Sets(P) \subseteq Sets(Q)
    BY <1>7
  <2>2. QED
    BY <1>2, <2>1
<1>14. HoldsMarked(Q, n, Front(stack))
  BY <1>2, <1>12, <1>13 DEF HoldsMarked
<1>15. \E e \in Marked(P, n) : P.set_idx[e] = s
  BY <1>2, <1>3
<1>16. QED
  BY <1>2, <1>4, <1>14, <1>15 DEF Q, s

------------------------------------------------------------------------------
(* The transitions by index.                                                *)

LEMMA TransitionsAreMoves ==
  ASSUME NEW A, IsTrimmedDfa(A)
  PROVE  /\ Cardinality(A.delta) \in Nat
         /\ DOMAIN Transitions(A) = Elements(Cardinality(A.delta))
         /\ \A t \in DOMAIN Transitions(A) : Transitions(A)[t] \in A.delta
         /\ \A m \in A.delta : \E t \in DOMAIN Transitions(A) : Transitions(A)[t] = m
<1> DEFINE D == A.delta
           Less == {w \in D \X D : TransitionBefore(w[1], w[2])}
           n == Cardinality(D)
<1>1. IsFiniteSet(D) /\ n \in Nat
  BY FS_CardinalityType DEF IsTrimmedDfa
<1>2. \A m \in D : /\ m = <<m[1], m[2], m[3]>>
                   /\ m[1] \in Nat /\ m[2] \in Nat /\ m[3] \in Nat
  <2>1. D \subseteq A.states \X Nat \X A.states /\ A.states \subseteq Nat
    BY DEF IsTrimmedDfa, IsAutomaton, Numbered
  <2> HIDE DEF D
  <2>2. D \subseteq Nat \X Nat \X Nat
    BY <2>1
  <2>3. QED
    BY <2>2
<1>3. \A m, k \in D : <<m, k>> \in Less <=> TransitionBefore(m, k)
  OBVIOUS
<1>4. IsOrderOn(D, Less)
  <2> HIDE DEF D, Less
  <2>1. \A m \in D : <<m, m>> \notin Less
    BY <1>2, <1>3 DEF TransitionBefore
  <2>2. \A m, k, l \in D : <<m, k>> \in Less /\ <<k, l>> \in Less => <<m, l>> \in Less
    BY <1>2, <1>3 DEF TransitionBefore
  <2>3. ASSUME NEW m \in D, NEW k \in D PROVE m = k \/ <<m, k>> \in Less \/ <<k, m>> \in Less
    <3>1. m[1] = k[1] /\ m[2] = k[2] /\ m[3] = k[3] => m = k
      BY <1>2
    <3>2. QED
      BY <1>2, <1>3, <3>1 DEF TransitionBefore
  <2>4. QED
    BY <2>1, <2>2, <2>3 DEF IsOrderOn
<1>5. \A m \in D : Cardinality({k \in D : TransitionBefore(k, m)}) = RankBy(D, Less, m)
  <2> TAKE m \in D
  <2>1. {k \in D : TransitionBefore(k, m)} = {k \in D : <<k, m>> \in Less}
    BY <1>3
  <2>2. QED
    BY <2>1 DEF RankBy
<1>6. Transitions(A) = [i \in 0 .. n - 1 |->
                          CHOOSE m \in D : Cardinality({k \in D : TransitionBefore(k, m)}) = i]
  BY DEF Transitions
<1> HIDE DEF D, Less
<1>7. /\ \A m \in D : RankBy(D, Less, m) \in 0 .. n - 1
      /\ \A m, k \in D : RankBy(D, Less, m) = RankBy(D, Less, k) => m = k
      /\ \A i \in 0 .. n - 1 : \E m \in D : RankBy(D, Less, m) = i
  BY <1>1, <1>4, Ranks
<1>8. \A i \in 0 .. n - 1 : Transitions(A)[i] \in D /\ RankBy(D, Less, Transitions(A)[i]) = i
  <2> TAKE i \in 0 .. n - 1
  <2>1. Transitions(A)[i] = CHOOSE m \in D : Cardinality({k \in D : TransitionBefore(k, m)}) = i
    BY <1>6
  <2>2. \E m \in D : Cardinality({k \in D : TransitionBefore(k, m)}) = i
    BY <1>5, <1>7
  <2>3. /\ Transitions(A)[i] \in D
        /\ Cardinality({k \in D : TransitionBefore(k, Transitions(A)[i])}) = i
    BY <2>1, <2>2
  <2>4. QED
    BY <2>3, <1>5
<1>9. DOMAIN Transitions(A) = 0 .. n - 1
  BY <1>6
<1>10. ASSUME NEW m \in D PROVE \E t \in DOMAIN Transitions(A) : Transitions(A)[t] = m
  <2>1. PICK i \in 0 .. n - 1 : i = RankBy(D, Less, m)
    BY <1>7
  <2>2. Transitions(A)[i] = m
    BY <2>1, <1>7, <1>8
  <2>3. QED
    BY <2>2, <1>9
<1>11. QED
  BY <1>1, <1>8, <1>9, <1>10 DEF D, Elements

LEMMA StatesAreCounted ==
  ASSUME NEW A, IsTrimmedDfa(A)
  PROVE  /\ Cardinality(A.states) \in Nat
         /\ A.states = Elements(Cardinality(A.states))
         /\ A.delta # {} => A.states # {} /\ A.final # {} /\ Cardinality(A.states) > 0
         /\ \A m \in A.delta : m[1] \in A.states /\ m[3] \in A.states
<1>1. A.states \subseteq Nat /\ (A.states # {} => \E last \in A.states : A.states = 0 .. last)
  BY DEF IsTrimmedDfa, Numbered
<1>2. A.delta \subseteq A.states \X Nat \X A.states
  BY DEF IsTrimmedDfa, IsAutomaton
<1>3. \A m \in A.delta : m[1] \in A.states /\ m[3] \in A.states
  BY <1>2
<1>4. A.delta # {} => A.states # {}
  BY <1>3
<1>5. A.states # {} => A.final # {}
  <2> SUFFICES ASSUME A.final = {} PROVE A.states = {}
    OBVIOUS
  <2>1. {} \in SUBSET A.states /\ A.final \subseteq {}
    OBVIOUS
  <2>2. \A S \in SUBSET A.states :
          A.final \subseteq S /\ (\A m \in A.delta : m[3] \in S => m[1] \in S) => S = A.states
    BY DEF IsTrimmedDfa
  <2>3. QED
    BY <2>1, <2>2
<1>6. CASE A.states = {}
  <2>1. Cardinality(A.states) = 0
    BY <1>6, FS_EmptySet
  <2>2. Elements(0) = {}
    BY DEF Elements
  <2>3. QED
    BY <1>3, <1>4, <1>6, <2>1, <2>2
<1>7. CASE A.states # {}
  <2>1. PICK last \in Nat : A.states = 0 .. last
    BY <1>1, <1>7
  <2>2. 0 \in Int /\ last \in Int
    BY <2>1
  <2>3. Cardinality(0 .. last) = last + 1
    BY <2>1, <2>2, FS_Interval
  <2>4. Cardinality(A.states) = last + 1 /\ Elements(last + 1) = 0 .. last
    BY <2>1, <2>3 DEF Elements
  <2>5. QED
    BY <1>3, <1>5, <1>7, <2>1, <2>4
<1>8. QED
  BY <1>6, <1>7

------------------------------------------------------------------------------
(* The invariant.                                                           *)

Size == Cardinality(dfa_trimmed.states)
Count == Cardinality(dfa_trimmed.delta)
Trans == Elements(Count)

TargetBlock(t) == brp.set_idx[transitions[t][3]]
SameSplitter(t, u) == trp.set_idx[t] = trp.set_idx[u]

(* A splitter is all transitions over one symbol into one block.            *)
Follows ==
  \A t, u \in Trans :
    SameSplitter(t, u) <=>
      transitions[t][2] = transitions[u][2] /\ TargetBlock(t) = TargetBlock(u)

(* The same but for one half of a block that has just been split: its       *)
(* transitions are still with those into the other half.                    *)
FollowsBut(half) ==
  \A t, u \in Trans :
    /\ SameSplitter(t, u) =>
         /\ transitions[t][2] = transitions[u][2]
         /\ TargetBlock(t) = TargetBlock(u) \/ TargetBlock(t) = half \/ TargetBlock(u) = half
    /\ transitions[t][2] = transitions[u][2] /\ TargetBlock(t) = TargetBlock(u)
         => SameSplitter(t, u)

(* The transitions into the part of a block that lies before the state, and *)
(* those into the state that are not left.                                  *)
Passed(t) ==
  /\ TargetBlock(t) = brp.set_idx[marking]
  /\ \/ brp.location[transitions[t][3]] < brp.location[marking]
     \/ transitions[t][3] = marking /\ t \notin incoming_left

(* What is marked leads into the half; in a splitter that has marks all     *)
(* that leads there is marked; one without marks is not to be split.        *)
HalfMarked(half) ==
  /\ \A t \in Marked(trp, Count) : TargetBlock(t) = half
  /\ \A t \in Marked(trp, Count) : \A u \in Trans :
       SameSplitter(t, u) /\ TargetBlock(u) = half => u \in Marked(trp, Count)
  /\ \A t, u \in Trans :
       SameSplitter(t, u) /\ TargetBlock(t) # TargetBlock(u) =>
         \E v \in Marked(trp, Count) : SameSplitter(t, v)

Phases == {"called", "finals", "fire", "blocks", "mark", "splitters", "done"}

PhaseInv ==
  /\ at \in Phases
  /\ at \in {"called", "finals", "fire", "blocks"} => Follows /\ Marked(trp, Count) = {}
  /\ at \in {"called", "finals"} => brp.num_of_sets = 1 /\ touched_blocks = << >>
  /\ at \in {"called", "finals"} => touched_splitters = << >>
  /\ at = "called" => Marked(brp, Size) = {}
  /\ at = "finals" => /\ finals_left \subseteq dfa_trimmed.final
                      /\ Marked(brp, Size) = dfa_trimmed.final \ finals_left
  /\ at = "fire" => firing \in Trans
  /\ at = "mark" => /\ marking \in dfa_trimmed.states
                    /\ incoming_left \subseteq incoming_trans_idxs(marking)
                    /\ FollowsBut(brp.set_idx[marking])
                    /\ \A t \in Trans : t \in Marked(trp, Count) <=> Passed(t)
  /\ at = "splitters" => \E half \in Sets(brp) : FollowsBut(half) /\ HalfMarked(half)

StacksInv ==
  /\ unready_splitters \in Seq(Sets(trp))
  /\ at # "finals" => HoldsMarked(brp, Size, touched_blocks)
  /\ HoldsMarked(trp, Count, touched_splitters)

PartsInv == IsPartition(brp, Size) /\ IsPartition(trp, Count)

HopcroftInv ==
  /\ IsTrimmedDfa(dfa_trimmed) /\ transitions = Transitions(dfa_trimmed)
  /\ dfa_trimmed.delta # {} => PartsInv /\ StacksInv /\ PhaseInv
  /\ dfa_trimmed.delta = {} => at \in {"called", "done"}

------------------------------------------------------------------------------
(* What the actions do with the partitions.                                 *)

LEMMA Basics ==
  ASSUME HopcroftInv, dfa_trimmed.delta # {}
  PROVE  /\ Size \in Nat /\ Size > 0 /\ dfa_trimmed.states = Elements(Size)
         /\ dfa_trimmed.final # {} /\ dfa_trimmed.final \subseteq dfa_trimmed.states
         /\ Count \in Nat /\ DOMAIN transitions = Trans
         /\ \A t \in Trans : /\ transitions[t] \in dfa_trimmed.delta
                             /\ transitions[t][1] \in Elements(Size)
                             /\ transitions[t][3] \in Elements(Size)
         /\ \A t \in Trans : t \in Nat
         /\ IsPartition(brp, Size) /\ IsPartition(trp, Count)
<1>1. IsTrimmedDfa(dfa_trimmed) /\ transitions = Transitions(dfa_trimmed)
  BY DEF HopcroftInv
<1>2. /\ Size \in Nat /\ Size > 0 /\ dfa_trimmed.states = Elements(Size)
      /\ dfa_trimmed.final # {}
      /\ \A m \in dfa_trimmed.delta : m[1] \in dfa_trimmed.states /\ m[3] \in dfa_trimmed.states
  BY <1>1, StatesAreCounted DEF Size
<1>3. /\ Count \in Nat /\ DOMAIN transitions = Trans
      /\ \A t \in Trans : transitions[t] \in dfa_trimmed.delta
  BY <1>1, TransitionsAreMoves DEF Count, Trans
<1>4. dfa_trimmed.final \subseteq dfa_trimmed.states
  BY <1>1 DEF IsTrimmedDfa, IsAutomaton
<1>5. \A t \in Trans : t \in Nat
  BY <1>3 DEF Trans, Elements
<1>6. IsPartition(brp, Size) /\ IsPartition(trp, Count)
  BY DEF HopcroftInv, PartsInv
<1>7. QED
  BY <1>2, <1>3, <1>4, <1>5, <1>6

LEMMA SameInput ==
  ASSUME UNCHANGED input
  PROVE  /\ Size' = Size /\ Count' = Count /\ Trans' = Trans
         /\ dfa_trimmed' = dfa_trimmed /\ transitions' = transitions
         /\ IsTrimmedDfa(dfa_trimmed)' <=> IsTrimmedDfa(dfa_trimmed)
<1>1. dfa_trimmed' = dfa_trimmed /\ transitions' = transitions
  BY DEF input
<1>2. QED
  BY <1>1 DEF Size, Count, Trans, IsTrimmedDfa

LEMMA InvLater ==
  ASSUME HopcroftInv, dfa_trimmed.delta # {}, UNCHANGED input,
         PartsInv', StacksInv', PhaseInv'
  PROVE  HopcroftInv'
BY SameInput DEF HopcroftInv

LEMMA FirstOfSet ==
  ASSUME NEW n \in Nat, NEW P, IsPartition(P, n), NEW s \in Sets(P)
  PROVE  /\ get_first(P, s) \in Elements(n) /\ P.set_idx[get_first(P, s)] = s
         /\ \A e \in Elements(n) : P.set_idx[e] = s => ~(P.location[e] < P.location[get_first(P, s)])
<1>1. s \in Elements(n) /\ P.first[s] \in 0 .. n /\ P.end[s] \in 0 .. n
  BY Entries
<1>2. P.first[s] \in Int /\ P.first[s] <= P.first[s] /\ P.first[s] < P.end[s]
  BY <1>1 DEF IsPartition, HasBounds
<1>3. /\ P.elems[P.first[s]] \in Elements(n) /\ P.set_idx[P.elems[P.first[s]]] = s
      /\ P.location[P.elems[P.first[s]]] = P.first[s]
  BY <1>2, PlaceInSet
<1>4. ASSUME NEW e \in Elements(n), P.set_idx[e] = s PROVE ~(P.location[e] < P.first[s])
  <2>1. P.first[s] <= P.location[e]
    BY <1>4 DEF IsPartition, LiesBetween
  <2>2. P.location[e] \in Int
    BY Entries DEF Elements
  <2>3. QED
    BY <1>2, <2>1, <2>2
<1>5. QED
  BY <1>3, <1>4 DEF get_first

LEMMA NextOfSet ==
  ASSUME NEW n \in Nat, NEW P, IsPartition(P, n), NEW e \in Elements(n)
  PROVE  /\ get_next(P, e) # no_more_elements =>
              /\ get_next(P, e) \in Elements(n)
              /\ P.set_idx[get_next(P, e)] = P.set_idx[e]
              /\ P.location[get_next(P, e)] = P.location[e] + 1
         /\ get_next(P, e) = no_more_elements =>
              \A x \in Elements(n) :
                P.set_idx[x] = P.set_idx[e] => P.location[x] < P.location[e] \/ x = e
<1> DEFINE s == P.set_idx[e]
           l == P.location[e]
<1>1. s \in Sets(P) /\ s \in Elements(n) /\ l \in Int
  BY Entries DEF Elements
<1>2. P.first[s] <= l /\ l < P.end[s] /\ P.first[s] \in Int /\ P.end[s] \in Int
  BY <1>1, Entries DEF IsPartition, LiesBetween
<1>3. CASE ~(l + 1 >= P.end[s])
  <2>1. P.elems[l + 1] \in Elements(n) /\ P.set_idx[P.elems[l + 1]] = s /\ P.location[P.elems[l + 1]] = l + 1
    <3>1. l + 1 \in Int /\ P.first[s] <= l + 1 /\ l + 1 < P.end[s]
      BY <1>1, <1>2, <1>3
    <3> HIDE DEF l, s
    <3>2. QED
      BY <1>1, <3>1, PlaceInSet
  <2>2. get_next(P, e) = P.elems[l + 1]
    BY <1>3 DEF get_next
  <2>3. P.elems[l + 1] # no_more_elements
    BY <2>1 DEF Elements, no_more_elements
  <2>4. QED
    BY <2>1, <2>2, <2>3
<1>4. CASE l + 1 >= P.end[s]
  <2>1. get_next(P, e) = no_more_elements
    BY <1>4 DEF get_next
  <2>2. ASSUME NEW x \in Elements(n), P.set_idx[x] = s PROVE P.location[x] < l \/ x = e
    <3>1. P.location[x] \in Int /\ P.elems[P.location[x]] = x /\ P.elems[l] = e
      BY Entries DEF IsPartition, IsPermutation, Elements
    <3>2. P.location[x] < P.end[s]
      BY <2>2, <1>1 DEF IsPartition, LiesBetween
    <3>3. P.location[x] < l \/ P.location[x] = l
      BY <1>1, <1>2, <1>4, <3>1, <3>2
    <3>4. QED
      BY <3>1, <3>3
  <2>3. QED
    BY <2>1, <2>2
<1>5. QED
  BY <1>3, <1>4

(* What lies before the next element lies before the element or is it.      *)
LEMMA BeforeNext ==
  ASSUME NEW n \in Nat, NEW P, IsPartition(P, n), NEW e \in Elements(n), NEW d \in Elements(n),
         P.location[d] = P.location[e] + 1
  PROVE  \A x \in Elements(n) :
           P.location[x] < P.location[d] <=> P.location[x] < P.location[e] \/ x = e
<1> TAKE x \in Elements(n)
<1>1. \A y \in Elements(n) : P.location[y] \in Elements(n) /\ P.elems[P.location[y]] = y
  BY Entries DEF IsPartition, IsPermutation
<1>2. PICK i, j \in Int : i = P.location[x] /\ j = P.location[e]
  BY <1>1 DEF Elements
<1>3. i = j <=> x = e
  BY <1>1, <1>2
<1>4. i < j + 1 <=> i < j \/ i = j
  OBVIOUS
<1>5. QED
  BY <1>2, <1>3, <1>4

(* The automaton at the call.                                               *)
LEMMA InitHopcroftInv == Init => HopcroftInv
<1> SUFFICES ASSUME Init PROVE HopcroftInv
  OBVIOUS
<1>1. IsTrimmedDfa(dfa_trimmed) /\ transitions = Transitions(dfa_trimmed)
  BY DfasAssumption DEF Init
<1>2. at = "called" /\ touched_blocks = << >> /\ touched_splitters = << >> /\ unready_splitters = << >>
  BY DEF Init
<1>3. ASSUME dfa_trimmed.delta # {} PROVE PartsInv /\ StacksInv /\ PhaseInv
  <2>1. /\ Size \in Nat /\ Size > 0
        /\ \A m \in dfa_trimmed.delta : m[3] \in Elements(Size)
    BY <1>1, <1>3, StatesAreCounted DEF Size
  <2>2. /\ Count \in Nat /\ DOMAIN transitions = Trans
        /\ \A t \in Trans : transitions[t] \in dfa_trimmed.delta
    BY <1>1, TransitionsAreMoves DEF Count, Trans
  <2>3. brp = OfStates(Size) /\ trp = OfTransitions(transitions)
    BY DEF Init, Size
  <2>4. /\ IsPartition(brp, Size) /\ Marked(brp, Size) = {} /\ brp.num_of_sets = 1
        /\ \A e \in Elements(Size) : brp.set_idx[e] = 0
    BY <2>1, <2>3, StatesTogether
  <2>5. /\ IsPartition(trp, Count) /\ Marked(trp, Count) = {}
        /\ \A t, u \in Trans : trp.set_idx[t] = trp.set_idx[u] <=> transitions[t][2] = transitions[u][2]
    BY <2>2, <2>3, TransitionsBySymbol DEF Trans
  <2>6. \A t \in Trans : TargetBlock(t) = 0
    BY <2>1, <2>2, <2>4 DEF TargetBlock
  <2>7. Follows
    BY <2>5, <2>6 DEF Follows, SameSplitter
  <2>8. HoldsMarked(brp, Size, touched_blocks) /\ HoldsMarked(trp, Count, touched_splitters)
    BY <1>2, <2>1, <2>2, <2>4, <2>5, NothingHeld
  <2>9. unready_splitters \in Seq(Sets(trp))
    BY <1>2
  <2>10. QED
    BY <1>2, <2>4, <2>5, <2>7, <2>8, <2>9 DEF PartsInv, StacksInv, PhaseInv, Phases
<1>4. QED
  BY <1>1, <1>2, <1>3 DEF HopcroftInv

LEMMA StartInv ==
  ASSUME HopcroftInv, dfa_trimmed.delta # {}, Start
  PROVE  HopcroftInv'
<1>1. /\ at = "called" /\ at' = "finals" /\ UNCHANGED input /\ UNCHANGED <<brp, trp>>
      /\ UNCHANGED <<touched_blocks, touched_splitters>>
      /\ unready_splitters' = [i \in 1 .. trp.num_of_sets |-> i - 1]
      /\ finals_left' = dfa_trimmed.final
  BY DEF Start
<1>2. PartsInv /\ StacksInv /\ PhaseInv
  BY DEF HopcroftInv
<1>3. Size' = Size /\ Count' = Count /\ Trans' = Trans /\ transitions' = transitions
      /\ dfa_trimmed' = dfa_trimmed
  BY <1>1, SameInput
<1>4. PartsInv'
  BY <1>1, <1>2, <1>3 DEF PartsInv
<1>5. unready_splitters' \in Seq(Sets(trp))
  <2>1. trp.num_of_sets \in Nat
    BY Basics, Entries
  <2>2. PICK k \in Nat : k = trp.num_of_sets
    BY <2>1
  <2>3. [i \in 1 .. k |-> i - 1] \in [1 .. k -> 0 .. k - 1]
    OBVIOUS
  <2>4. [i \in 1 .. k |-> i - 1] \in Seq(0 .. k - 1)
    BY <2>2, <2>3
  <2>5. QED
    BY <1>1, <2>2, <2>4 DEF Sets
<1>6. StacksInv'
  <2>1. HoldsMarked(trp, Count, touched_splitters)'
    BY <1>1, <1>2, <1>3 DEF StacksInv
  <2>2. unready_splitters' \in Seq(Sets(trp'))
    BY <1>1, <1>5
  <2>3. QED
    BY <1>1, <2>1, <2>2 DEF StacksInv
<1>7. Follows' /\ Marked(trp, Count)' = {} /\ Marked(brp, Size)' = {}
  BY <1>1, <1>2, <1>3 DEF PhaseInv, Follows, SameSplitter, TargetBlock
<1>8. PhaseInv'
  BY <1>1, <1>2, <1>3, <1>7 DEF PhaseInv, Phases
<1>9. QED
  BY <1>1, <1>4, <1>6, <1>8, InvLater

LEMMA MarkFinalInv ==
  ASSUME HopcroftInv, dfa_trimmed.delta # {}, MarkFinal
  PROVE  HopcroftInv'
<1>1. /\ at = "finals" /\ UNCHANGED input
      /\ UNCHANGED <<trp, unready_splitters, touched_splitters>>
  BY DEF MarkFinal
<1>2. PartsInv /\ StacksInv /\ PhaseInv
  BY DEF HopcroftInv
<1>3. Size' = Size /\ Count' = Count /\ Trans' = Trans /\ transitions' = transitions
      /\ dfa_trimmed' = dfa_trimmed
  BY <1>1, SameInput
<1>4. /\ brp.num_of_sets = 1 /\ touched_blocks = << >> /\ touched_splitters = << >>
      /\ finals_left \subseteq dfa_trimmed.final
      /\ Marked(brp, Size) = dfa_trimmed.final \ finals_left
      /\ Follows /\ Marked(trp, Count) = {}
  BY <1>1, <1>2 DEF PhaseInv
<1>5. Marked(trp, Count)' = {} /\ HoldsMarked(trp, Count, touched_splitters)'
      /\ unready_splitters' \in Seq(Sets(trp'))
  BY <1>1, <1>2, <1>3, <1>4 DEF StacksInv
<1>6. CASE finals_left = {}
  <2>1. at' = "blocks" /\ touched_blocks' = <<0>> /\ brp' = brp
    BY <1>6 DEF MarkFinal
  <2>2. PartsInv'
    BY <1>1, <1>2, <1>3, <2>1 DEF PartsInv
  <2>3. HoldsMarked(brp, Size, <<0>>)
    <3>1. Sets(brp) = {0}
      BY <1>4 DEF Sets
    <3>2. Marked(brp, Size) # {}
      BY <1>4, <1>6, Basics
    <3>3. \A e \in Marked(brp, Size) : brp.set_idx[e] = 0
      BY <3>1, Basics, Entries DEF Marked
    <3>4. <<0>> \in Seq({0}) /\ NoneTwice(<<0>>) /\ ToSet(<<0>>) = {0}
      BY DEF NoneTwice, ToSet
    <3>5. QED
      BY <3>1, <3>2, <3>3, <3>4 DEF HoldsMarked
  <2>4. StacksInv'
    BY <1>3, <1>5, <2>1, <2>3 DEF StacksInv
  <2>5. Follows'
    BY <1>1, <1>3, <1>4, <2>1 DEF Follows, SameSplitter, TargetBlock
  <2>6. PhaseInv'
    BY <1>5, <2>1, <2>5 DEF PhaseInv, Phases
  <2>7. QED
    BY <1>1, <2>2, <2>4, <2>6, InvLater
<1>7. CASE finals_left # {}
  <2>1. PICK q \in finals_left : brp' = Mark(brp, q) /\ finals_left' = finals_left \ {q}
    BY <1>7 DEF MarkFinal
  <2>2. at' = "finals" /\ touched_blocks' = << >>
    BY <1>1, <1>4, <1>7 DEF MarkFinal
  <2>3. q \in Elements(Size)
    BY <1>4, Basics
  <2>4. /\ IsPartition(brp', Size) /\ brp'.num_of_sets = 1 /\ brp'.set_idx = brp.set_idx
        /\ Marked(brp', Size) = Marked(brp, Size) \cup {q}
    BY <1>4, <2>1, <2>3, Basics, MarkMarks
  <2>5. PartsInv'
    BY <1>1, <1>2, <1>3, <2>4 DEF PartsInv
  <2>6. StacksInv'
    BY <1>5, <2>2 DEF StacksInv
  <2>7. Follows'
    BY <1>1, <1>3, <1>4, <2>4 DEF Follows, SameSplitter, TargetBlock
  <2>8. Marked(brp, Size)' = dfa_trimmed'.final \ finals_left'
    BY <1>3, <1>4, <2>1, <2>4
  <2>9. touched_splitters' = << >> /\ finals_left' \subseteq dfa_trimmed'.final
    BY <1>1, <1>3, <1>4, <2>1
  <2>10. PhaseInv'
    BY <1>5, <2>2, <2>4, <2>7, <2>8, <2>9 DEF PhaseInv, Phases
  <2>11. QED
    BY <1>1, <2>5, <2>6, <2>10, InvLater
<1>8. QED
  BY <1>6, <1>7

LEMMA TakeSplitterInv ==
  ASSUME HopcroftInv, dfa_trimmed.delta # {}, TakeSplitter
  PROVE  HopcroftInv'
<1>1. /\ at = "blocks" /\ at' = "fire" /\ UNCHANGED input
      /\ UNCHANGED <<brp, trp, touched_blocks, touched_splitters>>
      /\ unready_splitters # << >> /\ unready_splitters' = Front(unready_splitters)
      /\ firing' = get_first(trp, Last(unready_splitters))
  BY DEF TakeSplitter
<1>2. PartsInv /\ StacksInv /\ PhaseInv
  BY DEF HopcroftInv
<1>3. Size' = Size /\ Count' = Count /\ Trans' = Trans /\ transitions' = transitions
      /\ dfa_trimmed' = dfa_trimmed
  BY <1>1, SameInput
<1>4. Last(unready_splitters) \in Sets(trp) /\ unready_splitters' \in Seq(Sets(trp))
  BY <1>1, <1>2, WithoutTop DEF StacksInv
<1>5. firing' \in Trans
  BY <1>1, <1>4, Basics, FirstOfSet DEF Trans
<1>6. PartsInv'
  BY <1>1, <1>2, <1>3 DEF PartsInv
<1>7. StacksInv'
  BY <1>1, <1>2, <1>3, <1>4 DEF StacksInv
<1>8. Follows' /\ Marked(trp, Count)' = {}
  BY <1>1, <1>2, <1>3 DEF PhaseInv, Follows, SameSplitter, TargetBlock
<1>9. PhaseInv'
  BY <1>1, <1>3, <1>5, <1>8 DEF PhaseInv, Phases
<1>10. QED
  BY <1>1, <1>6, <1>7, <1>9, InvLater

LEMMA FireBackInv ==
  ASSUME HopcroftInv, dfa_trimmed.delta # {}, FireBack
  PROVE  HopcroftInv'
<1>1. /\ at = "fire" /\ UNCHANGED input
      /\ UNCHANGED <<trp, unready_splitters, touched_splitters>>
      /\ firing' = get_next(trp, firing)
      /\ at' = IF firing' = no_more_elements THEN "blocks" ELSE at
  BY DEF FireBack
<1> DEFINE q == transitions[firing][1]
           b == brp.set_idx[q]
<1>2. /\ touched_blocks' = IF has_no_marks(brp, b) THEN Append(touched_blocks, b) ELSE touched_blocks
      /\ brp' = Mark(brp, q)
  BY DEF FireBack
<1>3. PartsInv /\ StacksInv /\ PhaseInv
  BY DEF HopcroftInv
<1>4. Size' = Size /\ Count' = Count /\ Trans' = Trans /\ transitions' = transitions
      /\ dfa_trimmed' = dfa_trimmed
  BY <1>1, SameInput
<1>5. firing \in Trans /\ Follows /\ Marked(trp, Count) = {} /\ HoldsMarked(brp, Size, touched_blocks)
  BY <1>1, <1>3 DEF PhaseInv, StacksInv
<1>6. q \in Elements(Size)
  BY <1>5, Basics
<1> HIDE DEF q
<1>7. IsPartition(brp', Size) /\ brp'.set_idx = brp.set_idx
  BY <1>2, <1>6, Basics, MarkMarks
<1>8. HoldsMarked(brp', Size, touched_blocks')
  BY <1>2, <1>5, <1>6, Basics, PushedWhenMarked
<1>9. firing' # no_more_elements => firing' \in Trans
  BY <1>1, <1>5, Basics, NextOfSet DEF Trans
<1>10. PartsInv'
  BY <1>1, <1>3, <1>4, <1>7 DEF PartsInv
<1>11. StacksInv'
  BY <1>1, <1>3, <1>4, <1>8 DEF StacksInv
<1>12. Follows' /\ Marked(trp, Count)' = {}
  BY <1>1, <1>4, <1>5, <1>7 DEF Follows, SameSplitter, TargetBlock
<1>13. PhaseInv'
  BY <1>1, <1>4, <1>9, <1>12 DEF PhaseInv, Phases
<1>14. QED
  BY <1>1, <1>10, <1>11, <1>13, InvLater

(* A block is split: from now on the splitters lag behind by one half.      *)
LEMMA SplitBlockInv ==
  ASSUME HopcroftInv, dfa_trimmed.delta # {}, SplitBlock
  PROVE  HopcroftInv'
<1> DEFINE b == Last(touched_blocks)
           new == brp.num_of_sets
<1>1. /\ at = "blocks" /\ touched_blocks # << >> /\ UNCHANGED input
      /\ UNCHANGED <<trp, unready_splitters, touched_splitters>>
      /\ touched_blocks' = Front(touched_blocks) /\ brp' = Split(brp, b)
  BY DEF SplitBlock
<1>2. PartsInv /\ StacksInv /\ PhaseInv
  BY DEF HopcroftInv
<1>3. Size' = Size /\ Count' = Count /\ Trans' = Trans /\ transitions' = transitions
      /\ dfa_trimmed' = dfa_trimmed
  BY <1>1, SameInput
<1>4. Follows /\ Marked(trp, Count) = {} /\ HoldsMarked(brp, Size, touched_blocks)
  BY <1>1, <1>2 DEF PhaseInv, StacksInv
<1>5. /\ b \in Sets(brp) /\ IsPartition(brp', Size) /\ HoldsMarked(brp', Size, touched_blocks')
      /\ (KeepsSets(brp, brp', b, Size) \/ SplitsOff(brp, brp', b, Size))
  BY <1>1, <1>4, Basics, PoppedWhenSplit
<1>6. new \in Nat /\ new \notin Sets(brp) /\ \A e \in Elements(Size) : brp.set_idx[e] \in Sets(brp)
  <2>1. new \in Nat
    BY Basics, Entries
  <2>2. QED
    BY <2>1, Basics, Entries DEF Sets
<1>7. PartsInv'
  BY <1>1, <1>2, <1>3, <1>5 DEF PartsInv
<1>8. StacksInv'
  BY <1>1, <1>2, <1>3, <1>5 DEF StacksInv
<1>9. Marked(trp, Count)' = {}
  BY <1>1, <1>3, <1>4
<1>10. CASE KeepsSets(brp, brp', b, Size)
  <2>1. brp'.num_of_sets = new /\ brp'.set_idx = brp.set_idx
    BY <1>10 DEF KeepsSets
  <2>2. at' = "blocks"
    BY <1>1, <2>1 DEF SplitBlock
  <2>3. Follows'
    BY <1>1, <1>3, <1>4, <2>1 DEF Follows, SameSplitter, TargetBlock
  <2>4. PhaseInv'
    BY <1>9, <2>2, <2>3 DEF PhaseInv, Phases
  <2>5. QED
    BY <1>1, <1>7, <1>8, <2>4, InvLater
<1>11. CASE SplitsOff(brp, brp', b, Size)
  <2>1. /\ brp'.num_of_sets = new + 1
        /\ \A e \in Elements(Size) :
             brp'.set_idx[e] = IF brp.set_idx[e] = b /\ IsMarked(brp, e) THEN new ELSE brp.set_idx[e]
    BY <1>11 DEF SplitsOff
  <2>2. PICK half \in {b, new} :
          /\ marking' = get_first(brp', half)
          /\ incoming_left' = incoming_trans_idxs(marking')
          /\ at' = "mark"
    <3>1. brp'.num_of_sets # new
      BY <1>6, <2>1
    <3> HIDE DEF b, new
    <3>2. QED
      BY <3>1 DEF SplitBlock, b, new
  <2>3. half \in Sets(brp')
    BY <1>5, <1>6, <2>1 DEF Sets
  <2>4. /\ marking' \in Elements(Size) /\ brp'.set_idx[marking'] = half
        /\ \A e \in Elements(Size) :
             brp'.set_idx[e] = half => ~(brp'.location[e] < brp'.location[marking'])
    BY <1>5, <2>2, <2>3, Basics, FirstOfSet
  <2>5. \A t \in Trans : transitions[t][3] \in Elements(Size)
    BY Basics
  <2> HIDE DEF b, new
  <2>6. \A t \in Trans :
          /\ TargetBlock(t) \in Sets(brp)
          /\ TargetBlock(t)' = TargetBlock(t) \/ (TargetBlock(t) = b /\ TargetBlock(t)' = new)
    BY <1>3, <1>6, <2>1, <2>5 DEF TargetBlock
  <2>7. FollowsBut(brp.set_idx[marking])'
    <3> SUFFICES ASSUME NEW t \in Trans, NEW u \in Trans
                 PROVE  /\ SameSplitter(t, u)' =>
                            /\ transitions[t][2] = transitions[u][2]
                            /\ \/ TargetBlock(t)' = TargetBlock(u)'
                               \/ TargetBlock(t)' = half \/ TargetBlock(u)' = half
                        /\ transitions[t][2] = transitions[u][2] /\ TargetBlock(t)' = TargetBlock(u)'
                            => SameSplitter(t, u)'
      BY <1>3, <2>4 DEF FollowsBut
    <3>1. SameSplitter(t, u)' <=> SameSplitter(t, u)
      BY <1>1 DEF SameSplitter
    <3>2. SameSplitter(t, u) <=>
            transitions[t][2] = transitions[u][2] /\ TargetBlock(t) = TargetBlock(u)
      BY <1>4 DEF Follows
    <3>3. QED
      BY <1>6, <2>2, <2>6, <3>1, <3>2
  <2>8. ASSUME NEW t \in Trans PROVE ~Passed(t)'
    <3>1. transitions'[t][3] \in Elements(Size)
      BY <1>3, <2>5
    <3>2. transitions'[t][3] = marking' => t \in incoming_left'
      BY <1>3, <2>2, Basics DEF incoming_trans_idxs
    <3>3. Passed(t)' => /\ brp'.set_idx[transitions'[t][3]] = brp'.set_idx[marking']
                        /\ \/ brp'.location[transitions'[t][3]] < brp'.location[marking']
                           \/ transitions'[t][3] = marking' /\ t \notin incoming_left'
      BY DEF Passed, TargetBlock
    <3>4. QED
      BY <2>4, <3>1, <3>2, <3>3
  <2>9. marking' \in dfa_trimmed'.states /\ incoming_left' \subseteq incoming_trans_idxs(marking)'
    <3>1. marking' \in dfa_trimmed'.states
      BY <1>3, <2>4, Basics
    <3>2. incoming_left' = {t \in DOMAIN transitions : transitions[t][3] = marking'}
      BY <2>2 DEF incoming_trans_idxs
    <3>3. incoming_trans_idxs(marking)' = {t \in DOMAIN transitions' : transitions'[t][3] = marking'}
      BY DEF incoming_trans_idxs
    <3>4. QED
      BY <1>3, <3>1, <3>2, <3>3
  <2>10. \A t \in Trans' : t \in Marked(trp, Count)' <=> Passed(t)'
    BY <1>3, <1>9, <2>8
  <2>11. PhaseInv'
    BY <2>2, <2>7, <2>9, <2>10 DEF PhaseInv, Phases
  <2>12. QED
    BY <1>1, <1>7, <1>8, <2>11, InvLater
<1>12. QED
  BY <1>5, <1>10, <1>11

LEMMA MarkIncomingInv ==
  ASSUME HopcroftInv, dfa_trimmed.delta # {}, MarkIncoming
  PROVE  HopcroftInv'
<1> DEFINE t == LowestOf(incoming_left)
           s == trp.set_idx[t]
<1>1. /\ at = "mark" /\ at' = "mark" /\ incoming_left # {} /\ UNCHANGED input
      /\ UNCHANGED <<brp, unready_splitters, touched_blocks, marking>>
      /\ touched_splitters' = IF has_no_marks(trp, s) THEN Append(touched_splitters, s)
                                                      ELSE touched_splitters
      /\ trp' = Mark(trp, t) /\ incoming_left' = incoming_left \ {t}
  BY DEF MarkIncoming
<1>2. PartsInv /\ StacksInv /\ PhaseInv
  BY DEF HopcroftInv
<1>3. Size' = Size /\ Count' = Count /\ Trans' = Trans /\ transitions' = transitions
      /\ dfa_trimmed' = dfa_trimmed
  BY <1>1, SameInput
<1>4. /\ marking \in dfa_trimmed.states /\ incoming_left \subseteq incoming_trans_idxs(marking)
      /\ FollowsBut(brp.set_idx[marking])
      /\ \A u \in Trans : u \in Marked(trp, Count) <=> Passed(u)
  BY <1>1, <1>2 DEF PhaseInv
<1>5. t \in incoming_left
  <2>1. incoming_left \in SUBSET Nat
    BY <1>4, Basics DEF incoming_trans_idxs
  <2>2. \E x \in incoming_left : \A y \in incoming_left : x <= y
    BY <1>1, <2>1, LeastElement
  <2>3. QED
    BY <2>2 DEF LowestOf
<1>6. t \in Trans /\ transitions[t][3] = marking
  BY <1>4, <1>5, Basics DEF incoming_trans_idxs
<1> HIDE DEF t
<1>7. /\ IsPartition(trp', Count) /\ trp'.set_idx = trp.set_idx /\ Sets(trp') = Sets(trp)
      /\ Marked(trp', Count) = Marked(trp, Count) \cup {t}
  BY <1>1, <1>6, Basics, MarkMarks DEF Trans, Sets
<1>8. HoldsMarked(trp', Count, touched_splitters')
  BY <1>1, <1>2, <1>6, Basics, PushedWhenMarked DEF StacksInv, Trans
<1>9. PartsInv'
  BY <1>1, <1>2, <1>3, <1>7 DEF PartsInv
<1>10. StacksInv'
  BY <1>1, <1>2, <1>3, <1>7, <1>8 DEF StacksInv
<1>11. FollowsBut(brp.set_idx[marking])'
  BY <1>1, <1>3, <1>4, <1>7 DEF FollowsBut, SameSplitter, TargetBlock
<1>12. ASSUME NEW u \in Trans PROVE u \in Marked(trp, Count)' <=> Passed(u)'
  <2>1. u \in Marked(trp, Count)' <=> Passed(u) \/ u = t
    BY <1>3, <1>4, <1>7
  <2>2. Passed(u)' <=> /\ TargetBlock(u) = brp.set_idx[marking]
                       /\ \/ brp.location[transitions[u][3]] < brp.location[marking]
                          \/ transitions[u][3] = marking /\ (u \notin incoming_left \/ u = t)
    BY <1>1, <1>3 DEF Passed, TargetBlock
  <2>3. u = t => TargetBlock(u) = brp.set_idx[marking] /\ transitions[u][3] = marking
    BY <1>6 DEF TargetBlock
  <2>4. QED
    BY <2>1, <2>2, <2>3 DEF Passed
<1>13. marking' \in dfa_trimmed'.states /\ incoming_left' \subseteq incoming_trans_idxs(marking)'
  BY <1>1, <1>3, <1>4 DEF incoming_trans_idxs
<1>14. PhaseInv'
  BY <1>1, <1>3, <1>11, <1>12, <1>13 DEF PhaseInv, Phases
<1>15. QED
  BY <1>1, <1>9, <1>10, <1>14, InvLater

LEMMA NextStateInv ==
  ASSUME HopcroftInv, dfa_trimmed.delta # {}, NextState
  PROVE  HopcroftInv'
<1>1. /\ at = "mark" /\ incoming_left = {} /\ UNCHANGED input
      /\ UNCHANGED <<brp, trp, unready_splitters, touched_blocks, touched_splitters>>
      /\ marking' = get_next(brp, marking)
  BY DEF NextState
<1>2. PartsInv /\ StacksInv /\ PhaseInv
  BY DEF HopcroftInv
<1>3. Size' = Size /\ Count' = Count /\ Trans' = Trans /\ transitions' = transitions
      /\ dfa_trimmed' = dfa_trimmed
  BY <1>1, SameInput
<1> DEFINE half == brp.set_idx[marking]
<1>4. /\ marking \in Elements(Size) /\ FollowsBut(half)
      /\ \A u \in Trans : u \in Marked(trp, Count) <=> Passed(u)
  BY <1>1, <1>2, Basics DEF PhaseInv
<1>5. \A u \in Trans :
        u \in Marked(trp, Count) <=>
          /\ TargetBlock(u) = half
          /\ \/ brp.location[transitions[u][3]] < brp.location[marking]
             \/ transitions[u][3] = marking
  BY <1>1, <1>4 DEF Passed
<1>6. PartsInv' /\ StacksInv'
  <2>1. at' # "finals" => HoldsMarked(brp, Size, touched_blocks)'
    BY <1>1, <1>2, <1>3 DEF StacksInv
  <2>2. QED
    BY <1>1, <1>2, <1>3, <2>1 DEF PartsInv, StacksInv
<1>7. \A u \in Trans : transitions[u][3] \in Elements(Size)
  BY Basics
<1>8. CASE marking' = no_more_elements
  <2>1. at' = "splitters"
    BY <1>8 DEF NextState
  <2>2. \A x \in Elements(Size) :
          brp.set_idx[x] = half => brp.location[x] < brp.location[marking] \/ x = marking
    BY <1>1, <1>4, <1>8, Basics, NextOfSet
  <2> HIDE DEF half
  <2>3. \A u \in Trans : u \in Marked(trp, Count) <=> TargetBlock(u) = half
    BY <1>5, <1>7, <2>2 DEF TargetBlock
  <2>4. \A u \in Marked(trp, Count) : u \in Trans
    BY DEF Marked, Trans
  <2>5. HalfMarked(half)
    <3>1. \A u \in Marked(trp, Count) : TargetBlock(u) = half
      BY <2>3, <2>4
    <3>2. \A x, u \in Trans :
            SameSplitter(x, u) /\ TargetBlock(x) # TargetBlock(u) =>
              \E v \in Marked(trp, Count) : SameSplitter(x, v)
      <4> TAKE x, u \in Trans
      <4> HAVE SameSplitter(x, u) /\ TargetBlock(x) # TargetBlock(u)
      <4>1. TargetBlock(x) = half \/ TargetBlock(u) = half
        BY <1>4 DEF FollowsBut
      <4>2. SameSplitter(x, x)
        BY DEF SameSplitter
      <4>3. QED
        BY <2>3, <4>1, <4>2
    <3>3. QED
      BY <2>3, <3>1, <3>2 DEF HalfMarked
  <2>6. half \in Sets(brp)
    BY <1>4, Basics, Entries DEF half
  <2>7. \E h \in Sets(brp)' : FollowsBut(h)' /\ HalfMarked(h)'
    <3>1. PICK h \in Sets(brp) : h = half
      BY <2>6
    <3>2. FollowsBut(h) /\ HalfMarked(h)
      BY <1>4, <2>5, <3>1
    <3>3. FollowsBut(h)'
      BY <1>1, <1>3, <3>2 DEF FollowsBut, SameSplitter, TargetBlock
    <3>4. HalfMarked(h)'
      BY <1>1, <1>3, <3>2 DEF HalfMarked, SameSplitter, TargetBlock
    <3>5. QED
      BY <1>1, <3>3, <3>4
  <2>8. PhaseInv'
    BY <2>1, <2>7 DEF PhaseInv, Phases
  <2>9. QED
    BY <1>1, <1>6, <2>8, InvLater
<1>9. CASE marking' # no_more_elements
  <2>1. /\ at' = "mark" /\ incoming_left' = incoming_trans_idxs(marking')
        /\ marking' \in Elements(Size) /\ brp.set_idx[marking'] = half
        /\ brp.location[marking'] = brp.location[marking] + 1
    <3>1. at' = "mark" /\ incoming_left' = incoming_trans_idxs(marking')
      BY <1>1, <1>9 DEF NextState
    <3>2. QED
      BY <1>1, <1>4, <1>9, <3>1, Basics, NextOfSet
  <2>2. \A x \in Elements(Size) :
          brp.location[x] < brp.location[marking'] <=>
            brp.location[x] < brp.location[marking] \/ x = marking
    BY <1>4, <2>1, Basics, BeforeNext
  <2>3. FollowsBut(brp.set_idx[marking])'
    <3>1. brp'.set_idx[marking'] = half
      BY <1>1, <2>1
    <3>2. QED
      BY <1>1, <1>3, <1>4, <3>1 DEF FollowsBut, SameSplitter, TargetBlock
  <2>4. ASSUME NEW u \in Trans PROVE u \in Marked(trp, Count)' <=> Passed(u)'
    <3>1. u \in Marked(trp, Count)' <=> u \in Marked(trp, Count)
      BY <1>1, <1>3
    <3>2. transitions[u][3] = marking' => u \in incoming_left'
      BY <2>1, Basics DEF incoming_trans_idxs
    <3>3. Passed(u)' <=> /\ TargetBlock(u) = half
                         /\ \/ brp.location[transitions[u][3]] < brp.location[marking']
                            \/ transitions[u][3] = marking' /\ u \notin incoming_left'
      BY <1>1, <1>3, <2>1 DEF Passed, TargetBlock
    <3>4. QED
      BY <1>5, <1>7, <2>2, <3>1, <3>2, <3>3
  <2>5. marking' \in dfa_trimmed'.states /\ incoming_left' \subseteq incoming_trans_idxs(marking)'
    <3>1. marking' \in dfa_trimmed'.states
      BY <1>3, <2>1, Basics
    <3>2. incoming_left' = {t \in DOMAIN transitions : transitions[t][3] = marking'}
      BY <2>1 DEF incoming_trans_idxs
    <3>3. incoming_trans_idxs(marking)' = {t \in DOMAIN transitions' : transitions'[t][3] = marking'}
      BY DEF incoming_trans_idxs
    <3>4. QED
      BY <1>3, <3>1, <3>2, <3>3
  <2>6. \A t \in Trans' : t \in Marked(trp, Count)' <=> Passed(t)'
    BY <1>3, <2>4
  <2>7. PhaseInv'
    BY <2>1, <2>3, <2>5, <2>6 DEF PhaseInv, Phases
  <2>8. QED
    BY <1>1, <1>6, <2>7, InvLater
<1>10. QED
  BY <1>8, <1>9

(* A splitter is split: what leads into the half leaves it.  When no marks  *)
(* are left, the splitters follow the blocks again.                         *)
LEMMA SplitSplitterInv ==
  ASSUME HopcroftInv, dfa_trimmed.delta # {}, SplitSplitter
  PROVE  HopcroftInv'
<1> DEFINE s == Last(touched_splitters)
           new == trp.num_of_sets
<1>1. at = "splitters" /\ UNCHANGED input /\ UNCHANGED <<brp, touched_blocks>>
  BY DEF SplitSplitter
<1>2. PartsInv /\ StacksInv /\ PhaseInv
  BY DEF HopcroftInv
<1>3. Size' = Size /\ Count' = Count /\ Trans' = Trans /\ transitions' = transitions
      /\ dfa_trimmed' = dfa_trimmed
  BY <1>1, SameInput
<1>4. PICK half \in Sets(brp) : FollowsBut(half) /\ HalfMarked(half)
  BY <1>1, <1>2 DEF PhaseInv
<1>5. HoldsMarked(trp, Count, touched_splitters) /\ HoldsMarked(brp, Size, touched_blocks)
  BY <1>1, <1>2 DEF StacksInv
<1>6. \A t \in Trans : TargetBlock(t)' = TargetBlock(t)
  BY <1>1, <1>3 DEF TargetBlock
<1>7. CASE touched_splitters = << >>
  <2>1. at' = "blocks" /\ UNCHANGED <<touched_splitters, trp, unready_splitters>>
    BY <1>7 DEF SplitSplitter
  <2>2. Marked(trp, Count) = {}
    BY <1>5, <1>7, Basics, NothingHeld
  <2>3. Follows
    BY <1>4, <2>2 DEF Follows, FollowsBut, HalfMarked
  <2>4. Follows'
    BY <1>1, <1>3, <2>1, <2>3 DEF Follows, SameSplitter, TargetBlock
  <2>5. PartsInv' /\ StacksInv'
    BY <1>1, <1>2, <1>3, <1>5, <2>1 DEF PartsInv, StacksInv
  <2>6. Marked(trp, Count)' = {}
    BY <1>3, <2>1, <2>2
  <2>7. PhaseInv'
    BY <2>1, <2>4, <2>6 DEF PhaseInv, Phases
  <2>8. QED
    BY <1>1, <2>5, <2>7, InvLater
<1>8. CASE touched_splitters # << >>
  <2>1. /\ at' = at /\ touched_splitters' = Front(touched_splitters)
        /\ trp' = Split(trp, s) /\ unready_splitters' = Pushed(trp'.num_of_sets)
    BY <1>8 DEF SplitSplitter
  <2>2. /\ s \in Sets(trp) /\ IsPartition(trp', Count)
        /\ \E e \in Marked(trp, Count) : trp.set_idx[e] = s
        /\ Marked(trp', Count) = {e \in Marked(trp, Count) : trp.set_idx[e] # s}
        /\ HoldsMarked(trp', Count, touched_splitters')
        /\ KeepsSets(trp, trp', s, Count) \/ SplitsOff(trp, trp', s, Count)
    BY <1>5, <1>8, <2>1, Basics, PoppedWhenSplit
  <2>3. new \in Nat /\ \A t \in Trans : trp.set_idx[t] \in Sets(trp) /\ trp.set_idx[t] # new
    <3>1. new \in Nat
      BY Basics, Entries
    <3>2. \A t \in Trans : trp.set_idx[t] \in Sets(trp)
      BY Basics, Entries DEF Trans
    <3>3. QED
      BY <3>1, <3>2 DEF Sets
  <2>4. \A t \in Trans : t \in Marked(trp, Count) <=> IsMarked(trp, t)
    BY DEF Marked, Trans
  <2>5. unready_splitters' \in Seq(Sets(trp'))
    <3>1. unready_splitters \in Seq(Sets(trp))
      BY <1>2 DEF StacksInv
    <3>2. trp'.num_of_sets = new \/ trp'.num_of_sets = new + 1
      BY <2>2 DEF KeepsSets, SplitsOff
    <3>3. CASE trp'.num_of_sets = new
      <4>1. unready_splitters' = unready_splitters /\ Sets(trp') = Sets(trp)
        BY <2>1, <3>3 DEF Pushed, Sets
      <4>2. QED
        BY <3>1, <4>1
    <3>4. CASE trp'.num_of_sets = new + 1
      <4>1. trp'.num_of_sets # new
        BY <2>3, <3>4
      <4>2. unready_splitters' = Append(unready_splitters, new)
        BY <2>1, <4>1 DEF Pushed
      <4>3. new \in Sets(trp') /\ Sets(trp) \subseteq Sets(trp')
        BY <2>3, <3>4 DEF Sets
      <4>4. unready_splitters \in Seq(Sets(trp'))
        BY <3>1, <4>3
      <4> HIDE DEF new
      <4>5. QED
        BY <4>2, <4>3, <4>4
    <3>5. QED
      BY <3>2, <3>3, <3>4
  <2>6. PartsInv' /\ StacksInv'
    BY <1>1, <1>2, <1>3, <1>5, <2>2, <2>5 DEF PartsInv, StacksInv
  <2> HIDE DEF s, new
  <2>7. ASSUME KeepsSets(trp, trp', s, Count)
        PROVE  FollowsBut(half)' /\ HalfMarked(half)'
    <3>1. /\ trp'.set_idx = trp.set_idx
          /\ \A t \in Trans : trp.set_idx[t] = s => t \in Marked(trp, Count)
      <4>1. \E t \in Trans : trp.set_idx[t] = s /\ IsMarked(trp, t)
        BY <2>2, <2>4 DEF Marked, Trans
      <4>2. QED
        BY <2>4, <2>7, <4>1 DEF KeepsSets, Trans
    <3>2. \A t, u \in Trans : SameSplitter(t, u)' <=> SameSplitter(t, u)
      BY <3>1 DEF SameSplitter
    <3>3. FollowsBut(half)'
      BY <1>3, <1>4, <1>6, <3>2 DEF FollowsBut
    <3>4. HalfMarked(half)'
      <4>1. \A t \in Marked(trp, Count)' : t \in Marked(trp, Count) /\ t \in Trans /\ trp.set_idx[t] # s
        BY <1>3, <2>2 DEF Marked, Trans
      <4>2. ASSUME NEW t \in Trans, NEW u \in Trans,
                   SameSplitter(t, u), TargetBlock(t) # TargetBlock(u)
            PROVE  \E v \in Marked(trp, Count)' : SameSplitter(t, v)
        <5>1. trp.set_idx[t] # s
          BY <1>4, <3>1, <4>2 DEF SameSplitter, HalfMarked
        <5>2. PICK v \in Marked(trp, Count) : SameSplitter(t, v)
          BY <1>4, <4>2 DEF HalfMarked
        <5>3. v \in Marked(trp, Count)'
          BY <1>3, <2>2, <5>1, <5>2 DEF SameSplitter
        <5>4. QED
          BY <5>2, <5>3
      <4>3. ASSUME NEW t \in Marked(trp, Count)', NEW u \in Trans,
                   SameSplitter(t, u), TargetBlock(u) = half
            PROVE  u \in Marked(trp, Count)'
        <5>1. u \in Marked(trp, Count) /\ trp.set_idx[u] # s
          BY <1>4, <4>1, <4>3 DEF HalfMarked, SameSplitter
        <5>2. QED
          BY <1>3, <2>2, <5>1
      <4>4. \A t \in Marked(trp, Count)' : TargetBlock(t)' = half
        BY <1>4, <1>6, <4>1 DEF HalfMarked
      <4>5. \A t \in Marked(trp, Count)' : \A u \in Trans' :
              SameSplitter(t, u)' /\ TargetBlock(u)' = half => u \in Marked(trp, Count)'
        BY <1>3, <1>6, <3>2, <4>1, <4>3
      <4>6. \A t, u \in Trans' :
              SameSplitter(t, u)' /\ TargetBlock(t)' # TargetBlock(u)' =>
                \E v \in Marked(trp, Count)' : SameSplitter(t, v)'
        BY <1>3, <1>6, <3>2, <4>1, <4>2
      <4>7. QED
        BY <4>4, <4>5, <4>6 DEF HalfMarked
    <3>5. QED
      BY <3>3, <3>4
  <2>8. ASSUME SplitsOff(trp, trp', s, Count)
        PROVE  FollowsBut(half)' /\ HalfMarked(half)'
    <3>1. \A t \in Trans :
            trp'.set_idx[t] = IF trp.set_idx[t] = s /\ t \in Marked(trp, Count)
                                THEN new ELSE trp.set_idx[t]
      BY <2>4, <2>8 DEF SplitsOff, Trans, new
    <3>2. \A t, u \in Trans :
            SameSplitter(t, u)' <=>
              /\ SameSplitter(t, u)
              /\ trp.set_idx[t] = s => (t \in Marked(trp, Count) <=> u \in Marked(trp, Count))
      BY <2>3, <3>1 DEF SameSplitter
    <3>3. \A t, u \in Trans :
            SameSplitter(t, u) /\ TargetBlock(t) = TargetBlock(u) =>
              (t \in Marked(trp, Count) <=> u \in Marked(trp, Count))
      BY <1>4 DEF HalfMarked, SameSplitter
    <3>4. FollowsBut(half)'
      <4>1. \A t, u \in Trans :
              /\ SameSplitter(t, u)' =>
                   /\ transitions[t][2] = transitions[u][2]
                   /\ TargetBlock(t) = TargetBlock(u) \/ TargetBlock(t) = half \/ TargetBlock(u) = half
              /\ transitions[t][2] = transitions[u][2] /\ TargetBlock(t) = TargetBlock(u)
                   => SameSplitter(t, u)'
        BY <1>4, <3>2, <3>3 DEF FollowsBut
      <4>2. QED
        BY <1>3, <1>6, <4>1 DEF FollowsBut
    <3>5. HalfMarked(half)'
      <4>1. \A t \in Marked(trp, Count)' : t \in Marked(trp, Count) /\ t \in Trans /\ trp.set_idx[t] # s
        BY <1>3, <2>2 DEF Marked, Trans
      <4>2. ASSUME NEW t \in Trans, NEW u \in Trans,
                   SameSplitter(t, u)', TargetBlock(t) # TargetBlock(u)
            PROVE  \E v \in Marked(trp, Count)' : SameSplitter(t, v)'
        <5>1. SameSplitter(t, u)
          BY <3>2, <4>2
        <5>2. PICK w \in Marked(trp, Count) : SameSplitter(t, w)
          BY <1>4, <4>2, <5>1 DEF HalfMarked
        <5>3. TargetBlock(t) = half \/ TargetBlock(u) = half
          BY <1>4, <4>2, <5>1 DEF FollowsBut
        <5>4. w \in Trans
          BY <5>2 DEF Marked, Trans
        <5>5. (TargetBlock(t) = half => t \in Marked(trp, Count))
              /\ (TargetBlock(u) = half => u \in Marked(trp, Count))
          BY <1>4, <5>1, <5>2 DEF HalfMarked, SameSplitter
        <5>6. (TargetBlock(t) # half => t \notin Marked(trp, Count))
              /\ (TargetBlock(u) # half => u \notin Marked(trp, Count))
          BY <1>4 DEF HalfMarked
        <5>7. trp.set_idx[t] # s
          BY <3>2, <4>2, <5>3, <5>5, <5>6
        <5>8. w \in Marked(trp, Count)'
          BY <1>3, <2>2, <5>2, <5>7 DEF SameSplitter
        <5>9. SameSplitter(t, w)'
          BY <3>2, <5>2, <5>4, <5>7
        <5>10. QED
          BY <5>8, <5>9
      <4>3. ASSUME NEW t \in Marked(trp, Count)', NEW u \in Trans,
                   SameSplitter(t, u)', TargetBlock(u) = half
            PROVE  u \in Marked(trp, Count)'
        <5>1. SameSplitter(t, u) /\ t \in Marked(trp, Count) /\ trp.set_idx[t] # s
          BY <3>2, <4>1, <4>3
        <5>2. u \in Marked(trp, Count) /\ trp.set_idx[u] # s
          BY <1>4, <4>3, <5>1 DEF HalfMarked, SameSplitter
        <5>3. QED
          BY <1>3, <2>2, <5>2
      <4>4. \A t \in Marked(trp, Count)' : TargetBlock(t)' = half
        BY <1>4, <1>6, <4>1 DEF HalfMarked
      <4>5. \A t \in Marked(trp, Count)' : \A u \in Trans' :
              SameSplitter(t, u)' /\ TargetBlock(u)' = half => u \in Marked(trp, Count)'
        BY <1>3, <1>6, <4>3
      <4>6. \A t, u \in Trans' :
              SameSplitter(t, u)' /\ TargetBlock(t)' # TargetBlock(u)' =>
                \E v \in Marked(trp, Count)' : SameSplitter(t, v)'
        BY <1>3, <1>6, <4>2
      <4>7. QED
        BY <4>4, <4>5, <4>6 DEF HalfMarked
    <3>6. QED
      BY <3>4, <3>5
  <2>9. FollowsBut(half)' /\ HalfMarked(half)'
    BY <2>2, <2>7, <2>8
  <2>10. PhaseInv'
    BY <1>1, <1>4, <2>1, <2>9 DEF PhaseInv, Phases
  <2>11. QED
    BY <1>1, <2>6, <2>10, InvLater
<1>9. QED
  BY <1>7, <1>8

(* The other steps leave both partitions alone.                             *)
LEMMA ConstructInv ==
  ASSUME HopcroftInv, dfa_trimmed.delta # {}, Construct
  PROVE  HopcroftInv'
<1>1. /\ at' = "done" /\ UNCHANGED input
      /\ UNCHANGED <<brp, trp, unready_splitters, touched_blocks, touched_splitters>>
  BY DEF Construct
<1>2. PartsInv /\ StacksInv /\ at = "blocks"
  BY DEF HopcroftInv, Construct
<1>3. Size' = Size /\ Count' = Count
  BY <1>1, SameInput
<1>4. PartsInv' /\ StacksInv' /\ PhaseInv'
  BY <1>1, <1>2, <1>3 DEF PartsInv, StacksInv, PhaseInv, Phases
<1>5. QED
  BY <1>1, <1>4, InvLater

LEMMA NextHopcroftInv == HopcroftInv /\ [Next]_vars => HopcroftInv'
<1> SUFFICES ASSUME HopcroftInv, [Next]_vars PROVE HopcroftInv'
  OBVIOUS
<1>1. CASE UNCHANGED vars
  <2>1. UNCHANGED input
    BY <1>1 DEF vars
  <2>2. UNCHANGED <<brp, trp, unready_splitters, touched_blocks, touched_splitters,
                    finals_left, firing, marking, incoming_left, at>>
    BY <1>1 DEF vars
  <2>3. (PartsInv' <=> PartsInv) /\ (StacksInv' <=> StacksInv)
    BY <2>1, <2>2, SameInput DEF PartsInv, StacksInv
  <2>4. PhaseInv' <=> PhaseInv
    <3>1. \A t \in Trans : (TargetBlock(t)' = TargetBlock(t)) /\ (Passed(t)' <=> Passed(t))
      BY <2>1, <2>2, SameInput DEF Passed, TargetBlock
    <3>2. \A t, u \in Trans : SameSplitter(t, u)' <=> SameSplitter(t, u)
      BY <2>2 DEF SameSplitter
    <3>3. Marked(trp, Count)' = Marked(trp, Count) /\ Marked(brp, Size)' = Marked(brp, Size)
      BY <2>1, <2>2, SameInput
    <3>4. Follows' <=> Follows
      BY <2>1, <3>1, <3>2, SameInput DEF Follows
    <3>5. \A half : (FollowsBut(half)' <=> FollowsBut(half)) /\ (HalfMarked(half)' <=> HalfMarked(half))
      BY <2>1, <2>2, SameInput DEF FollowsBut, HalfMarked, SameSplitter, TargetBlock
    <3>6. QED
      BY <2>1, <2>2, <3>1, <3>3, <3>4, <3>5, SameInput DEF PhaseInv, incoming_trans_idxs
  <2>5. QED
    BY <2>1, <2>2, <2>3, <2>4, SameInput DEF HopcroftInv
<1>2. CASE Next /\ dfa_trimmed.delta = {}
  <2>1. at \in {"called", "done"}
    BY <1>2 DEF HopcroftInv
  <2>2. ReturnCopy
    BY <1>2, <2>1 DEF Next, Start, MarkFinal, TakeSplitter, FireBack, SplitBlock, MarkIncoming,
                      NextState, SplitSplitter, Construct
  <2>3. at' = "done" /\ UNCHANGED input
    BY <2>2 DEF ReturnCopy
  <2>4. QED
    BY <1>2, <2>3, SameInput DEF HopcroftInv
<1>3. CASE Next /\ dfa_trimmed.delta # {}
  <2>1. ~ReturnCopy
    BY <1>3 DEF ReturnCopy
  <2>2. QED
    BY <1>3, <2>1, StartInv, MarkFinalInv, TakeSplitterInv, FireBackInv, SplitBlockInv,
       MarkIncomingInv, NextStateInv, SplitSplitterInv, ConstructInv DEF Next
<1>4. QED
  BY <1>1, <1>2, <1>3

(* In every reachable state the vectors of both partitions are permutations *)
(* cut into sets, each stack holds the sets with marks, and the splitters   *)
(* follow the blocks or lag behind by the half that is being marked.        *)
THEOREM HopcroftInvHolds == Spec => []HopcroftInv
<1>1. QED
  BY InitHopcroftInv, NextHopcroftInv, PTL DEF Spec

LEMMA InvIsInStep == HopcroftInv => PartitionsInStep
<1> SUFFICES ASSUME HopcroftInv, dfa_trimmed.delta # {}
             PROVE  PartitionsConsistent /\ SplittersFollowBlocks
  BY DEF PartitionsInStep
<1>1. PartsInv /\ StacksInv /\ PhaseInv
  BY DEF HopcroftInv
<1>2. PartitionsConsistent
  BY Basics, PartitionIsConsistent DEF PartitionsConsistent
<1>3. at = "blocks" => Follows
  BY <1>1 DEF PhaseInv
<1>4. at \in {"fire", "blocks"} => Waiting(trp, << >>)
  <2>1. at \in {"fire", "blocks"} => HoldsMarked(trp, Count, << >>)
    BY <1>1, Basics, NothingHeld DEF PhaseInv
  <2>2. QED
    BY <2>1, Basics, HeldIsWaiting
<1>5. Waiting(trp, touched_splitters) /\ (at # "finals" => Waiting(brp, touched_blocks))
  BY <1>1, Basics, HeldIsWaiting DEF StacksInv
<1>6. QED
  BY <1>2, <1>3, <1>4, <1>5, Basics DEF SplittersFollowBlocks, Follows, SameSplitter, TargetBlock

(* Both partitions stay consistent while they are permuted in place, the    *)
(* splitters are the transitions over one symbol into one block whenever a  *)
(* block is about to be split, and no mark is left behind: for every        *)
(* deterministic automaton whose states are all useful.                     *)
THEOREM PartitionsStayInStep == Spec => []PartitionsInStep
<1>1. QED
  BY HopcroftInvHolds, InvIsInStep, PTL

------------------------------------------------------------------------------
(* The blocks at the end are the coarsest partition of the states in which  *)
(* two states of a block are alike: both final or none, and with moves over *)
(* the same symbols into the same blocks.                                   *)

(* Two states stay alike after any moves.                                   *)
IsBisimulation(A, R) ==
  /\ R \subseteq A.states \X A.states
  /\ \A p, q \in A.states : <<p, q>> \in R =>
       /\ <<q, p>> \in R
       /\ p \in A.final <=> q \in A.final
       /\ \A m \in A.delta : m[1] = p =>
            \E k \in A.delta : k[1] = q /\ k[2] = m[2] /\ <<m[3], k[3]>> \in R

States == Elements(Size)
Together(p, q) == brp.set_idx[p] = brp.set_idx[q]
HaveMark(p) == p \in Marked(brp, Size)

(* The transitions whose splitter is still to be used.                      *)
IsWaiting(t) == trp.set_idx[t] \in ToSet(unready_splitters)
IsFired(t) == SameSplitter(t, firing)

(* The moves of two states over one symbol.                                 *)
IsMoveOf(t, p) == transitions[t][1] = p
Parallel(t, u) == transitions[t][2] = transitions[u][2]

(* q moves as p does, or a splitter that tells them apart is left.          *)
MovesSettled(p, q) ==
  \A t \in Trans : IsMoveOf(t, p) =>
    \/ IsWaiting(t)
    \/ \E u \in Trans : /\ IsMoveOf(u, q) /\ Parallel(t, u)
                        /\ SameSplitter(t, u) \/ IsWaiting(u)
SameFinality(p, q) == p \in dfa_trimmed.final <=> q \in dfa_trimmed.final

(* Between two splitters: what is not settled is told apart by the marks.   *)
Told ==
  \A p, q \in States : Together(p, q) =>
    \/ SameFinality(p, q) /\ MovesSettled(p, q) /\ MovesSettled(q, p)
    \/ ~(HaveMark(p) <=> HaveMark(q))

(* While a splitter is used, it counts as one that is left.                 *)
MovesSettledOrFired(p, q) ==
  \A t \in Trans : IsMoveOf(t, p) =>
    \/ IsWaiting(t) \/ IsFired(t)
    \/ \E u \in Trans : /\ IsMoveOf(u, q) /\ Parallel(t, u)
                        /\ SameSplitter(t, u) \/ IsWaiting(u) \/ IsFired(u)
ToldOrFired ==
  \A p, q \in States : Together(p, q) =>
    SameFinality(p, q) /\ MovesSettledOrFired(p, q)

(* The states with marks are those from which the splitter was fired back.  *)
MarkedByFiring ==
  \A p \in States : HaveMark(p) <=>
    \E t \in Trans : IsMoveOf(t, p) /\ IsFired(t) /\ trp.location[t] < trp.location[firing]

(* States that are alike are never separated, nor about to be.              *)
LikeTogether ==
  \A R \in SUBSET (States \X States) : IsBisimulation(dfa_trimmed, R) =>
    \A p, q \in States : <<p, q>> \in R =>
      /\ Together(p, q)
      /\ at \in {"blocks", "mark", "splitters"} => (HaveMark(p) <=> HaveMark(q))

(* The states of a block are alike.                                         *)
Stable ==
  \A p, q \in States : Together(p, q) =>
    /\ SameFinality(p, q)
    /\ \A m \in dfa_trimmed.delta : m[1] = p =>
         \E k \in dfa_trimmed.delta : k[1] = q /\ k[2] = m[2] /\ Together(m[3], k[3])

(* The automaton of the blocks.                                             *)
OfBlocks ==
  [states |-> Sets(brp),
   initial |-> {brp.set_idx[q] : q \in dfa_trimmed.initial},
   final |-> {b \in Sets(brp) : get_first(brp, b) \in dfa_trimmed.final},
   delta |-> UNION {{<<b, m[2], brp.set_idx[m[3]]>> :
                       m \in {k \in dfa_trimmed.delta : k[1] = get_first(brp, b)}} :
                      b \in Sets(brp)}]

RefinementInv ==
  /\ at = "finals" => \A t \in Trans : IsWaiting(t)
  /\ at \in {"blocks", "mark", "splitters"} => Told
  /\ at = "fire" => ToldOrFired /\ MarkedByFiring
  /\ LikeTogether
  /\ at = "done" => Stable /\ result = OfBlocks

MinimizeInv ==
  /\ dfa_trimmed.delta # {} => RefinementInv
  /\ dfa_trimmed.delta = {} => result = dfa_trimmed

------------------------------------------------------------------------------
(* What the two invariants say together.                                    *)

LEMMA MovesByIndex ==
  ASSUME HopcroftInv, dfa_trimmed.delta # {}
  PROVE  /\ States = dfa_trimmed.states
         /\ \A t \in Trans : /\ transitions[t] \in dfa_trimmed.delta
                             /\ transitions[t][1] \in States /\ transitions[t][3] \in States
         /\ \A m \in dfa_trimmed.delta : \E t \in Trans : transitions[t] = m
         /\ \A t, u \in Trans :
              transitions[t][1] = transitions[u][1] /\ Parallel(t, u)
                => transitions[t] = transitions[u]
<1>1. IsTrimmedDfa(dfa_trimmed) /\ transitions = Transitions(dfa_trimmed)
  BY DEF HopcroftInv
<1>2. DOMAIN transitions = Trans /\ States = dfa_trimmed.states
      /\ \A t \in Trans : /\ transitions[t] \in dfa_trimmed.delta
                          /\ transitions[t][1] \in States /\ transitions[t][3] \in States
  BY Basics DEF States
<1>3. \A m \in dfa_trimmed.delta : \E t \in Trans : transitions[t] = m
  BY <1>1, <1>2, TransitionsAreMoves
<1>4. \A m, k \in dfa_trimmed.delta : m[1] = k[1] /\ m[2] = k[2] => m = k
  BY <1>1 DEF IsTrimmedDfa
<1>5. QED
  BY <1>2, <1>3, <1>4 DEF Parallel

LEMMA BisimulationMoves ==
  ASSUME NEW A, NEW R, IsBisimulation(A, R), NEW p \in A.states, NEW q \in A.states,
         <<p, q>> \in R
  PROVE  \A m \in A.delta : m[1] = p =>
           \E k \in A.delta : k[1] = q /\ k[2] = m[2] /\ <<m[3], k[3]>> \in R
BY Zenon DEF IsBisimulation

(* States that are alike have moves into the same blocks.                   *)
LEMMA LikeMoves ==
  ASSUME HopcroftInv, dfa_trimmed.delta # {}, LikeTogether, Follows,
         NEW R \in SUBSET (States \X States), IsBisimulation(dfa_trimmed, R),
         NEW p \in States, NEW q \in States, <<p, q>> \in R,
         NEW t \in Trans, IsMoveOf(t, p)
  PROVE  \E u \in Trans : IsMoveOf(u, q) /\ SameSplitter(t, u)
<1>1. p \in dfa_trimmed.states /\ q \in dfa_trimmed.states /\ transitions[t] \in dfa_trimmed.delta
      /\ transitions[t][1] = p /\ transitions[t][3] \in States
  BY MovesByIndex DEF IsMoveOf
<1>2. PICK k \in dfa_trimmed.delta :
        k[1] = q /\ k[2] = transitions[t][2] /\ <<transitions[t][3], k[3]>> \in R
  <2>1. \A m \in dfa_trimmed.delta : m[1] = p =>
          \E k \in dfa_trimmed.delta : k[1] = q /\ k[2] = m[2] /\ <<m[3], k[3]>> \in R
    BY <1>1, BisimulationMoves
  <2>2. PICK m \in dfa_trimmed.delta : m = transitions[t]
    BY <1>1
  <2>3. m[1] = p
    BY <1>1, <2>2
  <2>4. QED
    BY <2>1, <2>2, <2>3
<1>3. PICK u \in Trans : transitions[u] = k
  BY MovesByIndex
<1>4. Together(transitions[t][3], transitions[u][3])
  BY <1>1, <1>2, <1>3, MovesByIndex DEF LikeTogether
<1>5. QED
  BY <1>2, <1>3, <1>4 DEF IsMoveOf, Follows, TargetBlock, Together

(* What stays as long as the splitters and their stack do.                  *)
LEMMA SettledLater ==
  ASSUME UNCHANGED input, trp'.set_idx = trp.set_idx, UNCHANGED unready_splitters
  PROVE  /\ \A p, q : /\ MovesSettled(p, q)' <=> MovesSettled(p, q)
                      /\ SameFinality(p, q)' <=> SameFinality(p, q)
                      /\ IsMoveOf(p, q)' <=> IsMoveOf(p, q)
                      /\ Parallel(p, q)' <=> Parallel(p, q)
                      /\ SameSplitter(p, q)' <=> SameSplitter(p, q)
         /\ \A t : IsWaiting(t)' <=> IsWaiting(t)
<1>1. dfa_trimmed' = dfa_trimmed /\ transitions' = transitions /\ Trans' = Trans
  BY SameInput
<1>2. \A t : IsWaiting(t)' <=> IsWaiting(t)
  BY DEF IsWaiting
<1>3. \A p, q : /\ IsMoveOf(p, q)' <=> IsMoveOf(p, q)
                /\ Parallel(p, q)' <=> Parallel(p, q)
                /\ SameSplitter(p, q)' <=> SameSplitter(p, q)
                /\ SameFinality(p, q)' <=> SameFinality(p, q)
  BY <1>1 DEF IsMoveOf, Parallel, SameSplitter, SameFinality
<1>4. \A p, q : MovesSettled(p, q)' <=> MovesSettled(p, q)
  BY <1>1, <1>2, <1>3 DEF MovesSettled
<1>5. QED
  BY <1>2, <1>3, <1>4

(* What stays as long as the blocks and their marks do.                     *)
LEMMA BlocksLater ==
  ASSUME UNCHANGED input, UNCHANGED brp
  PROVE  /\ States' = States
         /\ \A p, q : Together(p, q)' <=> Together(p, q)
         /\ \A p : HaveMark(p)' <=> HaveMark(p)
         /\ \A R : IsBisimulation(dfa_trimmed, R)' <=> IsBisimulation(dfa_trimmed, R)
BY SameInput DEF States, Together, HaveMark

(* The marking of a half disturbs neither.                                  *)
LEMMA UndisturbedInv ==
  ASSUME RefinementInv, at \in {"blocks", "mark", "splitters"},
         at' \in {"blocks", "mark", "splitters"}, UNCHANGED input, UNCHANGED brp,
         trp'.set_idx = trp.set_idx, UNCHANGED unready_splitters
  PROVE  RefinementInv'
<1>1. Told /\ LikeTogether
  BY DEF RefinementInv
<1>2. Told'
  BY <1>1, SettledLater, BlocksLater DEF Told
<1>3. LikeTogether'
  BY <1>1, BlocksLater DEF LikeTogether
<1>4. QED
  BY <1>2, <1>3 DEF RefinementInv

LEMMA OntoStack ==
  ASSUME NEW S, NEW stack \in Seq(S), NEW s
  PROVE  ToSet(Append(stack, s)) = ToSet(stack) \cup {s}
<1>1. PICK k \in Nat : k = Len(stack)
  OBVIOUS
<1>2. Append(stack, s) \in Seq(S \cup {s}) /\ stack \in Seq(S \cup {s})
  OBVIOUS
<1>3. /\ DOMAIN stack = 1 .. k /\ DOMAIN Append(stack, s) = 1 .. k + 1
      /\ \A i \in 1 .. k : Append(stack, s)[i] = stack[i]
      /\ Append(stack, s)[k + 1] = s
  BY <1>1, <1>2
<1>4. \A i : i \in 1 .. k + 1 <=> i \in 1 .. k \/ i = k + 1
  BY <1>1
<1>5. QED
  BY <1>3, <1>4 DEF ToSet

------------------------------------------------------------------------------
(* The steps of the refinement.                                             *)

LEMMA InitRefinement ==
  ASSUME Init PROVE MinimizeInv
<1>1. HopcroftInv /\ at = "called" /\ result = dfa_trimmed
  BY InitHopcroftInv DEF Init
<1>2. ASSUME dfa_trimmed.delta # {} PROVE LikeTogether
  <2>1. brp.num_of_sets = 1 /\ IsPartition(brp, Size) /\ Size \in Nat
    BY <1>1, <1>2, Basics DEF HopcroftInv, PhaseInv
  <2>2. \A p \in States : brp.set_idx[p] \in Sets(brp)
    BY <2>1, Entries DEF States
  <2>3. \A p \in States : brp.set_idx[p] = 0
    BY <2>1, <2>2 DEF Sets
  <2>4. QED
    BY <1>1, <2>3 DEF LikeTogether, Together
<1>3. QED
  BY <1>1, <1>2 DEF MinimizeInv, RefinementInv

LEMMA StartRefinement ==
  ASSUME HopcroftInv, dfa_trimmed.delta # {}, RefinementInv, Start
  PROVE  RefinementInv'
<1>1. /\ at' = "finals" /\ UNCHANGED input /\ UNCHANGED <<brp, trp>>
      /\ unready_splitters' = [i \in 1 .. trp.num_of_sets |-> i - 1]
  BY DEF Start
<1>2. ASSUME NEW t \in Trans PROVE IsWaiting(t)'
  <2>1. PICK s \in Sets(trp) : s = trp.set_idx[t]
    BY Basics, Entries DEF Trans
  <2>2. PICK n \in Nat : n = trp.num_of_sets
    BY Basics, Entries
  <2>3. s + 1 \in 1 .. n /\ (s + 1) - 1 = s
    BY <2>2 DEF Sets
  <2>4. [i \in 1 .. n |-> i - 1][s + 1] = s /\ DOMAIN [i \in 1 .. n |-> i - 1] = 1 .. n
    BY <2>3
  <2>5. s \in ToSet([i \in 1 .. n |-> i - 1])
    BY <2>3, <2>4 DEF ToSet
  <2>6. trp' = trp
    BY <1>1
  <2>7. QED
    BY <1>1, <2>1, <2>2, <2>5, <2>6 DEF IsWaiting
<1>3. \A t \in Trans' : IsWaiting(t)'
  BY <1>1, <1>2, SameInput
<1>4. LikeTogether'
  BY <1>1, BlocksLater DEF RefinementInv, LikeTogether
<1>5. QED
  BY <1>1, <1>3, <1>4 DEF RefinementInv

LEMMA MarkFinalRefinement ==
  ASSUME HopcroftInv, dfa_trimmed.delta # {}, RefinementInv, MarkFinal
  PROVE  RefinementInv'
<1>1. /\ at = "finals" /\ UNCHANGED input /\ UNCHANGED <<trp, unready_splitters>>
  BY DEF MarkFinal
<1>2. /\ finals_left \subseteq dfa_trimmed.final
      /\ Marked(brp, Size) = dfa_trimmed.final \ finals_left
  BY <1>1 DEF HopcroftInv, PhaseInv
<1>3. LikeTogether /\ \A t \in Trans : IsWaiting(t)
  BY <1>1 DEF RefinementInv
<1>4. CASE finals_left = {}
  <2>1. at' = "blocks" /\ brp' = brp
    BY <1>4 DEF MarkFinal
  <2>2. \A p \in States : HaveMark(p) <=> p \in dfa_trimmed.final
    BY <1>2, <1>4 DEF HaveMark
  <2>3. Told
    BY <1>3, <2>2 DEF Told, SameFinality, MovesSettled
  <2>4. Told'
    BY <1>1, <2>1, <2>3, SettledLater, BlocksLater DEF Told
  <2>5. \A R \in SUBSET (States \X States) : IsBisimulation(dfa_trimmed, R) =>
          \A p, q \in States : <<p, q>> \in R => (p \in dfa_trimmed.final <=> q \in dfa_trimmed.final)
    BY MovesByIndex DEF IsBisimulation
  <2>6. LikeTogether'
    BY <1>1, <1>3, <2>1, <2>2, <2>5, BlocksLater DEF LikeTogether
  <2>7. QED
    BY <2>1, <2>4, <2>6 DEF RefinementInv
<1>5. CASE finals_left # {}
  <2>1. PICK q \in finals_left : brp' = Mark(brp, q) /\ at' = "finals"
    BY <1>1, <1>5 DEF MarkFinal
  <2>2. q \in Elements(Size)
    BY <1>2, Basics
  <2>3. brp'.set_idx = brp.set_idx
    BY <2>1, <2>2, Basics, MarkMarks
  <2>4. \A p, r : Together(p, r)' <=> Together(p, r)
    BY <2>3 DEF Together
  <2>5. States' = States /\ dfa_trimmed' = dfa_trimmed /\ Trans' = Trans
    BY <1>1, SameInput DEF States
  <2>6. LikeTogether'
    BY <1>3, <2>1, <2>4, <2>5 DEF LikeTogether
  <2>7. \A t \in Trans' : IsWaiting(t)'
    BY <1>1, <1>3, <2>5, SettledLater
  <2>8. QED
    BY <2>1, <2>6, <2>7 DEF RefinementInv
<1>6. QED
  BY <1>4, <1>5

LEMMA TakeSplitterRefinement ==
  ASSUME HopcroftInv, dfa_trimmed.delta # {}, RefinementInv, TakeSplitter
  PROVE  RefinementInv'
<1>1. /\ at = "blocks" /\ at' = "fire" /\ UNCHANGED input /\ UNCHANGED <<brp, trp>>
      /\ touched_blocks = << >> /\ unready_splitters # << >>
      /\ unready_splitters' = Front(unready_splitters)
      /\ firing' = get_first(trp, Last(unready_splitters))
  BY DEF TakeSplitter
<1>2. Told /\ LikeTogether
  BY <1>1 DEF RefinementInv
<1>3. Marked(brp, Size) = {}
  <2>1. HoldsMarked(brp, Size, << >>)
    BY <1>1 DEF HopcroftInv, StacksInv
  <2>2. QED
    BY <2>1, Basics, NothingHeld
<1>4. /\ Last(unready_splitters) \in Sets(trp)
      /\ ToSet(unready_splitters) = ToSet(unready_splitters') \cup {Last(unready_splitters)}
  <2>1. unready_splitters \in Seq(Sets(trp))
    BY DEF HopcroftInv, StacksInv
  <2>2. QED
    BY <1>1, <2>1, WithoutTop
<1>5. /\ firing' \in Trans /\ trp.set_idx[firing'] = Last(unready_splitters)
      /\ \A t \in Trans : trp.set_idx[t] = trp.set_idx[firing'] =>
                            ~(trp.location[t] < trp.location[firing'])
  BY <1>1, <1>4, Basics, FirstOfSet DEF Trans
<1>6. \A t \in Trans : IsWaiting(t) => IsWaiting(t)' \/ IsFired(t)'
  BY <1>1, <1>4, <1>5 DEF IsWaiting, IsFired, SameSplitter
<1>7. \A p, q : /\ IsMoveOf(p, q)' <=> IsMoveOf(p, q)
                /\ Parallel(p, q)' <=> Parallel(p, q)
                /\ SameSplitter(p, q)' <=> SameSplitter(p, q)
                /\ SameFinality(p, q)' <=> SameFinality(p, q)
  BY <1>1, SameInput DEF IsMoveOf, Parallel, SameSplitter, SameFinality
<1>8. \A p, q : MovesSettled(p, q) => MovesSettledOrFired(p, q)'
  <2>1. Trans' = Trans
    BY <1>1, SameInput
  <2>2. QED
    BY <1>6, <1>7, <2>1 DEF MovesSettled, MovesSettledOrFired
<1>9. ToldOrFired'
  <2>1. \A p, q \in States : Together(p, q) => SameFinality(p, q) /\ MovesSettled(p, q)
    BY <1>2, <1>3 DEF Told, HaveMark
  <2>2. QED
    BY <1>1, <1>7, <1>8, <2>1, BlocksLater DEF ToldOrFired
<1>10. MarkedByFiring'
  <2>1. Marked(brp, Size)' = {}
    BY <1>1, <1>3, SameInput
  <2>2. ASSUME NEW t \in Trans, IsFired(t)' PROVE ~(trp'.location[t] < trp'.location[firing'])
    BY <1>1, <1>5, <2>2 DEF IsFired, SameSplitter
  <2>3. QED
    BY <1>1, <2>1, <2>2, SameInput DEF MarkedByFiring, HaveMark
<1>11. LikeTogether'
  BY <1>1, <1>2, BlocksLater DEF LikeTogether
<1>12. QED
  BY <1>1, <1>9, <1>10, <1>11 DEF RefinementInv

(* The last transition fired back has marked all sources: what it tells     *)
(* apart, the marks do.                                                     *)
LEMMA FiredIsTold ==
  ASSUME HopcroftInv, dfa_trimmed.delta # {}, Follows, ToldOrFired, LikeTogether,
         NEW M, \A p \in States : p \in M <=> \E t \in Trans : IsMoveOf(t, p) /\ IsFired(t)
  PROVE  /\ \A p, q \in States : Together(p, q) =>
              \/ SameFinality(p, q) /\ MovesSettled(p, q) /\ MovesSettled(q, p)
              \/ ~(p \in M <=> q \in M)
         /\ \A R \in SUBSET (States \X States) : IsBisimulation(dfa_trimmed, R) =>
              \A p, q \in States : <<p, q>> \in R => (p \in M <=> q \in M)
<1>1. ASSUME NEW p \in States, NEW q \in States, Together(p, q), p \in M <=> q \in M
      PROVE  MovesSettled(p, q)
  <2> SUFFICES ASSUME NEW t \in Trans, IsMoveOf(t, p), ~IsWaiting(t)
               PROVE  \E u \in Trans : /\ IsMoveOf(u, q) /\ Parallel(t, u)
                                       /\ SameSplitter(t, u) \/ IsWaiting(u)
    BY DEF MovesSettled
  <2>1. CASE IsFired(t)
    <3>1. PICK u \in Trans : IsMoveOf(u, q) /\ IsFired(u)
      BY <1>1, <2>1
    <3>2. SameSplitter(t, u) /\ Parallel(t, u)
      BY <2>1, <3>1 DEF IsFired, SameSplitter, Follows, Parallel
    <3>3. QED
      BY <3>1, <3>2
  <2>2. CASE ~IsFired(t)
    <3>1. PICK u \in Trans : /\ IsMoveOf(u, q) /\ Parallel(t, u)
                             /\ SameSplitter(t, u) \/ IsWaiting(u) \/ IsFired(u)
      BY <1>1, <2>2 DEF ToldOrFired, MovesSettledOrFired
    <3>2. CASE IsFired(u)
      <4>1. PICK r \in Trans : IsMoveOf(r, p) /\ IsFired(r)
        BY <1>1, <3>1, <3>2
      <4>2. SameSplitter(r, u)
        BY <3>2, <4>1 DEF IsFired, SameSplitter
      <4>3. Parallel(r, u)
        BY <4>2 DEF Follows, Parallel
      <4>4. transitions[t] = transitions[r]
        BY <3>1, <4>1, <4>3, MovesByIndex DEF IsMoveOf, Parallel
      <4>5. SameSplitter(t, r)
        BY <4>4 DEF Follows, TargetBlock
      <4>6. IsFired(t)
        BY <4>1, <4>5 DEF IsFired, SameSplitter
      <4>7. QED
        BY <2>2, <4>6
    <3>3. QED
      BY <3>1, <3>2
  <2>3. QED
    BY <2>1, <2>2
<1>2. ASSUME NEW p \in States, NEW q \in States, Together(p, q)
      PROVE  \/ SameFinality(p, q) /\ MovesSettled(p, q) /\ MovesSettled(q, p)
             \/ ~(p \in M <=> q \in M)
  <2>1. Together(q, p) /\ SameFinality(p, q)
    BY <1>2 DEF Together, ToldOrFired
  <2>2. QED
    BY <1>1, <1>2, <2>1
<1>3. ASSUME NEW R \in SUBSET (States \X States), IsBisimulation(dfa_trimmed, R)
      PROVE  \A p, q \in States : <<p, q>> \in R => (p \in M <=> q \in M)
  <2>1. ASSUME NEW p \in States, NEW q \in States, <<p, q>> \in R, p \in M
        PROVE  q \in M
    <3>1. PICK t \in Trans : IsMoveOf(t, p) /\ IsFired(t)
      BY <2>1
    <3>2. PICK u \in Trans : IsMoveOf(u, q) /\ SameSplitter(t, u)
      BY <1>3, <2>1, <3>1, LikeMoves
    <3>3. IsFired(u)
      BY <3>1, <3>2 DEF IsFired, SameSplitter
    <3>4. QED
      BY <3>2, <3>3
  <2>2. \A p, q \in States : <<p, q>> \in R => <<q, p>> \in R
    BY <1>3, MovesByIndex DEF IsBisimulation
  <2>3. QED
    BY <2>1, <2>2
<1>4. QED
  BY <1>2, <1>3

LEMMA FireBackRefinement ==
  ASSUME HopcroftInv, dfa_trimmed.delta # {}, RefinementInv, FireBack
  PROVE  RefinementInv'
<1>1. /\ at = "fire" /\ UNCHANGED input /\ UNCHANGED <<trp, unready_splitters>>
      /\ firing' = get_next(trp, firing)
      /\ at' = IF firing' = no_more_elements THEN "blocks" ELSE at
      /\ brp' = Mark(brp, transitions[firing][1])
  BY DEF FireBack
<1>2. ToldOrFired /\ MarkedByFiring /\ LikeTogether
  BY <1>1 DEF RefinementInv
<1>3. firing \in Trans /\ Follows
  BY <1>1 DEF HopcroftInv, PhaseInv
<1>4. PICK source \in States : source = transitions[firing][1]
  BY <1>3, MovesByIndex
<1>5. /\ brp'.set_idx = brp.set_idx
      /\ Marked(brp', Size) = Marked(brp, Size) \cup {source}
  BY <1>1, <1>4, Basics, MarkMarks DEF States
<1>6. /\ Size' = Size /\ States' = States /\ Trans' = Trans
      /\ dfa_trimmed' = dfa_trimmed /\ transitions' = transitions /\ trp' = trp
  BY <1>1, SameInput DEF States
<1>7. \A p \in States : HaveMark(p)' <=> HaveMark(p) \/ p = source
  BY <1>5, <1>6 DEF HaveMark
<1>8. \A p, q : Together(p, q)' <=> Together(p, q)
  BY <1>5 DEF Together
<1>9. ASSUME NEW p \in States
      PROVE  HaveMark(p)' <=> \E t \in Trans :
                /\ IsMoveOf(t, p) /\ IsFired(t)
                /\ trp.location[t] < trp.location[firing] \/ t = firing
  <2>1. IsMoveOf(firing, p) <=> p = source
    BY <1>4 DEF IsMoveOf
  <2>2. IsFired(firing)
    BY DEF IsFired, SameSplitter
  <2>3. HaveMark(p) <=>
          \E t \in Trans : IsMoveOf(t, p) /\ IsFired(t) /\ trp.location[t] < trp.location[firing]
    BY <1>2 DEF MarkedByFiring
  <2>4. QED
    BY <1>3, <1>7, <2>1, <2>2, <2>3
<1>10. CASE firing' = no_more_elements
  <2>1. at' = "blocks"
    BY <1>1, <1>10
  <2>2. \A t \in Trans : IsFired(t) => trp.location[t] < trp.location[firing] \/ t = firing
    BY <1>1, <1>3, <1>10, Basics, NextOfSet DEF IsFired, SameSplitter, Trans
  <2>3. \A p \in States : p \in Marked(brp', Size) <=> \E t \in Trans : IsMoveOf(t, p) /\ IsFired(t)
    BY <1>6, <1>9, <2>2 DEF HaveMark
  <2>4. /\ \A p, q \in States : Together(p, q) =>
             \/ SameFinality(p, q) /\ MovesSettled(p, q) /\ MovesSettled(q, p)
             \/ ~(p \in Marked(brp', Size) <=> q \in Marked(brp', Size))
        /\ \A R \in SUBSET (States \X States) : IsBisimulation(dfa_trimmed, R) =>
             \A p, q \in States : <<p, q>> \in R =>
               (p \in Marked(brp', Size) <=> q \in Marked(brp', Size))
    BY <1>2, <1>3, <2>3, FiredIsTold
  <2>5. \A p : HaveMark(p)' <=> p \in Marked(brp', Size)
    BY <1>6 DEF HaveMark
  <2>6. Told'
    BY <1>1, <1>6, <1>8, <2>4, <2>5, SettledLater DEF Told
  <2>7. LikeTogether'
    BY <1>2, <1>6, <1>8, <2>4, <2>5 DEF LikeTogether
  <2>8. QED
    BY <2>1, <2>6, <2>7 DEF RefinementInv
<1>11. CASE firing' # no_more_elements
  <2>1. /\ at' = "fire" /\ firing' \in Trans
        /\ trp.set_idx[firing'] = trp.set_idx[firing]
        /\ trp.location[firing'] = trp.location[firing] + 1
    BY <1>1, <1>3, <1>11, Basics, NextOfSet DEF Trans
  <2>2. \A t : IsFired(t)' <=> IsFired(t)
    BY <1>6, <2>1 DEF IsFired, SameSplitter
  <2>3. \A t \in Trans : trp.location[t] < trp.location[firing'] <=>
                         trp.location[t] < trp.location[firing] \/ t = firing
    BY <1>3, <2>1, Basics, BeforeNext DEF Trans
  <2>4. ToldOrFired'
    <3>1. \A p, q : MovesSettledOrFired(p, q)' <=> MovesSettledOrFired(p, q)
      BY <1>1, <1>6, <2>2, SettledLater DEF MovesSettledOrFired
    <3>2. QED
      BY <1>1, <1>2, <1>6, <1>8, <3>1, SettledLater DEF ToldOrFired
  <2>5. MarkedByFiring'
    <3>1. \A t, p : IsMoveOf(t, p)' <=> IsMoveOf(t, p)
      BY <1>6 DEF IsMoveOf
    <3>2. QED
      BY <1>6, <1>9, <2>2, <2>3, <3>1 DEF MarkedByFiring
  <2>6. LikeTogether'
    BY <1>2, <1>6, <1>8, <2>1 DEF LikeTogether
  <2>7. QED
    BY <2>1, <2>4, <2>5, <2>6 DEF RefinementInv
<1>12. QED
  BY <1>10, <1>11

LEMMA SplitBlockRefinement ==
  ASSUME HopcroftInv, dfa_trimmed.delta # {}, RefinementInv, SplitBlock
  PROVE  RefinementInv'
<1> DEFINE b == Last(touched_blocks)
           new == brp.num_of_sets
<1>1. /\ at = "blocks" /\ touched_blocks # << >> /\ UNCHANGED input
      /\ UNCHANGED <<trp, unready_splitters>>
      /\ brp' = Split(brp, b) /\ at' \in {"blocks", "mark"}
  BY DEF SplitBlock
<1>2. Told /\ LikeTogether
  BY <1>1 DEF RefinementInv
<1>3. /\ b \in Sets(brp)
      /\ Marked(brp', Size) = {e \in Marked(brp, Size) : brp.set_idx[e] # b}
      /\ KeepsSets(brp, brp', b, Size) \/ SplitsOff(brp, brp', b, Size)
  <2>1. HoldsMarked(brp, Size, touched_blocks)
    BY <1>1 DEF HopcroftInv, StacksInv
  <2>2. QED
    BY <1>1, <2>1, Basics, PoppedWhenSplit
<1>4. new \in Nat /\ \A p \in States : brp.set_idx[p] # new
  <2>1. new \in Nat
    BY Basics, Entries
  <2>2. \A p \in States : brp.set_idx[p] \in Sets(brp)
    BY Basics, Entries DEF States
  <2>3. QED
    BY <2>1, <2>2 DEF Sets
<1>5. /\ Size' = Size /\ States' = States /\ dfa_trimmed' = dfa_trimmed
  BY <1>1, SameInput DEF States
<1>6. \A p \in States : IsMarked(brp, p) <=> HaveMark(p)
  BY DEF HaveMark, Marked, States
<1> HIDE DEF b, new
<1>7. \A p \in States : HaveMark(p)' <=> HaveMark(p) /\ brp.set_idx[p] # b
  BY <1>3, <1>5 DEF HaveMark
<1>8. \A p, q \in States :
        Together(p, q)' <=> Together(p, q) /\ (brp.set_idx[p] = b => (HaveMark(p) <=> HaveMark(q)))
  <2>1. CASE KeepsSets(brp, brp', b, Size)
    BY <1>6, <2>1 DEF KeepsSets, Together, States
  <2>2. CASE SplitsOff(brp, brp', b, Size)
    <3>1. \A p \in States :
            brp'.set_idx[p] = IF brp.set_idx[p] = b /\ HaveMark(p) THEN new ELSE brp.set_idx[p]
      BY <1>6, <2>2 DEF SplitsOff, States, new
    <3>2. QED
      BY <1>4, <3>1 DEF Together
  <2>3. QED
    BY <1>3, <2>1, <2>2
<1>9. Told'
  <2>1. \A p, q \in States : Together(p, q)' =>
          \/ SameFinality(p, q) /\ MovesSettled(p, q) /\ MovesSettled(q, p)
          \/ ~(HaveMark(p)' <=> HaveMark(q)')
    BY <1>2, <1>7, <1>8 DEF Told, Together
  <2>2. QED
    BY <1>1, <1>5, <2>1, SettledLater DEF Told
<1>10. LikeTogether'
  <2>1. ASSUME NEW R \in SUBSET (States \X States), IsBisimulation(dfa_trimmed, R),
               NEW p \in States, NEW q \in States, <<p, q>> \in R
        PROVE  Together(p, q)' /\ (HaveMark(p)' <=> HaveMark(q)')
    <3>1. Together(p, q) /\ (HaveMark(p) <=> HaveMark(q))
      BY <1>1, <1>2, <2>1 DEF LikeTogether
    <3>2. QED
      BY <1>7, <1>8, <3>1 DEF Together
  <2>2. QED
    BY <1>5, <2>1 DEF LikeTogether
<1>11. QED
  BY <1>1, <1>9, <1>10 DEF RefinementInv

LEMMA MarkIncomingRefinement ==
  ASSUME HopcroftInv, dfa_trimmed.delta # {}, RefinementInv, MarkIncoming
  PROVE  RefinementInv'
<1>1. /\ at = "mark" /\ at' = "mark" /\ incoming_left # {} /\ UNCHANGED input
      /\ UNCHANGED <<brp, unready_splitters>> /\ trp' = Mark(trp, LowestOf(incoming_left))
  BY DEF MarkIncoming
<1>2. incoming_left \subseteq Trans
  BY <1>1, Basics DEF HopcroftInv, PhaseInv, incoming_trans_idxs
<1>3. LowestOf(incoming_left) \in Trans
  <2>1. incoming_left \in SUBSET Nat
    BY <1>2, Basics
  <2>2. \E x \in incoming_left : \A y \in incoming_left : x <= y
    BY <1>1, <2>1, LeastElement
  <2>3. QED
    BY <1>2, <2>2 DEF LowestOf
<1>4. trp'.set_idx = trp.set_idx
  BY <1>1, <1>3, Basics, MarkMarks DEF Trans
<1>5. QED
  BY <1>1, <1>4, UndisturbedInv

LEMMA NextStateRefinement ==
  ASSUME RefinementInv, NextState PROVE RefinementInv'
<1>1. /\ at = "mark" /\ at' \in {"mark", "splitters"} /\ UNCHANGED input
      /\ UNCHANGED <<brp, trp, unready_splitters>>
  BY DEF NextState
<1>2. QED
  BY <1>1, UndisturbedInv

(* When a splitter is split, either half can tell the states apart that the *)
(* other does, so that it is enough to use one of them.                     *)
LEMMA SplitSplitterRefinement ==
  ASSUME HopcroftInv, dfa_trimmed.delta # {}, RefinementInv, SplitSplitter
  PROVE  RefinementInv'
<1> DEFINE s == Last(touched_splitters)
           new == trp.num_of_sets
<1>1. /\ at = "splitters" /\ at' \in {"blocks", "splitters"} /\ UNCHANGED input /\ UNCHANGED brp
  BY DEF SplitSplitter
<1>2. Told /\ LikeTogether
  BY <1>1 DEF RefinementInv
<1>3. CASE touched_splitters = << >>
  <2>1. UNCHANGED <<trp, unready_splitters>>
    BY <1>3 DEF SplitSplitter
  <2>2. QED
    BY <1>1, <2>1, UndisturbedInv
<1>4. CASE touched_splitters # << >>
  <2>1. trp' = Split(trp, s) /\ unready_splitters' = Pushed(trp'.num_of_sets)
    BY <1>4 DEF SplitSplitter
  <2>2. KeepsSets(trp, trp', s, Count) \/ SplitsOff(trp, trp', s, Count)
    <3>1. HoldsMarked(trp, Count, touched_splitters)
      BY DEF HopcroftInv, StacksInv
    <3>2. QED
      BY <1>4, <2>1, <3>1, Basics, PoppedWhenSplit
  <2> HIDE DEF s
  <2>3. CASE KeepsSets(trp, trp', s, Count)
    <3>1. trp'.set_idx = trp.set_idx /\ unready_splitters' = unready_splitters
      BY <2>1, <2>3 DEF KeepsSets, Pushed
    <3>2. QED
      BY <1>1, <3>1, UndisturbedInv
  <2>4. CASE SplitsOff(trp, trp', s, Count)
    <3>1. new \in Nat
      BY Basics, Entries
    <3>2. trp'.num_of_sets # new
      BY <2>4, <3>1 DEF SplitsOff
    <3>3. ToSet(unready_splitters') = ToSet(unready_splitters) \cup {new}
      <4>1. unready_splitters' = Append(unready_splitters, new)
        BY <2>1, <3>2 DEF Pushed
      <4>2. unready_splitters \in Seq(Sets(trp))
        BY DEF HopcroftInv, StacksInv
      <4> HIDE DEF new
      <4>3. QED
        BY <4>1, <4>2, OntoStack
    <3>4. \A t \in Trans : trp'.set_idx[t] \in {trp.set_idx[t], new}
      BY <2>4 DEF SplitsOff, Trans
    <3> HIDE DEF new
    <3>5. \A t \in Trans : IsWaiting(t) => IsWaiting(t)'
      BY <3>3, <3>4 DEF IsWaiting
    <3>6. \A t, u \in Trans :
            SameSplitter(t, u) => SameSplitter(t, u)' \/ IsWaiting(t)' \/ IsWaiting(u)'
      BY <3>3, <3>4 DEF IsWaiting, SameSplitter
    <3>7. /\ Trans' = Trans /\ transitions' = transitions /\ dfa_trimmed' = dfa_trimmed
      BY <1>1, SameInput
    <3>8. \A p, q : /\ IsMoveOf(p, q)' <=> IsMoveOf(p, q)
                    /\ Parallel(p, q)' <=> Parallel(p, q)
                    /\ SameFinality(p, q)' <=> SameFinality(p, q)
      BY <3>7 DEF IsMoveOf, Parallel, SameFinality
    <3>9. \A p, q : MovesSettled(p, q) => MovesSettled(p, q)'
      BY <3>5, <3>6, <3>7, <3>8 DEF MovesSettled
    <3>10. Told'
      BY <1>1, <1>2, <3>8, <3>9, BlocksLater DEF Told
    <3>11. LikeTogether'
      BY <1>1, <1>2, BlocksLater DEF LikeTogether
    <3>12. QED
      BY <1>1, <3>10, <3>11 DEF RefinementInv
  <2>5. QED
    BY <2>2, <2>3, <2>4
<1>5. QED
  BY <1>3, <1>4

LEMMA ConstructRefinement ==
  ASSUME HopcroftInv, dfa_trimmed.delta # {}, RefinementInv, Construct
  PROVE  RefinementInv'
<1>1. /\ at = "blocks" /\ at' = "done" /\ UNCHANGED input /\ UNCHANGED brp
      /\ touched_blocks = << >> /\ unready_splitters = << >> /\ result' = OfBlocks
  BY DEF Construct, OfBlocks, Sets
<1>2. Told /\ LikeTogether /\ Follows
  BY <1>1 DEF RefinementInv, HopcroftInv, PhaseInv
<1>3. \A p \in States : ~HaveMark(p)
  <2>1. HoldsMarked(brp, Size, << >>)
    BY <1>1 DEF HopcroftInv, StacksInv
  <2>2. QED
    BY <2>1, Basics, NothingHeld DEF HaveMark
<1>4. \A t : ~IsWaiting(t)
  BY <1>1 DEF IsWaiting, ToSet
<1>5. Stable
  <2> SUFFICES ASSUME NEW p \in States, NEW q \in States, Together(p, q)
               PROVE  /\ SameFinality(p, q)
                      /\ \A m \in dfa_trimmed.delta : m[1] = p =>
                           \E k \in dfa_trimmed.delta :
                             k[1] = q /\ k[2] = m[2] /\ Together(m[3], k[3])
    BY DEF Stable
  <2>1. SameFinality(p, q) /\ MovesSettled(p, q)
    BY <1>2, <1>3 DEF Told
  <2>2. ASSUME NEW m \in dfa_trimmed.delta, m[1] = p
        PROVE  \E k \in dfa_trimmed.delta : k[1] = q /\ k[2] = m[2] /\ Together(m[3], k[3])
    <3>1. PICK t \in Trans : transitions[t] = m
      BY MovesByIndex
    <3>2. PICK u \in Trans : IsMoveOf(u, q) /\ Parallel(t, u) /\ SameSplitter(t, u)
      BY <1>4, <2>1, <2>2, <3>1 DEF MovesSettled, IsMoveOf
    <3>3. TargetBlock(t) = TargetBlock(u)
      BY <1>2, <3>2 DEF Follows
    <3>4. transitions[u] \in dfa_trimmed.delta /\ transitions[u][1] = q
          /\ transitions[u][2] = m[2] /\ Together(m[3], transitions[u][3])
      BY <3>1, <3>2, <3>3, MovesByIndex DEF IsMoveOf, Parallel, TargetBlock, Together
    <3>5. QED
      BY <3>4
  <2>3. QED
    BY <2>1, <2>2
<1>6. Stable' /\ OfBlocks' = OfBlocks
  BY <1>1, <1>5, SameInput, BlocksLater DEF Stable, SameFinality, OfBlocks
<1>7. LikeTogether'
  BY <1>1, <1>2, BlocksLater DEF LikeTogether
<1>8. QED
  BY <1>1, <1>6, <1>7 DEF RefinementInv

LEMMA StutterRefinement ==
  ASSUME MinimizeInv, UNCHANGED vars PROVE MinimizeInv'
<1>1. /\ UNCHANGED input /\ dfa_trimmed' = dfa_trimmed /\ Trans' = Trans
      /\ UNCHANGED <<brp, trp, unready_splitters, firing, at, result>>
  BY SameInput DEF vars
<1>2. CASE dfa_trimmed.delta = {}
  BY <1>1, <1>2 DEF MinimizeInv
<1>3. CASE dfa_trimmed.delta # {}
  <2>1. RefinementInv
    BY <1>3 DEF MinimizeInv
  <2>2. \A t : (IsWaiting(t)' <=> IsWaiting(t)) /\ (IsFired(t)' <=> IsFired(t))
    BY <1>1 DEF IsWaiting, IsFired, SameSplitter
  <2>3. at' = "finals" => \A t \in Trans' : IsWaiting(t)'
    BY <1>1, <2>1, <2>2 DEF RefinementInv
  <2>4. Told' <=> Told
    BY <1>1, SettledLater, BlocksLater DEF Told
  <2>5. ToldOrFired' <=> ToldOrFired
    <3>1. \A p, q : MovesSettledOrFired(p, q)' <=> MovesSettledOrFired(p, q)
      BY <1>1, <2>2, SettledLater DEF MovesSettledOrFired
    <3>2. QED
      BY <1>1, <3>1, SettledLater, BlocksLater DEF ToldOrFired
  <2>6. MarkedByFiring' <=> MarkedByFiring
    BY <1>1, <2>2, SettledLater, BlocksLater DEF MarkedByFiring
  <2>7. LikeTogether' <=> LikeTogether
    BY <1>1, BlocksLater DEF LikeTogether
  <2>8. (Stable' <=> Stable) /\ OfBlocks' = OfBlocks
    BY <1>1, BlocksLater DEF Stable, SameFinality, OfBlocks
  <2>9. RefinementInv'
    BY <1>1, <2>1, <2>3, <2>4, <2>5, <2>6, <2>7, <2>8 DEF RefinementInv
  <2>10. QED
    BY <1>1, <1>3, <2>9 DEF MinimizeInv
<1>4. QED
  BY <1>2, <1>3

LEMMA NextRefinement ==
  HopcroftInv /\ MinimizeInv /\ [Next]_vars => MinimizeInv'
<1> SUFFICES ASSUME HopcroftInv, MinimizeInv, [Next]_vars PROVE MinimizeInv'
  OBVIOUS
<1>1. CASE UNCHANGED vars
  BY <1>1, StutterRefinement
<1>2. CASE Next /\ dfa_trimmed.delta = {}
  <2>1. at \in {"called", "done"}
    BY <1>2 DEF HopcroftInv
  <2>2. ReturnCopy
    BY <1>2, <2>1 DEF Next, Start, MarkFinal, TakeSplitter, FireBack, SplitBlock, MarkIncoming,
                      NextState, SplitSplitter, Construct
  <2>3. result' = result /\ dfa_trimmed' = dfa_trimmed
    BY <2>2 DEF ReturnCopy, input
  <2>4. QED
    BY <1>2, <2>3 DEF MinimizeInv
<1>3. CASE Next /\ dfa_trimmed.delta # {}
  <2>1. ~ReturnCopy /\ RefinementInv
    BY <1>3 DEF ReturnCopy, MinimizeInv
  <2>2. RefinementInv'
    BY <1>3, <2>1, StartRefinement, MarkFinalRefinement, TakeSplitterRefinement,
       FireBackRefinement, SplitBlockRefinement, MarkIncomingRefinement, NextStateRefinement,
       SplitSplitterRefinement, ConstructRefinement DEF Next
  <2>3. dfa_trimmed' = dfa_trimmed
    BY <1>3 DEF Next, Start, MarkFinal, TakeSplitter, FireBack, SplitBlock, MarkIncoming,
                NextState, SplitSplitter, Construct, ReturnCopy, input
  <2>4. QED
    BY <1>3, <2>2, <2>3 DEF MinimizeInv
<1>4. QED
  BY <1>1, <1>2, <1>3

(* What no splitter tells apart stays together, and what is together is     *)
(* told apart by a splitter that is left or by the marks it has made.       *)
THEOREM MinimizeInvHolds == Spec => []MinimizeInv
<1>1. QED
  BY HopcroftInvHolds, InitRefinement, NextRefinement, PTL DEF Spec

(* At the end the states of a block are alike, and states that are alike    *)
(* are in one block: the blocks are the coarsest partition of this kind, so *)
(* that no automaton of blocks of like states has fewer.                    *)
CoarsestPartition ==
  at = "done" /\ dfa_trimmed.delta # {} =>
    /\ Stable
    /\ \A R \in SUBSET (States \X States) : IsBisimulation(dfa_trimmed, R) =>
         \A p, q \in States : <<p, q>> \in R => Together(p, q)

(* Hopcroft's refinement ends with the coarsest partition, although after a *)
(* split only the smaller half is used as a splitter.                       *)
THEOREM BlocksAreCoarsest == Spec => []CoarsestPartition
<1>1. MinimizeInv => CoarsestPartition
  BY DEF MinimizeInv, RefinementInv, LikeTogether, CoarsestPartition
<1>2. QED
  BY <1>1, MinimizeInvHolds, PTL

------------------------------------------------------------------------------
(* The words of a bounded length that are accepted from a set of states.    *)

Language(A, S, Symbol, n) == {w \in WordsUpTo(Symbol, n) : Accepts(From(A, S), w)}
Same(A, S, T, Symbol, n) == Language(A, S, Symbol, n) = Language(A, T, Symbol, n)
Final(A, S) == S \cap A.final # {}

Longer(a, w) == [i \in 1 .. Len(w) + 1 |-> IF i = 1 THEN a ELSE w[i - 1]]

LEMMA WordsAreShort ==
  ASSUME NEW Symbol, NEW n \in Nat, NEW w
  PROVE  w \in WordsUpTo(Symbol, n) <=> w \in Seq(Symbol) /\ Len(w) \in 0 .. n
<1>1. \A k \in Nat : w \in [1 .. k -> Symbol] <=> w \in Seq(Symbol) /\ Len(w) = k
  OBVIOUS
<1>2. w \in Seq(Symbol) => Len(w) \in Nat
  OBVIOUS
<1>3. QED
  BY <1>1, <1>2 DEF WordsUpTo

LEMMA LongerIsPrefixed ==
  ASSUME NEW Symbol, NEW a \in Symbol, NEW w \in Seq(Symbol)
  PROVE  /\ Longer(a, w) \in Seq(Symbol) /\ Len(Longer(a, w)) = Len(w) + 1
         /\ IsPrefixedBy(a, w, Longer(a, w))
<1>1. PICK k \in Nat : k = Len(w) /\ \A i \in 1 .. k : w[i] \in Symbol
  OBVIOUS
<1> DEFINE l == [i \in 1 .. k + 1 |-> IF i = 1 THEN a ELSE w[i - 1]]
<1>2. \A i \in 1 .. k + 1 : i # 1 => i - 1 \in 1 .. k
  BY <1>1
<1>3. l \in [1 .. k + 1 -> Symbol]
  BY <1>1, <1>2
<1>4. l \in Seq(Symbol) /\ Len(l) = k + 1
  <2> HIDE DEF l
  <2>1. QED
    BY <1>1, <1>3
<1>5. l[1] = a /\ \A i \in 1 .. k : l[i + 1] = w[i]
  <2>1. 1 \in 1 .. k + 1 /\ \A i \in 1 .. k : i + 1 \in 1 .. k + 1 /\ i + 1 # 1 /\ (i + 1) - 1 = i
    BY <1>1
  <2>2. QED
    BY <2>1
<1>6. Longer(a, w) = l
  BY <1>1 DEF Longer
<1> HIDE DEF l
<1>7. QED
  BY <1>1, <1>4, <1>5, <1>6 DEF IsPrefixedBy

(* A word is empty or a letter before another word.                         *)
LEMMA WordIsLonger ==
  ASSUME NEW Symbol, NEW w \in Seq(Symbol), w # << >>
  PROVE  \E a \in Symbol : \E v \in Seq(Symbol) : w = Longer(a, v) /\ Len(w) = Len(v) + 1
<1>1. PICK k \in Nat : k = Len(w) /\ k > 0 /\ \A i \in 1 .. k : w[i] \in Symbol
  OBVIOUS
<1> DEFINE v == [i \in 1 .. k - 1 |-> w[i + 1]]
<1>2. \A i \in 1 .. k - 1 : i + 1 \in 1 .. k
  BY <1>1
<1>3. v \in [1 .. k - 1 -> Symbol] /\ \A i \in 1 .. k - 1 : v[i] = w[i + 1]
  BY <1>1, <1>2
<1> HIDE DEF v
<1>4. k - 1 \in Nat
  BY <1>1
<1>5. v \in Seq(Symbol) /\ Len(v) = k - 1
  BY <1>3, <1>4
<1>6. Longer(w[1], v) = [i \in 1 .. k |-> IF i = 1 THEN w[1] ELSE v[i - 1]]
  BY <1>1, <1>5 DEF Longer
<1>7. \A i \in 1 .. k : (IF i = 1 THEN w[1] ELSE v[i - 1]) = w[i]
  <2> TAKE i \in 1 .. k
  <2>1. i # 1 => i - 1 \in 1 .. k - 1 /\ (i - 1) + 1 = i
    BY <1>1
  <2>2. QED
    BY <1>3, <2>1
<1>8. w = [i \in 1 .. k |-> w[i]]
  BY <1>1
<1>9. w = Longer(w[1], v)
  BY <1>6, <1>7, <1>8
<1>10. 1 \in 1 .. k
  BY <1>1
<1>11. QED
  BY <1>1, <1>5, <1>9, <1>10

LEMMA AcceptsEmpty ==
  ASSUME NEW A, NEW S \in SUBSET A.states
  PROVE  Accepts(From(A, S), << >>) <=> Final(A, S)
<1>1. From(A, S).initial = S /\ From(A, S).states = A.states /\ From(A, S).final = A.final
  BY DEF From
<1>2. Read(From(A, S), << >>) = S
  BY <1>1, ReadEmpty
<1>3. QED
  BY <1>1, <1>2 DEF Accepts, Final

LEMMA AcceptsLonger ==
  ASSUME NEW A, NEW S \in SUBSET A.states, NEW Symbol, NEW a \in Symbol, NEW w \in Seq(Symbol)
  PROVE  Accepts(From(A, S), Longer(a, w)) <=> Accepts(From(A, Post(A, S, a)), w)
<1>1. IsPrefixedBy(a, w, Longer(a, w))
  BY LongerIsPrefixed
<1>2. Read(From(A, S), Longer(a, w)) = Read(From(A, Post(A, S, a)), w)
  BY <1>1, ReadPrefixed
<1>3. From(A, S).final = From(A, Post(A, S, a)).final
  BY DEF From
<1>4. QED
  BY <1>2, <1>3 DEF Accepts

(* Two sets of states agree on longer words if they agree on the empty one  *)
(* and what they move to agrees on shorter ones.                            *)
LEMMA SameByMoves ==
  ASSUME NEW A, NEW S \in SUBSET A.states, NEW T \in SUBSET A.states, NEW Symbol, NEW n \in Nat
  PROVE  /\ Same(A, S, T, Symbol, n) => (Final(A, S) <=> Final(A, T))
         /\ Same(A, S, T, Symbol, 0) <=> (Final(A, S) <=> Final(A, T))
         /\ Same(A, S, T, Symbol, n + 1) <=>
              /\ Final(A, S) <=> Final(A, T)
              /\ \A a \in Symbol : Same(A, Post(A, S, a), Post(A, T, a), Symbol, n)
<1>1. \A k \in Nat : Same(A, S, T, Symbol, k) <=>
        \A w \in WordsUpTo(Symbol, k) : Accepts(From(A, S), w) <=> Accepts(From(A, T), w)
  BY DEF Same, Language
<1>2. \A k \in Nat : << >> \in WordsUpTo(Symbol, k)
  <2> TAKE k \in Nat
  <2>1. << >> \in Seq(Symbol) /\ Len(<< >>) \in 0 .. k
    OBVIOUS
  <2>2. QED
    BY <2>1, WordsAreShort
<1>3. (Accepts(From(A, S), << >>) <=> Accepts(From(A, T), << >>)) <=> (Final(A, S) <=> Final(A, T))
  BY AcceptsEmpty
<1>4. \A k \in Nat : Same(A, S, T, Symbol, k) => (Final(A, S) <=> Final(A, T))
  BY <1>1, <1>2, <1>3
<1>5. \A w \in WordsUpTo(Symbol, 0) : w = << >>
  <2> TAKE w \in WordsUpTo(Symbol, 0)
  <2>1. w \in Seq(Symbol) /\ Len(w) = 0
    BY WordsAreShort
  <2>2. QED
    BY <2>1
<1>6. ASSUME Same(A, S, T, Symbol, n + 1), NEW a \in Symbol, NEW w \in WordsUpTo(Symbol, n)
      PROVE  Accepts(From(A, Post(A, S, a)), w) <=> Accepts(From(A, Post(A, T, a)), w)
  <2>1. w \in Seq(Symbol) /\ Len(w) \in 0 .. n /\ n + 1 \in Nat
    BY WordsAreShort
  <2>2. Longer(a, w) \in Seq(Symbol) /\ Len(Longer(a, w)) \in 0 .. n + 1
    BY <2>1, LongerIsPrefixed
  <2>3. Longer(a, w) \in WordsUpTo(Symbol, n + 1)
    BY <2>1, <2>2, WordsAreShort
  <2>4. QED
    BY <1>1, <1>6, <2>1, <2>3, AcceptsLonger
<1>7. ASSUME Final(A, S) <=> Final(A, T),
             \A a \in Symbol : Same(A, Post(A, S, a), Post(A, T, a), Symbol, n),
             NEW w \in WordsUpTo(Symbol, n + 1)
      PROVE  Accepts(From(A, S), w) <=> Accepts(From(A, T), w)
  <2>1. w \in Seq(Symbol) /\ Len(w) \in 0 .. n + 1
    BY WordsAreShort
  <2>2. CASE w = << >>
    BY <1>3, <1>7, <2>2
  <2>3. CASE w # << >>
    <3>1. PICK a \in Symbol, v \in Seq(Symbol) : w = Longer(a, v) /\ Len(w) = Len(v) + 1
      BY <2>1, <2>3, WordIsLonger
    <3>2. Len(v) \in 0 .. n
      BY <2>1, <3>1
    <3>3. v \in WordsUpTo(Symbol, n)
      BY <3>2, WordsAreShort
    <3>4. Accepts(From(A, Post(A, S, a)), v) <=> Accepts(From(A, Post(A, T, a)), v)
      BY <1>7, <3>3 DEF Same, Language
    <3>5. QED
      BY <3>1, <3>4, AcceptsLonger
  <2>4. QED
    BY <2>2, <2>3
<1>8. Same(A, S, T, Symbol, n + 1) =>
        \A a \in Symbol : Same(A, Post(A, S, a), Post(A, T, a), Symbol, n)
  BY <1>6 DEF Same, Language
<1>9. n + 1 \in Nat /\ 0 \in Nat
  OBVIOUS
<1>10. QED
  BY <1>1, <1>3, <1>4, <1>5, <1>7, <1>8, <1>9

------------------------------------------------------------------------------
(* Words as long as there are states tell apart what any word does: a       *)
(* letter more must tell apart two classes of states, or no longer word     *)
(* does.                                                                    *)

(* A deterministic automaton is in one state or in none.                    *)
Singles(A) == {{q} : q \in A.states} \cup {{}}
Classes(A, Symbol, n) == {Language(A, S, Symbol, n) : S \in Singles(A)}
Settles(A, Symbol, n) ==
  \A S, T \in Singles(A) : Same(A, S, T, Symbol, n) => Same(A, S, T, Symbol, n + 1)

IsDeterministic(A, Symbol) ==
  /\ IsAutomaton(A, Symbol) /\ IsFiniteSet(A.states)
  /\ \A m, k \in A.delta : m[1] = k[1] /\ m[2] = k[2] => m = k

LEMMA SinglesAreClosed ==
  ASSUME NEW A, NEW Symbol, IsDeterministic(A, Symbol), NEW S \in Singles(A), NEW a
  PROVE  S \in SUBSET A.states /\ Post(A, S, a) \in Singles(A)
<1>1. \A m \in A.delta : m[1] \in A.states /\ m[3] \in A.states /\ m = <<m[1], m[2], m[3]>>
  BY DEF IsDeterministic, IsAutomaton
<1>2. \A p, t, u : <<p, a, t>> \in A.delta /\ <<p, a, u>> \in A.delta => t = u
  <2> SUFFICES ASSUME NEW p, NEW t, NEW u, <<p, a, t>> \in A.delta, <<p, a, u>> \in A.delta
               PROVE  t = u
    OBVIOUS
  <2>1. <<p, a, t>>[1] = <<p, a, u>>[1] /\ <<p, a, t>>[2] = <<p, a, u>>[2]
    OBVIOUS
  <2>2. <<p, a, t>> = <<p, a, u>>
    BY <2>1 DEF IsDeterministic
  <2>3. QED
    BY <2>2
<1>3. CASE S = {}
  BY <1>3 DEF Post, Singles
<1>4. CASE S # {}
  <2>1. PICK p \in A.states : S = {p}
    BY <1>4 DEF Singles
  <2>2. Post(A, S, a) = {t \in A.states : <<p, a, t>> \in A.delta}
    BY <2>1 DEF Post
  <2>3. \A t, u \in Post(A, S, a) : t = u
    BY <1>2, <2>2
  <2>4. Post(A, S, a) = {} \/ \E t \in A.states : Post(A, S, a) = {t}
    BY <2>2, <2>3
  <2>5. QED
    BY <2>1, <2>4 DEF Singles
<1>5. QED
  BY <1>3, <1>4

LEMMA SinglesAreFew ==
  ASSUME NEW A, NEW Symbol, IsDeterministic(A, Symbol)
  PROVE  IsFiniteSet(Singles(A)) /\ Cardinality(Singles(A)) <= Cardinality(A.states) + 1
<1> DEFINE Ones == {{q} : q \in A.states}
           f == [q \in A.states |-> {q}]
<1>1. IsFiniteSet(A.states) /\ Cardinality(A.states) \in Nat
  BY FS_CardinalityType DEF IsDeterministic
<1>2. f \in Surjection(A.states, Ones)
  BY DEF Surjection
<1>3. IsFiniteSet(Ones) /\ Cardinality(Ones) <= Cardinality(A.states)
  BY <1>1, <1>2, FS_Surjection
<1>4. Cardinality(Ones) \in Nat
  BY <1>3, FS_CardinalityType
<1>5. PICK none : none = {}
  OBVIOUS
<1>6. Singles(A) = Ones \cup {none}
  BY <1>5 DEF Singles
<1> HIDE DEF Ones
<1>7. /\ IsFiniteSet(Ones \cup {none})
      /\ Cardinality(Ones \cup {none}) \in {Cardinality(Ones), Cardinality(Ones) + 1}
  BY <1>3, FS_AddElement
<1>8. QED
  BY <1>1, <1>3, <1>4, <1>6, <1>7

LEMMA ClassesFinite ==
  ASSUME NEW A, NEW Symbol, IsDeterministic(A, Symbol), NEW n
  PROVE  /\ IsFiniteSet(Classes(A, Symbol, n))
         /\ Cardinality(Classes(A, Symbol, n)) <= Cardinality(Singles(A))
<1> DEFINE f == [S \in Singles(A) |-> Language(A, S, Symbol, n)]
           C == Classes(A, Symbol, n)
<1>1. f \in Surjection(Singles(A), C)
  BY DEF Surjection, Classes
<1>2. IsFiniteSet(Singles(A))
  BY SinglesAreFew
<1> HIDE DEF f, C
<1>3. IsFiniteSet(C) /\ Cardinality(C) <= Cardinality(Singles(A))
  BY <1>1, <1>2, FS_Surjection
<1>4. QED
  BY <1>3 DEF C

LEMMA ClassesShrink ==
  ASSUME NEW A, NEW Symbol, IsDeterministic(A, Symbol), NEW n \in Nat
  PROVE  /\ Cardinality(Classes(A, Symbol, n)) \in Nat
         /\ Cardinality(Classes(A, Symbol, n)) <= Cardinality(A.states) + 1
         /\ Cardinality(Classes(A, Symbol, n)) <= Cardinality(Classes(A, Symbol, n + 1))
         /\ Cardinality(Classes(A, Symbol, n)) = Cardinality(Classes(A, Symbol, n + 1))
              => Settles(A, Symbol, n)
<1>1. IsFiniteSet(A.states) /\ Cardinality(A.states) \in Nat
  BY FS_CardinalityType DEF IsDeterministic
<1>2. IsFiniteSet(Singles(A)) /\ Cardinality(Singles(A)) <= Cardinality(A.states) + 1
  BY SinglesAreFew
<1>3. \A k \in Nat : /\ IsFiniteSet(Classes(A, Symbol, k))
                     /\ Cardinality(Classes(A, Symbol, k)) \in Nat
                     /\ Cardinality(Classes(A, Symbol, k)) <= Cardinality(Singles(A))
  BY ClassesFinite, FS_CardinalityType
<1> DEFINE C == Classes(A, Symbol, n)
           D == Classes(A, Symbol, n + 1)
           Shorter(L) == L \cap WordsUpTo(Symbol, n)
           g == [L \in D |-> Shorter(L)]
<1>4. WordsUpTo(Symbol, n) \subseteq WordsUpTo(Symbol, n + 1)
  <2>1. \A w : w \in WordsUpTo(Symbol, n) => w \in Seq(Symbol) /\ Len(w) \in 0 .. n + 1
    BY WordsAreShort
  <2>2. n + 1 \in Nat
    OBVIOUS
  <2>3. QED
    BY <2>1, <2>2, WordsAreShort
<1>5. \A S : Language(A, S, Symbol, n) = Shorter(Language(A, S, Symbol, n + 1))
  BY <1>4 DEF Language
<1>6. g \in Surjection(D, C)
  <2>1. \A L \in D : g[L] \in C
    BY <1>5 DEF Classes
  <2>2. \A K \in C : \E L \in D : g[L] = K
    BY <1>5 DEF Classes
  <2> HIDE DEF C, D
  <2>3. QED
    BY <2>1, <2>2 DEF Surjection
<1>7. n + 1 \in Nat
  OBVIOUS
<1>8. IsFiniteSet(D) /\ Cardinality(D) \in Nat /\ Cardinality(C) \in Nat
  BY <1>3, <1>7
<1>9. ASSUME Cardinality(C) = Cardinality(D) PROVE Settles(A, Symbol, n)
  <2>1. g \in Injection(D, C)
    <3> HIDE DEF C, D, g
    <3>1. QED
      BY <1>6, <1>8, <1>9, FS_Surjection
  <2>2. \A L, K \in D : Shorter(L) = Shorter(K) => L = K
    <3> HIDE DEF C, D, Shorter
    <3>1. \A L, K \in D : g[L] = g[K] => L = K
      BY <2>1, <1>6 DEF Injection, IsInjective, Surjection
    <3>2. QED
      BY <3>1
  <2>3. \A S \in Singles(A) : Language(A, S, Symbol, n + 1) \in D
    BY DEF Classes
  <2>4. QED
    BY <1>5, <2>2, <2>3 DEF Settles, Same
<1>10. Cardinality(C) <= Cardinality(D)
  <2> HIDE DEF C, D, g
  <2>1. QED
    BY <1>6, <1>8, FS_Surjection
<1>11. Cardinality(Singles(A)) \in Nat
  BY <1>2, FS_CardinalityType
<1>12. Cardinality(C) <= Cardinality(Singles(A))
  BY <1>3
<1> HIDE DEF C, D
<1>13. Cardinality(C) <= Cardinality(A.states) + 1
  BY <1>1, <1>2, <1>8, <1>11, <1>12
<1>14. QED
  BY <1>8, <1>9, <1>10, <1>13 DEF C, D

LEMMA SettlesLater ==
  ASSUME NEW A, NEW Symbol, IsDeterministic(A, Symbol), NEW n \in Nat, Settles(A, Symbol, n)
  PROVE  Settles(A, Symbol, n + 1)
<1> SUFFICES ASSUME NEW S \in Singles(A), NEW T \in Singles(A), Same(A, S, T, Symbol, n + 1)
             PROVE  Same(A, S, T, Symbol, (n + 1) + 1)
  BY DEF Settles
<1>1. S \in SUBSET A.states /\ T \in SUBSET A.states /\ n + 1 \in Nat
  BY SinglesAreClosed
<1>2. /\ Final(A, S) <=> Final(A, T)
      /\ \A a \in Symbol : Same(A, Post(A, S, a), Post(A, T, a), Symbol, n)
  BY <1>1, SameByMoves
<1>3. \A a \in Symbol : Same(A, Post(A, S, a), Post(A, T, a), Symbol, n + 1)
  BY <1>2, SinglesAreClosed DEF Settles
<1>4. QED
  BY <1>1, <1>2, <1>3, SameByMoves

LEMMA FS_Pair ==
  ASSUME NEW x, NEW y, x # y
  PROVE  IsFiniteSet({x, y}) /\ Cardinality({x, y}) = 2
<1>1. IsFiniteSet({x}) /\ Cardinality({x}) = 1 /\ y \notin {x}
  BY FS_Singleton
<1>2. IsFiniteSet({x} \cup {y}) /\ Cardinality({x} \cup {y}) = 1 + 1
  BY <1>1, FS_AddElement
<1>3. {x} \cup {y} = {x, y}
  OBVIOUS
<1>4. QED
  BY <1>2, <1>3

LEMMA SettlesInTime ==
  ASSUME NEW A, NEW Symbol, IsDeterministic(A, Symbol), A.final # {}, A.states # {}
  PROVE  /\ Cardinality(A.states) - 1 \in Nat
         /\ Settles(A, Symbol, Cardinality(A.states) - 1)
<1> DEFINE Card(k) == Cardinality(Classes(A, Symbol, k))
           P == {k \in Nat : Settles(A, Symbol, k) \/ Card(k + 1) >= k + 3}
<1>1. PICK n \in Nat : n = Cardinality(A.states) /\ n > 0
  BY FS_CardinalityType, FS_EmptySet DEF IsDeterministic
<1>2. \A k \in Nat : /\ Card(k) \in Nat /\ Card(k + 1) \in Nat
                     /\ Card(k) <= n + 1 /\ Card(k + 1) <= n + 1
                     /\ Settles(A, Symbol, k) \/ Card(k + 1) >= Card(k) + 1
  <2> TAKE k \in Nat
  <2>1. k + 1 \in Nat
    OBVIOUS
  <2>2. Card(k) \in Nat /\ Card(k) <= n + 1 /\ Card(k + 1) \in Nat /\ Card(k + 1) <= n + 1
    BY <1>1, <2>1, ClassesShrink
  <2>3. Card(k) <= Card(k + 1) /\ (Card(k) = Card(k + 1) => Settles(A, Symbol, k))
    BY ClassesShrink
  <2> HIDE DEF Card
  <2>4. QED
    BY <2>2, <2>3
<1>3. Card(0) >= 2
  <2> DEFINE C == Classes(A, Symbol, 0)
  <2>1. PICK q \in A.final : q \in A.states
    BY DEF IsDeterministic, IsAutomaton
  <2>2. {q} \in Singles(A) /\ {} \in Singles(A) /\ {q} \in SUBSET A.states /\ {} \in SUBSET A.states
    BY <2>1 DEF Singles
  <2>3. Final(A, {q}) /\ ~Final(A, {})
    BY DEF Final
  <2>4. ~Same(A, {q}, {}, Symbol, 0)
    BY <2>2, <2>3, SameByMoves
  <2>5. PICK x, y \in C : x # y
    BY <2>2, <2>4 DEF Same, Classes
  <2>6. IsFiniteSet({x, y}) /\ Cardinality({x, y}) = 2
    BY <2>5, FS_Pair
  <2>7. IsFiniteSet(C)
    BY ClassesFinite
  <2> HIDE DEF C
  <2>8. Cardinality({x, y}) <= Cardinality(C)
    BY <2>7, FS_Subset
  <2>9. QED
    BY <2>6, <2>8 DEF C
<1>4. 0 \in P
  <2>1. Card(0) \in Nat /\ Card(0 + 1) \in Nat
        /\ (Settles(A, Symbol, 0) \/ Card(0 + 1) >= Card(0) + 1)
    BY <1>2
  <2> HIDE DEF Card
  <2>2. QED
    BY <1>3, <2>1
<1>5. ASSUME NEW k \in Nat, k \in P PROVE k + 1 \in P
  <2>1. k + 1 \in Nat
    OBVIOUS
  <2>2. CASE Settles(A, Symbol, k)
    BY <2>1, <2>2, SettlesLater
  <2>3. CASE Card(k + 1) >= k + 3
    <3>1. /\ Card(k + 1) \in Nat /\ Card((k + 1) + 1) \in Nat
          /\ Settles(A, Symbol, k + 1) \/ Card((k + 1) + 1) >= Card(k + 1) + 1
      BY <1>2, <2>1
    <3> HIDE DEF Card
    <3>2. QED
      BY <2>1, <2>3, <3>1
  <2>4. QED
    BY <1>5, <2>2, <2>3
<1>6. n - 1 \in Nat
  BY <1>1
<1>7. n - 1 \in P
  <2> HIDE DEF P
  <2>1. QED
    BY <1>4, <1>5, <1>6, SetInduction
<1>8. ~(Card((n - 1) + 1) >= (n - 1) + 3)
  <2>1. Card((n - 1) + 1) \in Nat /\ Card((n - 1) + 1) <= n + 1
    BY <1>2, <1>6
  <2> HIDE DEF Card
  <2>2. QED
    BY <2>1
<1>9. Settles(A, Symbol, n - 1)
  <2> HIDE DEF Card
  <2>1. QED
    BY <1>7, <1>8
<1>10. QED
  BY <1>1, <1>6, <1>9

(* Sets that agree on all words as long as there are states agree after     *)
(* every move.                                                              *)
LEMMA SameAfterMoves ==
  ASSUME NEW A, NEW Symbol, IsDeterministic(A, Symbol), A.final # {}, A.states # {},
         NEW S \in Singles(A), NEW T \in Singles(A), NEW a \in Symbol,
         Same(A, S, T, Symbol, Cardinality(A.states))
  PROVE  Same(A, Post(A, S, a), Post(A, T, a), Symbol, Cardinality(A.states))
<1>1. PICK n \in Nat : Cardinality(A.states) = n + 1 /\ Settles(A, Symbol, n)
  <2>1. PICK n \in Nat : n = Cardinality(A.states) - 1 /\ Settles(A, Symbol, n)
    BY SettlesInTime
  <2>2. Cardinality(A.states) \in Nat
    BY FS_CardinalityType DEF IsDeterministic
  <2>3. QED
    BY <2>1, <2>2
<1>2. S \in SUBSET A.states /\ T \in SUBSET A.states
      /\ Post(A, S, a) \in Singles(A) /\ Post(A, T, a) \in Singles(A)
  BY SinglesAreClosed
<1>3. Same(A, Post(A, S, a), Post(A, T, a), Symbol, n)
  <2>1. Same(A, S, T, Symbol, n + 1)
    BY <1>1
  <2>2. QED
    BY <1>2, <2>1, SameByMoves
<1>4. QED
  BY <1>1, <1>2, <1>3 DEF Settles

------------------------------------------------------------------------------
(* States that accept the same words are alike.                             *)

SymbolsOf(A) == {m[2] : m \in A.delta}
Agreeing(A) ==
  {pair \in A.states \X A.states :
     Same(A, {pair[1]}, {pair[2]}, SymbolsOf(A), Cardinality(A.states))}

LEMMA TrimmedIsDeterministic ==
  ASSUME NEW A, IsTrimmedDfa(A)
  PROVE  /\ IsDeterministic(A, SymbolsOf(A))
         /\ \A m \in A.delta : /\ m = <<m[1], m[2], m[3]>> /\ m[2] \in SymbolsOf(A)
                               /\ m[1] \in A.states /\ m[3] \in A.states
<1>1. \A m \in A.delta : /\ m = <<m[1], m[2], m[3]>> /\ m[2] \in SymbolsOf(A)
                         /\ m[1] \in A.states /\ m[3] \in A.states
  BY DEF IsTrimmedDfa, IsAutomaton, SymbolsOf
<1>2. A.delta \subseteq A.states \X SymbolsOf(A) \X A.states
  <2> SUFFICES ASSUME NEW m \in A.delta PROVE m \in A.states \X SymbolsOf(A) \X A.states
    OBVIOUS
  <2>1. <<m[1], m[2], m[3]>> \in A.states \X SymbolsOf(A) \X A.states
    BY <1>1
  <2>2. QED
    BY <1>1, <2>1
<1>3. A.initial \subseteq A.states /\ A.final \subseteq A.states
  BY DEF IsTrimmedDfa, IsAutomaton
<1>4. IsFiniteSet(A.states)
  <2>1. PICK n \in Nat : A.states = 0 .. n - 1
    BY StatesAreCounted DEF Elements
  <2>2. QED
    BY <2>1, FS_Interval
<1>5. \A m, k \in A.delta : m[1] = k[1] /\ m[2] = k[2] => m = k
  BY DEF IsTrimmedDfa
<1>6. QED
  BY <1>1, <1>2, <1>3, <1>4, <1>5 DEF IsDeterministic, IsAutomaton

LEMMA MoveFromOne ==
  ASSUME NEW A, IsTrimmedDfa(A), NEW m \in A.delta
  PROVE  Post(A, {m[1]}, m[2]) = {m[3]}
<1>1. /\ m = <<m[1], m[2], m[3]>> /\ m[1] \in A.states /\ m[3] \in A.states
  BY TrimmedIsDeterministic
<1>2. ASSUME NEW t, <<m[1], m[2], t>> \in A.delta PROVE t = m[3]
  <2>1. <<m[1], m[2], t>>[1] = m[1] /\ <<m[1], m[2], t>>[2] = m[2]
    OBVIOUS
  <2>2. <<m[1], m[2], t>> = m
    BY <1>2, <2>1 DEF IsTrimmedDfa
  <2>3. QED
    BY <2>2
<1>3. QED
  BY <1>1, <1>2 DEF Post

(* Every state accepts some word, because it is useful.                     *)
LEMMA UsefulAccepts ==
  ASSUME NEW A, IsTrimmedDfa(A), A.delta # {}, NEW p \in A.states
  PROVE  ~Same(A, {p}, {}, SymbolsOf(A), Cardinality(A.states))
<1> DEFINE n == Cardinality(A.states)
           U == {q \in A.states : ~Same(A, {q}, {}, SymbolsOf(A), n)}
<1>1. /\ IsDeterministic(A, SymbolsOf(A)) /\ A.states # {} /\ A.final # {} /\ n \in Nat
  BY TrimmedIsDeterministic, StatesAreCounted
<1>2. A.final \subseteq U
  <2> SUFFICES ASSUME NEW q \in A.final PROVE q \in A.states /\ ~Same(A, {q}, {}, SymbolsOf(A), n)
    OBVIOUS
  <2>1. q \in A.states
    BY DEF IsTrimmedDfa, IsAutomaton
  <2>2. {q} \in SUBSET A.states /\ {} \in SUBSET A.states /\ Final(A, {q}) /\ ~Final(A, {})
    BY <2>1 DEF Final
  <2> HIDE DEF n
  <2>3. QED
    BY <1>1, <2>1, <2>2, SameByMoves
<1>3. ASSUME NEW m \in A.delta, m[3] \in U PROVE m[1] \in U
  <2>1. /\ m[1] \in A.states /\ m[2] \in SymbolsOf(A)
        /\ {m[1]} \in Singles(A) /\ {} \in Singles(A)
    BY TrimmedIsDeterministic DEF Singles
  <2>2. Post(A, {m[1]}, m[2]) = {m[3]} /\ Post(A, {}, m[2]) = {}
    BY MoveFromOne DEF Post
  <2>3. ASSUME Same(A, {m[1]}, {}, SymbolsOf(A), n) PROVE FALSE
    <3>1. Same(A, Post(A, {m[1]}, m[2]), Post(A, {}, m[2]), SymbolsOf(A), n)
      BY <1>1, <2>1, <2>3, SameAfterMoves
    <3>2. QED
      BY <1>3, <2>2, <3>1
  <2>4. QED
    BY <2>1, <2>3
<1>4. U = A.states
  BY <1>2, <1>3 DEF IsTrimmedDfa
<1>5. QED
  BY <1>4

LEMMA AgreeingIsBisimulation ==
  ASSUME NEW A, IsTrimmedDfa(A), A.delta # {}
  PROVE  IsBisimulation(A, Agreeing(A))
<1> DEFINE n == Cardinality(A.states)
           L == SymbolsOf(A)
           R == Agreeing(A)
<1>1. /\ IsDeterministic(A, L) /\ A.states # {} /\ A.final # {} /\ n \in Nat
  BY TrimmedIsDeterministic, StatesAreCounted
<1>2. \A p, q \in A.states : <<p, q>> \in R <=> Same(A, {p}, {q}, L, n)
  BY DEF Agreeing
<1>3. R \subseteq A.states \X A.states
  BY DEF Agreeing
<1> HIDE DEF n, L, R
<1>4. ASSUME NEW p \in A.states, NEW q \in A.states, <<p, q>> \in R
      PROVE  /\ <<q, p>> \in R
             /\ p \in A.final <=> q \in A.final
             /\ \A m \in A.delta : m[1] = p =>
                  \E k \in A.delta : k[1] = q /\ k[2] = m[2] /\ <<m[3], k[3]>> \in R
  <2>1. Same(A, {p}, {q}, L, n)
    BY <1>2, <1>4
  <2>2. <<q, p>> \in R
    BY <1>2, <2>1 DEF Same
  <2>3. p \in A.final <=> q \in A.final
    <3>1. {p} \in SUBSET A.states /\ {q} \in SUBSET A.states
      OBVIOUS
    <3>2. Final(A, {p}) <=> Final(A, {q})
      BY <1>1, <2>1, <3>1, SameByMoves
    <3>3. QED
      BY <3>2 DEF Final
  <2>4. ASSUME NEW m \in A.delta, m[1] = p
        PROVE  \E k \in A.delta : k[1] = q /\ k[2] = m[2] /\ <<m[3], k[3]>> \in R
    <3>1. m[2] \in L /\ m[3] \in A.states /\ Post(A, {p}, m[2]) = {m[3]}
      BY <2>4, TrimmedIsDeterministic, MoveFromOne DEF L
    <3>2. {p} \in Singles(A) /\ {q} \in Singles(A)
      BY DEF Singles
    <3>3. Same(A, {m[3]}, Post(A, {q}, m[2]), L, n)
      <4>1. Same(A, Post(A, {p}, m[2]), Post(A, {q}, m[2]), L, n)
        BY <1>1, <2>1, <3>1, <3>2, SameAfterMoves DEF n
      <4>2. QED
        BY <3>1, <4>1
    <3>4. Post(A, {q}, m[2]) # {}
      BY <3>1, <3>3, UsefulAccepts DEF n, L
    <3>5. PICK t \in A.states : <<q, m[2], t>> \in A.delta
      BY <3>4 DEF Post
    <3>6. PICK k \in A.delta : k = <<q, m[2], t>>
      BY <3>5
    <3>7. k[1] = q /\ k[2] = m[2] /\ k[3] = t
      BY <3>6
    <3>8. Post(A, {q}, m[2]) = {k[3]}
      BY <3>7, MoveFromOne
    <3>9. <<m[3], k[3]>> \in R
      BY <1>2, <3>1, <3>3, <3>5, <3>7, <3>8
    <3>10. QED
      BY <3>7, <3>9
  <2>5. QED
    BY <2>2, <2>3, <2>4
<1>5. IsBisimulation(A, R)
  BY <1>3, <1>4, Zenon DEF IsBisimulation
<1>6. QED
  BY <1>5 DEF R

------------------------------------------------------------------------------
(* The automaton of the blocks accepts what the given one does.             *)

InBlocks(S) == {brp.set_idx[s] : s \in S}

(* What Stable says of the first state of a block, which stands for it.     *)
LEMMA FirstStandsForBlock ==
  ASSUME HopcroftInv, dfa_trimmed.delta # {}
  PROVE  /\ \A b \in Sets(brp) : get_first(brp, b) \in States /\ brp.set_idx[get_first(brp, b)] = b
         /\ \A s \in States : /\ brp.set_idx[s] \in Sets(brp)
                              /\ Together(s, get_first(brp, brp.set_idx[s]))
                              /\ Together(get_first(brp, brp.set_idx[s]), s)
<1>1. \A b \in Sets(brp) : get_first(brp, b) \in States /\ brp.set_idx[get_first(brp, b)] = b
  BY Basics, FirstOfSet DEF States
<1>2. \A s \in States : brp.set_idx[s] \in Sets(brp)
  BY Basics, Entries DEF States
<1>3. QED
  BY <1>1, <1>2 DEF Together

LEMMA BlockMoves ==
  ASSUME HopcroftInv, dfa_trimmed.delta # {}
  PROVE  \A b, a, c : <<b, a, c>> \in OfBlocks.delta <=>
           /\ b \in Sets(brp)
           /\ \E m \in dfa_trimmed.delta :
                m[1] = get_first(brp, b) /\ m[2] = a /\ brp.set_idx[m[3]] = c
<1>1. OfBlocks.delta = UNION {{<<b, m[2], brp.set_idx[m[3]]>> :
                                 m \in {k \in dfa_trimmed.delta : k[1] = get_first(brp, b)}} :
                                b \in Sets(brp)}
  BY DEF OfBlocks
<1> TAKE b, a, c
<1>2. ASSUME <<b, a, c>> \in OfBlocks.delta
      PROVE  /\ b \in Sets(brp)
             /\ \E m \in dfa_trimmed.delta :
                  m[1] = get_first(brp, b) /\ m[2] = a /\ brp.set_idx[m[3]] = c
  <2>1. PICK d \in Sets(brp) :
          <<b, a, c>> \in {<<d, m[2], brp.set_idx[m[3]]>> :
                              m \in {k \in dfa_trimmed.delta : k[1] = get_first(brp, d)}}
    BY <1>1, <1>2
  <2>2. PICK m \in dfa_trimmed.delta :
          m[1] = get_first(brp, d) /\ <<b, a, c>> = <<d, m[2], brp.set_idx[m[3]]>>
    BY <2>1
  <2>3. b = d /\ a = m[2] /\ c = brp.set_idx[m[3]]
    BY <2>2
  <2>4. QED
    BY <2>2, <2>3
<1>3. ASSUME NEW m \in dfa_trimmed.delta, b \in Sets(brp),
             m[1] = get_first(brp, b), m[2] = a, brp.set_idx[m[3]] = c
      PROVE  <<b, a, c>> \in OfBlocks.delta
  <2>1. m \in {k \in dfa_trimmed.delta : k[1] = get_first(brp, b)}
    BY <1>3
  <2>2. <<b, a, c>> \in {<<b, k[2], brp.set_idx[k[3]]>> :
                            k \in {l \in dfa_trimmed.delta : l[1] = get_first(brp, b)}}
    BY <1>3, <2>1
  <2>3. QED
    BY <1>1, <1>3, <2>2
<1>4. QED
  BY <1>2, <1>3

LEMMA PostInBlocks ==
  ASSUME HopcroftInv, dfa_trimmed.delta # {}, Stable, NEW S \in SUBSET States, NEW a
  PROVE  Post(OfBlocks, InBlocks(S), a) = InBlocks(Post(dfa_trimmed, S, a))
<1>1. States = dfa_trimmed.states /\ OfBlocks.states = Sets(brp)
      /\ \A m \in dfa_trimmed.delta : m = <<m[1], m[2], m[3]>> /\ m[1] \in States /\ m[3] \in States
  <2>1. IsTrimmedDfa(dfa_trimmed)
    BY DEF HopcroftInv
  <2>2. QED
    BY <2>1, MovesByIndex, TrimmedIsDeterministic DEF OfBlocks
<1>2. ASSUME NEW c \in Post(OfBlocks, InBlocks(S), a) PROVE c \in InBlocks(Post(dfa_trimmed, S, a))
  <2>1. PICK s \in S : <<brp.set_idx[s], a, c>> \in OfBlocks.delta
    BY <1>2 DEF Post, InBlocks
  <2>2. PICK m \in dfa_trimmed.delta :
          m[1] = get_first(brp, brp.set_idx[s]) /\ m[2] = a /\ brp.set_idx[m[3]] = c
    BY <2>1, BlockMoves
  <2>3. Together(m[1], s) /\ s \in States /\ m[1] \in States
    BY <1>1, <2>2, FirstStandsForBlock
  <2>4. PICK k \in dfa_trimmed.delta : k[1] = s /\ k[2] = a /\ Together(m[3], k[3])
    BY <2>2, <2>3 DEF Stable
  <2>5. k = <<s, a, k[3]>> /\ k[3] \in dfa_trimmed.states
    BY <1>1, <2>4
  <2>6. k[3] \in Post(dfa_trimmed, S, a)
    BY <2>5 DEF Post
  <2>7. brp.set_idx[k[3]] = c
    BY <2>2, <2>4 DEF Together
  <2>8. QED
    BY <2>6, <2>7 DEF InBlocks
<1>3. ASSUME NEW t \in Post(dfa_trimmed, S, a) PROVE brp.set_idx[t] \in Post(OfBlocks, InBlocks(S), a)
  <2>1. PICK s \in S : <<s, a, t>> \in dfa_trimmed.delta
    BY <1>3 DEF Post
  <2>2. PICK m \in dfa_trimmed.delta : m = <<s, a, t>>
    BY <2>1
  <2>3. m[1] = s /\ m[2] = a /\ m[3] = t /\ s \in States /\ t \in States
    BY <1>1, <2>2
  <2> DEFINE first == get_first(brp, brp.set_idx[s])
  <2>4. Together(s, first) /\ first \in States /\ brp.set_idx[s] \in Sets(brp)
    BY <2>3, FirstStandsForBlock
  <2>5. PICK k \in dfa_trimmed.delta : k[1] = first /\ k[2] = a /\ Together(t, k[3])
    BY <2>3, <2>4 DEF Stable
  <2>6. <<brp.set_idx[s], a, brp.set_idx[t]>> \in OfBlocks.delta
    BY <2>4, <2>5, BlockMoves DEF Together
  <2>7. brp.set_idx[t] \in OfBlocks.states
    BY <1>1, <2>3, FirstStandsForBlock
  <2>8. QED
    BY <2>6, <2>7 DEF Post, InBlocks
<1>4. Post(OfBlocks, InBlocks(S), a) \subseteq InBlocks(Post(dfa_trimmed, S, a))
  BY <1>2
<1>5. InBlocks(Post(dfa_trimmed, S, a)) \subseteq Post(OfBlocks, InBlocks(S), a)
  BY <1>3 DEF InBlocks
<1>6. QED
  BY <1>4, <1>5

LEMMA BlocksAccept ==
  ASSUME HopcroftInv, dfa_trimmed.delta # {}, Stable, NEW S \in SUBSET States,
         NEW word, Len(word) \in Nat
  PROVE  Accepts(From(OfBlocks, InBlocks(S)), word) <=> Accepts(From(dfa_trimmed, S), word)
<1>1. States = dfa_trimmed.states /\ OfBlocks.states = Sets(brp)
      /\ OfBlocks.final = {b \in Sets(brp) : get_first(brp, b) \in dfa_trimmed.final}
  BY MovesByIndex DEF OfBlocks
<1>2. \A X \in SUBSET States : InBlocks(X) \in SUBSET OfBlocks.states
  BY <1>1, FirstStandsForBlock DEF InBlocks
<1>3. PICK f : IsReading(dfa_trimmed, S, word, f)
  BY <1>1, ReadingExists
<1> DEFINE g == [n \in 0 .. Len(word) |-> InBlocks(f[n])]
<1>4. \A n \in 0 .. Len(word) : f[n] \in SUBSET States /\ g[n] = InBlocks(f[n])
  BY <1>1, <1>3 DEF IsReading
<1>5. IsReading(OfBlocks, InBlocks(S), word, g)
  <2>1. g \in [0 .. Len(word) -> SUBSET OfBlocks.states]
    BY <1>2, <1>4
  <2>2. 0 \in 0 .. Len(word) /\ f[0] = S
    BY <1>3 DEF IsReading
  <2>3. ASSUME NEW n \in 1 .. Len(word) PROVE g[n] = Post(OfBlocks, g[n - 1], word[n])
    <3>1. n \in 0 .. Len(word) /\ n - 1 \in 0 .. Len(word)
      OBVIOUS
    <3>2. f[n] = Post(dfa_trimmed, f[n - 1], word[n])
      BY <1>3 DEF IsReading
    <3>3. g[n] = InBlocks(f[n]) /\ g[n - 1] = InBlocks(f[n - 1]) /\ f[n - 1] \in SUBSET States
      BY <1>4, <3>1
    <3> HIDE DEF g
    <3>4. QED
      BY <3>2, <3>3, PostInBlocks
  <2>4. g[0] = InBlocks(S)
    BY <1>4, <2>2
  <2> HIDE DEF g
  <2>5. QED
    BY <2>1, <2>3, <2>4 DEF IsReading
<1> DEFINE X == f[Len(word)]
<1>6. Len(word) \in 0 .. Len(word)
  OBVIOUS
<1>7. /\ Read(From(dfa_trimmed, S), word) = X /\ X \in SUBSET States
      /\ Read(From(OfBlocks, InBlocks(S)), word) = InBlocks(X)
  <2>1. g[Len(word)] = InBlocks(X) /\ X \in SUBSET States
    BY <1>4, <1>6
  <2>2. Read(From(dfa_trimmed, S), word) = X
    BY <1>1, <1>3, ReadFrom
  <2> HIDE DEF g, X
  <2>3. Read(From(OfBlocks, InBlocks(S)), word) = g[Len(word)]
    BY <1>2, <1>5, ReadFrom
  <2>4. QED
    BY <2>1, <2>2, <2>3
<1> HIDE DEF X, g
<1>8. InBlocks(X) \cap OfBlocks.final # {} <=> X \cap dfa_trimmed.final # {}
  <2>1. \A s \in X : brp.set_idx[s] \in OfBlocks.final <=> s \in dfa_trimmed.final
    <3> TAKE s \in X
    <3>1. s \in States /\ brp.set_idx[s] \in Sets(brp) /\ Together(s, get_first(brp, brp.set_idx[s]))
          /\ get_first(brp, brp.set_idx[s]) \in States
      BY <1>7, FirstStandsForBlock
    <3>2. SameFinality(s, get_first(brp, brp.set_idx[s]))
      BY <3>1 DEF Stable
    <3>3. QED
      BY <1>1, <3>1, <3>2 DEF SameFinality
  <2>2. QED
    BY <2>1 DEF InBlocks
<1>9. From(dfa_trimmed, S).final = dfa_trimmed.final /\ From(OfBlocks, InBlocks(S)).final = OfBlocks.final
  BY DEF From
<1>10. QED
  BY <1>7, <1>8, <1>9 DEF Accepts

LEMMA AcceptedIsLanguage ==
  \A A, S : AcceptedFrom(A, S) = Language(A, S, SymbolsOf(dfa_trimmed), Size)
BY DEF AcceptedFrom, Language, From, Symbols, SymbolsOf, Size

(* As many different values as arguments.                                   *)
LEMMA AllDifferent ==
  ASSUME NEW S, IsFiniteSet(S), NEW f, DOMAIN f = S, \A x, y \in S : f[x] = f[y] => x = y
  PROVE  Cardinality({f[x] : x \in S}) = Cardinality(S)
<1> DEFINE T == {f[x] : x \in S}
           g == [x \in S |-> f[x]]
<1>1. g \in Surjection(S, T)
  BY DEF Surjection
<1>2. g \in Injection(S, T)
  BY DEF Injection, IsInjective
<1> HIDE DEF g, T
<1>3. Cardinality(T) = Cardinality(S)
  BY <1>1, <1>2, FS_Surjection
<1>4. QED
  BY <1>3 DEF T

LEMMA EndIsRight ==
  ASSUME HopcroftInv, MinimizeInv, at = "done" PROVE MinimizedIsRight
<1>1. IsTrimmedDfa(dfa_trimmed)
  BY DEF HopcroftInv
<1> DEFINE h == [b \in result.states |-> AcceptedFrom(result, {b})]
<1>2. SUFFICES /\ AcceptedFrom(result, result.initial) = AcceptedFrom(dfa_trimmed, dfa_trimmed.initial)
               /\ \A m, k \in result.delta : m[1] = k[1] /\ m[2] = k[2] => m = k
               /\ IsFiniteSet(result.states)
               /\ \A b, c \in result.states : h[b] = h[c] => b = c
  <2>1. ASSUME IsFiniteSet(result.states), \A b, c \in result.states : h[b] = h[c] => b = c
        PROVE  Cardinality({AcceptedFrom(result, {b}) : b \in result.states}) = Cardinality(result.states)
    <3>1. {AcceptedFrom(result, {b}) : b \in result.states} = {h[b] : b \in result.states}
      OBVIOUS
    <3>2. DOMAIN h = result.states
      OBVIOUS
    <3>3. PICK f, S : f = h /\ S = result.states
      OBVIOUS
    <3> HIDE DEF h
    <3>4. IsFiniteSet(S) /\ DOMAIN f = S /\ \A x, y \in S : f[x] = f[y] => x = y
      BY <2>1, <3>2, <3>3
    <3>5. Cardinality({f[x] : x \in S}) = Cardinality(S)
      BY <3>4, AllDifferent
    <3>6. QED
      BY <3>1, <3>3, <3>5
  <2>2. QED
    BY <2>1 DEF MinimizedIsRight
<1>3. CASE dfa_trimmed.delta = {}
  <2>1. result = dfa_trimmed
    BY <1>3 DEF MinimizeInv
  <2>2. dfa_trimmed.initial = dfa_trimmed.states
    <3>1. dfa_trimmed.initial \in SUBSET dfa_trimmed.states
      BY <1>1 DEF IsTrimmedDfa, IsAutomaton
    <3>2. QED
      BY <1>1, <1>3, <3>1 DEF IsTrimmedDfa
  <2>3. \A p, q \in result.states : p = q
    BY <1>1, <2>1, <2>2 DEF IsTrimmedDfa
  <2>4. IsFiniteSet(result.states)
    BY <1>1, <2>1, TrimmedIsDeterministic DEF IsDeterministic
  <2>5. QED
    BY <1>3, <2>1, <2>3, <2>4
<1>4. CASE dfa_trimmed.delta # {}
  <2>1. Stable /\ LikeTogether /\ result = OfBlocks
    BY <1>4 DEF MinimizeInv, RefinementInv
  <2>2. States = dfa_trimmed.states /\ Size \in Nat
    BY <1>4, Basics DEF States
  <2>3. \A S \in SUBSET States : AcceptedFrom(result, InBlocks(S)) = AcceptedFrom(dfa_trimmed, S)
    <3> TAKE S \in SUBSET States
    <3>1. \A w \in WordsUpTo(SymbolsOf(dfa_trimmed), Size) : Len(w) \in Nat
      BY <2>2, WordsAreShort
    <3>2. QED
      BY <1>4, <2>1, <3>1, BlocksAccept, AcceptedIsLanguage DEF Language
  <2>4. AcceptedFrom(result, result.initial) = AcceptedFrom(dfa_trimmed, dfa_trimmed.initial)
    <3>1. dfa_trimmed.initial \in SUBSET States
      BY <1>1, <2>2 DEF IsTrimmedDfa, IsAutomaton
    <3>2. result.initial = InBlocks(dfa_trimmed.initial)
      BY <2>1 DEF OfBlocks, InBlocks
    <3>3. QED
      BY <2>3, <3>1, <3>2
  <2>5. ASSUME NEW m \in result.delta, NEW k \in result.delta, m[1] = k[1], m[2] = k[2]
        PROVE  m = k
    <3>1. PICK b, c \in Sets(brp), i, j \in dfa_trimmed.delta :
            /\ i[1] = get_first(brp, b) /\ m = <<b, i[2], brp.set_idx[i[3]]>>
            /\ j[1] = get_first(brp, c) /\ k = <<c, j[2], brp.set_idx[j[3]]>>
      BY <2>1 DEF OfBlocks
    <3>2. b = c /\ i[2] = j[2]
      BY <2>5, <3>1
    <3>3. i = j
      BY <1>1, <3>1, <3>2 DEF IsTrimmedDfa
    <3>4. QED
      BY <3>1, <3>2, <3>3
  <2>6. result.states = Sets(brp) /\ IsFiniteSet(result.states)
    <3>1. PICK n \in Nat : n = brp.num_of_sets
      BY <1>4, Basics, Entries
    <3>2. IsFiniteSet(0 .. n - 1)
      BY FS_Interval
    <3>3. result.states = Sets(brp)
      BY <2>1 DEF OfBlocks
    <3>4. QED
      BY <3>1, <3>2, <3>3 DEF Sets
  <2>7. ASSUME NEW b \in Sets(brp), NEW c \in Sets(brp),
               AcceptedFrom(result, {b}) = AcceptedFrom(result, {c})
        PROVE  b = c
    <3> DEFINE p == get_first(brp, b)
               q == get_first(brp, c)
    <3>1. p \in States /\ brp.set_idx[p] = b /\ q \in States /\ brp.set_idx[q] = c
      BY <1>4, FirstStandsForBlock
    <3>2. InBlocks({p}) = {b} /\ InBlocks({q}) = {c} /\ {p} \in SUBSET States /\ {q} \in SUBSET States
      BY <3>1 DEF InBlocks
    <3>3. AcceptedFrom(dfa_trimmed, {p}) = AcceptedFrom(dfa_trimmed, {q})
      BY <2>3, <2>7, <3>2
    <3> HIDE DEF p, q
    <3>4. <<p, q>> \in Agreeing(dfa_trimmed)
      <4>1. Same(dfa_trimmed, {p}, {q}, SymbolsOf(dfa_trimmed), Cardinality(dfa_trimmed.states))
        BY <3>3, AcceptedIsLanguage DEF Same, Size
      <4>2. QED
        BY <2>2, <3>1, <4>1 DEF Agreeing
    <3>5. IsBisimulation(dfa_trimmed, Agreeing(dfa_trimmed))
      BY <1>1, <1>4, AgreeingIsBisimulation
    <3>6. Agreeing(dfa_trimmed) \in SUBSET (States \X States)
      BY <2>2 DEF Agreeing
    <3>7. Together(p, q)
      BY <2>1, <3>1, <3>4, <3>5, <3>6 DEF LikeTogether
    <3>8. QED
      BY <3>1, <3>7 DEF Together
  <2>8. QED
    BY <2>4, <2>5, <2>6, <2>7
<1>5. QED
  BY <1>3, <1>4

(* The result accepts what the given automaton accepts, it is deterministic *)
(* and any two of its states accept different words: it has as few states   *)
(* as can be.  Words as long as there are states are enough to tell.        *)
THEOREM MinimizationIsRight == Spec => []MinimizedIsRight
<1>1. HopcroftInv /\ MinimizeInv => MinimizedIsRight
  BY EndIsRight DEF MinimizedIsRight
<1>2. QED
  BY <1>1, HopcroftInvHolds, MinimizeInvHolds, PTL

==============================================================================
