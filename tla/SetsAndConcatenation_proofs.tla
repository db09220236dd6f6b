----------------------- MODULE SetsAndConcatenation_proofs ---------------------
(***************************************************************************)
(* Proofs about SparseSet, for every Bound, and about Concatenation, for   *)
(* every set of jobs: the sets of initial and final states of an automaton,*)
(* and the operations that put automata together.                          *)
(*                                                                         *)
(* SparseSet: the inductive invariant is TypeOK /\ LoopInv: Linked alone   *)
(* is lost while rename() runs, and what complement() and filter() have    *)
(* done so far has to be remembered.                                       *)
(*                                                                         *)
(* Concatenation: the inductive invariant CombineInv says what the objects *)
(* spell between any two places of any word, epsilons being silent, so that*)
(* a product cuts a word at a place and a power at several.                *)
(***************************************************************************)
EXTENDS SparseSet, Concatenation, Automata_proofs, FiniteSetTheorems, SequenceTheorems, TLAPS

(* Linked entries are distinct.                                             *)
LEMMA Distinct ==
  ASSUME DataOK, Linked, NEW j \in 0 .. size - 1, NEW k \in 0 .. size - 1,
         dense[j] = dense[k]
  PROVE  j = k
BY DEF Linked

(* In a linked structure contains() is membership.                          *)
LEMMA ContainsIsMembership ==
  ASSUME DataOK, Linked, NEW v \in Number
  PROVE  contains(v) <=> v \in Elements
<1>1. ASSUME contains(v) PROVE v \in Elements
  <2>1. sparse[v] \in 0 .. size - 1
    BY <1>1, BoundAssumption DEF contains, DataOK, Number
  <2>2. QED
    BY <1>1, <2>1 DEF contains, Elements
<1>2. ASSUME v \in Elements PROVE contains(v)
  <2>1. PICK j \in 0 .. size - 1 : v = dense[j]
    BY <1>2 DEF Elements
  <2>2. QED
    BY <2>1 DEF Linked, contains, DataOK
<1>3. QED
  BY <1>1, <1>2

(* Pigeonhole: k different numbers below z are at most z.                   *)
LEMMA Pigeons ==
  ASSUME NEW k \in Nat, NEW z \in Nat, NEW g \in [0 .. k - 1 -> 0 .. z - 1],
         \A x, y \in 0 .. k - 1 : g[x] = g[y] => x = y
  PROVE  k <= z
<1> DEFINE S == 0 .. k - 1
           T == 0 .. z - 1
<1> SUFFICES ASSUME z < k PROVE FALSE
  OBVIOUS
<1>1. 0 \in Int /\ k - 1 \in Int /\ z - 1 \in Int
  OBVIOUS
<1>2. IsFiniteSet(S) /\ Cardinality(S) = IF 0 > k - 1 THEN 0 ELSE (k - 1) - 0 + 1
  BY <1>1, FS_Interval, Zenon DEF S
<1>3. IsFiniteSet(T) /\ Cardinality(T) = IF 0 > z - 1 THEN 0 ELSE (z - 1) - 0 + 1
  BY <1>1, FS_Interval, Zenon DEF T
<1>4. Cardinality(T) < Cardinality(S)
  BY <1>2, <1>3
<1>5. g \in [S -> T]
  OBVIOUS
<1> HIDE DEF S, T
<1>6. \E x, y \in S : x # y /\ g[x] = g[y]
  BY <1>2, <1>3, <1>4, <1>5, FS_PigeonHole, Zenon
<1>7. QED
  BY <1>6 DEF S

(* The elements are as many numbers as size says.                           *)
LEMMA SizeBelow ==
  ASSUME DataOK, Linked, NEW z \in Nat, \A v \in Elements : v < z
  PROVE  size <= z
<1> DEFINE g == [j \in 0 .. size - 1 |-> dense[j]]
<1>1. size \in Nat
  BY DEF DataOK
<1>2. \A j \in 0 .. size - 1 : dense[j] \in 0 .. z - 1
  <2> SUFFICES ASSUME NEW j \in 0 .. size - 1 PROVE dense[j] \in 0 .. z - 1
    OBVIOUS
  <2>1. dense[j] \in Elements
    BY DEF Elements
  <2>2. j \in 0 .. len - 1 /\ dense[j] \in Nat
    BY <1>1, BoundAssumption DEF DataOK, Number
  <2>3. QED
    BY <2>1, <2>2
<1>3. g \in [0 .. size - 1 -> 0 .. z - 1]
  BY <1>2
<1>4. \A x, y \in 0 .. size - 1 : g[x] = g[y] => x = y
  BY Distinct
<1> HIDE DEF g
<1>5. QED
  BY <1>1, <1>3, <1>4, Pigeons

(* A number that is not in the set finds a free place in dense.             *)
LEMMA Room ==
  ASSUME DataOK, Linked, NEW z \in Nat, domain_size <= z,
         NEW v \in 0 .. z - 1, v \notin Elements
  PROVE  size < z
<1> DEFINE g == [j \in 0 .. size |-> IF j < size THEN dense[j] ELSE v]
<1>1. size \in Nat /\ domain_size \in Nat
  BY DEF DataOK
<1>2. \A j \in 0 .. size - 1 : dense[j] \in 0 .. z - 1
  BY <1>1, BoundAssumption DEF Linked, DataOK, Number
<1>3. g \in [0 .. (size + 1) - 1 -> 0 .. z - 1]
  BY <1>1, <1>2
<1>4. ASSUME NEW x \in 0 .. size, NEW y \in 0 .. size, g[x] = g[y]
      PROVE  x = y
  <2>1. CASE x < size /\ y < size
    BY <1>1, <1>4, <2>1, Distinct
  <2>2. CASE ~(x < size /\ y < size)
    BY <1>1, <1>4, <2>2 DEF Elements
  <2>3. QED
    BY <2>1, <2>2
<1> HIDE DEF g
<1>5. size + 1 <= z
  <2>1. size + 1 \in Nat /\ (size + 1) - 1 = size
    BY <1>1
  <2>2. \A x, y \in 0 .. (size + 1) - 1 : g[x] = g[y] => x = y
    BY <1>4, <2>1
  <2>3. QED
    BY <1>3, <2>1, <2>2, Pigeons
<1>6. QED
  BY <1>1, <1>5

(* insert() adds its number and nothing else, and finds room for it.        *)
LEMMA InsertAdds ==
  ASSUME DataOK, Linked, NEW v \in Number, DoInsert(v)
  PROVE  DataOK' /\ Linked' /\ Elements' = Elements \cup {v}
<1>1. CASE contains(v)
  <2>1. v \in Elements
    BY <1>1, ContainsIsMembership
  <2>2. UNCHANGED data
    BY <1>1 DEF DoInsert
  <2>3. QED
    BY <2>1, <2>2 DEF data, DataOK, Linked, Elements
<1>2. CASE ~contains(v)
  <2> DEFINE z == IF v >= domain_size THEN v + 1 ELSE domain_size
             m == IF v >= domain_size THEN v + 1 ELSE len
             d == IF v >= domain_size THEN Resize(dense, v + 1) ELSE dense
             s == IF v >= domain_size THEN Resize(sparse, v + 1) ELSE sparse
  <2>1. /\ dense' = [d EXCEPT ![size] = v]
        /\ sparse' = [s EXCEPT ![v] = size]
        /\ len' = m /\ domain_size' = z /\ size' = size + 1
    BY <1>2 DEF DoInsert
  <2>2. /\ v \in Nat /\ v < Bound /\ z \in Nat /\ m \in Nat
        /\ domain_size <= z /\ v < z /\ z <= m /\ m <= Bound
        /\ size \in Nat /\ size <= domain_size
        /\ domain_size \in Nat /\ len \in Nat /\ domain_size <= len
    BY BoundAssumption DEF DataOK, Number
  <2>3. v \notin Elements
    BY <1>2, ContainsIsMembership
  <2>4. size < z
    BY <2>2, <2>3, Room
  <2>5. /\ d \in [0 .. m - 1 -> Number] /\ s \in [0 .. m - 1 -> Number]
        /\ \A j \in 0 .. domain_size - 1 : d[j] = dense[j] /\ s[j] = sparse[j]
    <3>1. 0 \in Number /\ len \in Nat /\ domain_size <= len
      BY <2>2, BoundAssumption DEF Number
    <3>2. CASE v >= domain_size
      <4>1. /\ m = v + 1
            /\ d = [j \in 0 .. v |-> IF j < len THEN dense[j] ELSE 0]
            /\ s = [j \in 0 .. v |-> IF j < len THEN sparse[j] ELSE 0]
        BY <2>2, <3>2 DEF Resize
      <4>2. \A j \in 0 .. v : j < len => dense[j] \in Number /\ sparse[j] \in Number
        BY <2>2 DEF DataOK
      <4>3. d \in [0 .. v -> Number] /\ s \in [0 .. v -> Number]
        BY <3>1, <4>1, <4>2
      <4>4. \A j \in 0 .. domain_size - 1 : j \in 0 .. v /\ j < len
        BY <2>2, <3>1, <3>2
      <4>5. m - 1 = v
        BY <2>2, <4>1
      <4>6. QED
        BY <4>1, <4>3, <4>4, <4>5
    <3>3. CASE ~(v >= domain_size)
      BY <3>3 DEF DataOK
    <3>4. QED
      BY <3>2, <3>3
  <2> HIDE DEF z, m, d, s
  <2>6. DataOK'
    BY <2>1, <2>2, <2>4, <2>5, BoundAssumption DEF DataOK, Number
  <2>7. \A j \in 0 .. size - 1 : dense'[j] = dense[j]
    <3> SUFFICES ASSUME NEW j \in 0 .. size - 1 PROVE dense'[j] = dense[j]
      OBVIOUS
    <3>1. j \in 0 .. domain_size - 1 /\ j \in 0 .. m - 1 /\ j # size
      BY <2>2
    <3>2. QED
      BY <2>1, <2>5, <3>1
  <2>8. dense'[size] = v
    BY <2>1, <2>2, <2>4, <2>5
  <2>9. Linked'
    <3> SUFFICES ASSUME NEW j \in 0 .. size
                 PROVE  dense'[j] < domain_size' /\ sparse'[dense'[j]] = j
      BY <2>1, <2>2 DEF Linked
    <3>1. CASE j = size
      <4>1. v \in 0 .. m - 1
        BY <2>2
      <4>2. QED
        BY <2>1, <2>2, <2>5, <2>8, <3>1, <4>1
    <3>2. CASE j < size
      <4>1. dense'[j] = dense[j] /\ dense[j] # v /\ dense[j] \in 0 .. domain_size - 1
        BY <2>2, <2>3, <2>7, <3>2 DEF Elements, Linked, DataOK, Number
      <4>2. sparse'[dense[j]] = s[dense[j]]
        BY <2>1, <2>2, <2>5, <4>1
      <4>3. s[dense[j]] = j /\ dense[j] < domain_size'
        BY <2>1, <2>2, <2>5, <3>2, <4>1 DEF Linked
      <4>4. QED
        BY <4>1, <4>2, <4>3
    <3>3. QED
      BY <2>2, <3>1, <3>2
  <2>10. Elements' = Elements \cup {v}
    <3>1. Elements' = {dense'[j] : j \in 0 .. size}
      BY <2>1, <2>2 DEF Elements
    <3>2. 0 .. size = (0 .. size - 1) \cup {size}
      BY <2>2
    <3>3. QED
      BY ZenonT(40), <2>7, <2>8, <3>1, <3>2 DEF Elements
  <2>11. QED
    BY <2>6, <2>9, <2>10
<1>3. QED
  BY <1>1, <1>2

(* erase_nocheck() removes its number; the last element fills the hole.     *)
LEMMA EraseNoCheckRemoves ==
  ASSUME DataOK, Linked, NEW v \in Elements, EraseNoCheck(v)
  PROVE  /\ DataOK' /\ Linked' /\ Elements' = Elements \ {v}
         /\ \A j \in 0 .. size - 1 : j < sparse[v] => dense'[j] = dense[j]
<1> DEFINE h == sparse[v]
           l == dense[size - 1]
<1>1. /\ h \in 0 .. size - 1 /\ dense[h] = v /\ size \in Nat /\ size > 0
      /\ domain_size \in Nat /\ size <= domain_size /\ domain_size <= len
      /\ len \in Nat
  BY DEF Elements, Linked, DataOK
<1>2. l \in 0 .. domain_size - 1 /\ l \in Number
  BY <1>1 DEF Linked, DataOK, Number
<1>3. /\ dense' = [dense EXCEPT ![h] = l]
      /\ sparse' = [sparse EXCEPT ![l] = h]
      /\ size' = size - 1 /\ len' = len /\ domain_size' = domain_size
  BY DEF EraseNoCheck
<1> HIDE DEF h, l
<1>4. DataOK'
  <2>1. h \in Number
    BY <1>1, BoundAssumption DEF DataOK, Number
  <2>2. size - 1 \in 0 .. domain_size
    BY <1>1
  <2>3. QED
    BY <1>2, <1>3, <2>1, <2>2 DEF DataOK
<1>5. \A j \in 0 .. size - 2 : dense'[j] = IF j = h THEN l ELSE dense[j]
  BY <1>1, <1>2, <1>3 DEF DataOK
<1>6. l = dense[size - 1]
  BY DEF l
<1>7. Linked'
  <2> SUFFICES ASSUME NEW j \in 0 .. size - 2
               PROVE  dense'[j] < domain_size /\ sparse'[dense'[j]] = j
    BY <1>1, <1>3 DEF Linked
  <2>1. CASE j = h
    BY <1>1, <1>2, <1>3, <1>5, <2>1 DEF DataOK, Number
  <2>2. CASE j # h
    <3>1. dense'[j] = dense[j] /\ dense[j] # l
      BY <1>1, <1>5, <1>6, <2>2, Distinct
    <3>2. dense[j] < domain_size /\ sparse[dense[j]] = j /\ dense[j] \in 0 .. len - 1
      BY SMTT(30), <1>1 DEF Linked, DataOK, Number
    <3>3. QED
      BY <1>1, <1>3, <3>1, <3>2 DEF DataOK
  <2>3. QED
    BY <2>1, <2>2
<1>8. Elements' = Elements \ {v}
  <2>1. Elements' = {dense'[j] : j \in 0 .. size - 2}
    BY <1>1, <1>3 DEF Elements
  <2>2. ASSUME NEW u \in Elements' PROVE u \in Elements /\ u # v
    <3>1. PICK j \in 0 .. size - 2 : u = dense'[j]
      BY <2>1
    <3>2. CASE j = h
      BY <1>1, <1>5, <1>6, <3>1, <3>2, Distinct DEF Elements
    <3>3. CASE j # h
      BY <1>1, <1>5, <3>1, <3>3, Distinct DEF Elements
    <3>4. QED
      BY <3>2, <3>3
  <2>3. ASSUME NEW u \in Elements, u # v PROVE u \in Elements'
    <3>1. PICK j \in 0 .. size - 1 : u = dense[j]
      BY DEF Elements
    <3>2. CASE j = size - 1
      <4>1. h \in 0 .. size - 2
        BY <1>1, <2>3, <3>1, <3>2
      <4>2. QED
        BY <1>5, <1>6, <2>1, <3>1, <3>2, <4>1
    <3>3. CASE j # size - 1
      <4>1. j \in 0 .. size - 2 /\ j # h
        BY <1>1, <2>3, <3>1, <3>3
      <4>2. QED
        BY <1>5, <2>1, <3>1, <4>1
    <3>4. QED
      BY <3>2, <3>3
  <2>4. QED
    BY <2>2, <2>3
<1>9. \A j \in 0 .. size - 1 : j < h => dense'[j] = dense[j]
  BY <1>1, <1>5
<1>10. QED
  BY <1>4, <1>7, <1>8, <1>9 DEF h

LEMMA EraseRemoves ==
  ASSUME DataOK, Linked, NEW v \in Number, DoErase(v)
  PROVE  DataOK' /\ Linked' /\ Elements' = Elements \ {v}
<1>1. CASE contains(v)
  BY <1>1, ContainsIsMembership, EraseNoCheckRemoves DEF DoErase
<1>2. CASE ~contains(v)
  <2>1. v \notin Elements
    BY <1>2, ContainsIsMembership
  <2>2. UNCHANGED data
    BY <1>2 DEF DoErase
  <2>3. QED
    BY <2>1, <2>2 DEF data, DataOK, Linked, Elements
<1>3. QED
  BY <1>1, <1>2

------------------------------------------------------------------------------
(* The inductive invariant.                                                 *)
IInv == TypeOK /\ LoopInv

LEMMA InitIInv == Init => IInv
BY BoundAssumption
   DEF Init, IInv, TypeOK, DataOK, LoopOK, LoopInv, Linked, Before, Number,
       NoRenaming

(* A call that is a single step has to keep the structure linked only.      *)
LEMMA SingleStep ==
  ASSUME IInv, Idle, DataOK', Linked', UNCHANGED loop
  PROVE  IInv'
BY DEF IInv, TypeOK, LoopOK, LoopInv, Idle, loop, Before

LEMMA InsertIInv == ASSUME IInv, NEW v \in Number, insert(v) PROVE IInv'
BY InsertAdds, SingleStep DEF insert, IInv, TypeOK, LoopInv, Idle

LEMMA EraseIInv == ASSUME IInv, NEW v \in Number, erase(v) PROVE IInv'
BY EraseRemoves, SingleStep DEF erase, IInv, TypeOK, LoopInv, Idle

LEMMA ReserveKeeps ==
  ASSUME DataOK, Linked, NEW u \in 0 .. Bound, Reserve(u), UNCHANGED size
  PROVE  DataOK' /\ Linked' /\ Elements' = Elements
<1>1. CASE u > domain_size
  <2>1. /\ dense' = [j \in 0 .. u - 1 |-> IF j < len THEN dense[j] ELSE 0]
        /\ sparse' = [j \in 0 .. u - 1 |-> IF j < len THEN sparse[j] ELSE 0]
        /\ len' = u /\ domain_size' = u /\ size' = size
    BY <1>1 DEF Reserve, Resize
  <2>2. /\ u \in Nat /\ u <= Bound /\ domain_size \in Nat /\ domain_size < u
        /\ len \in Nat /\ domain_size <= len /\ size \in Nat /\ size <= domain_size
    BY <1>1, BoundAssumption DEF DataOK
  <2>3. 0 \in Number
    BY <2>2, BoundAssumption DEF Number
  <2>4. \A j \in 0 .. u - 1 : j < len => dense[j] \in Number /\ sparse[j] \in Number
    BY <2>2 DEF DataOK
  <2>5. dense' \in [0 .. u - 1 -> Number] /\ sparse' \in [0 .. u - 1 -> Number]
    BY <2>1, <2>3, <2>4
  <2>6. DataOK'
    BY <2>1, <2>2, <2>5 DEF DataOK
  <2>7. \A j \in 0 .. domain_size - 1 :
          /\ j \in 0 .. u - 1 /\ j < len
          /\ dense'[j] = dense[j] /\ sparse'[j] = sparse[j]
    BY <2>1, <2>2
  <2>8. \A j \in 0 .. size - 1 :
          /\ j \in 0 .. domain_size - 1 /\ dense[j] \in 0 .. domain_size - 1
    BY <2>2 DEF Linked, DataOK, Number
  <2>9. QED
    BY <2>1, <2>2, <2>6, <2>7, <2>8 DEF Linked, Elements
<1>2. CASE ~(u > domain_size)
  BY <1>2 DEF Reserve, DataOK, Linked, Elements
<1>3. QED
  BY <1>1, <1>2

LEMMA ClearIInv == ASSUME IInv, clear PROVE IInv'
<1>1. DataOK' /\ Linked'
  BY DEF clear, IInv, TypeOK, DataOK, Linked
<1>2. QED
  BY <1>1, SingleStep DEF clear

LEMMA TruncateIInv == ASSUME IInv, truncate PROVE IInv'
<1>1. PICK z \in 0 .. Bound : IsTight(z) /\ domain_size' = z
  BY DEF truncate
<1>2. DataOK /\ Linked /\ z \in Nat
  BY BoundAssumption DEF truncate, IInv, TypeOK, LoopInv, Idle
<1>3. size <= z
  BY <1>1, <1>2, SizeBelow DEF IsTight
<1>4. z <= len
  BY <1>1, <1>2 DEF IsTight, Elements, Linked, DataOK
<1>5. DataOK' /\ Linked'
  BY <1>1, <1>2, <1>3, <1>4 DEF truncate, IsTight, DataOK, Linked, Elements
<1>6. QED
  BY <1>5, SingleStep DEF truncate

LEMMA MovedFromIInv == ASSUME IInv, moved_from PROVE IInv'
<1>1. DataOK' /\ Linked'
  BY BoundAssumption DEF moved_from, DataOK, Linked, Number
<1>2. QED
  BY <1>1, SingleStep DEF moved_from

LEMMA SortKeeps ==
  ASSUME DataOK, Linked, sort
  PROVE  DataOK' /\ Linked' /\ Elements' = Elements
<1>1. PICK d \in [0 .. len - 1 -> Number] :
        /\ \A j, k \in 0 .. size - 1 : j < k => d[j] < d[k]
        /\ {d[j] : j \in 0 .. size - 1} = Elements
        /\ dense' = d
        /\ sparse' = [v \in 0 .. len - 1 |->
                        IF v \in Elements
                          THEN CHOOSE j \in 0 .. size - 1 : d[j] = v
                          ELSE sparse[v]]
  BY DEF sort
<1>2. len' = len /\ size' = size /\ domain_size' = domain_size
  BY DEF sort
<1>3. /\ size \in Nat /\ domain_size \in Nat /\ len \in Nat /\ Bound \in Nat
      /\ size <= domain_size /\ domain_size <= len /\ len <= Bound
  BY BoundAssumption DEF DataOK
<1>4. \A j \in 0 .. size - 1 : d[j] \in Elements /\ d[j] \in Number
  BY <1>1, <1>3
<1>5. \A v \in Elements : v \in 0 .. domain_size - 1 /\ v \in 0 .. len - 1
  BY SMTT(30), <1>3 DEF Elements, Linked, DataOK, Number
<1>6. ASSUME NEW v \in Elements, NEW k \in 0 .. size - 1, d[k] = v
      PROVE  sparse'[v] = k
  <2> DEFINE c == CHOOSE j \in 0 .. size - 1 : d[j] = v
  <2>1. c \in 0 .. size - 1 /\ d[c] = v
    BY <1>6
  <2>2. sparse'[v] = c
    BY <1>1, <1>5
  <2> HIDE DEF c
  <2>3. d[c] \in Int /\ d[k] \in Int
    BY <1>4, <2>1 DEF Number
  <2>4. c = k
    BY SMTT(30), <1>1, <1>3, <1>6, <2>1, <2>3
  <2>5. QED
    BY <2>2, <2>4
<1>7. Linked'
  <2> SUFFICES ASSUME NEW k \in 0 .. size - 1
               PROVE  d[k] < domain_size /\ sparse'[d[k]] = k
    BY <1>1, <1>2 DEF Linked
  <2>1. d[k] \in Elements
    BY <1>4
  <2>2. sparse'[d[k]] = k
    BY <1>6, <2>1
  <2>3. d[k] < domain_size
    BY <1>3, <1>5, <2>1
  <2>4. QED
    BY <2>2, <2>3
<1>8. \A v \in 0 .. len - 1 : sparse'[v] \in Number
  <2> SUFFICES ASSUME NEW v \in 0 .. len - 1 PROVE sparse'[v] \in Number
    OBVIOUS
  <2>1. CASE v \in Elements
    <3>1. PICK k \in 0 .. size - 1 : d[k] = v
      BY <1>1, <2>1
    <3>2. QED
      BY <1>3, <1>6, <2>1, <3>1 DEF Number
  <2>2. CASE v \notin Elements
    BY <1>1, <2>2 DEF DataOK
  <2>3. QED
    BY <2>1, <2>2
<1>9. sparse' \in [0 .. len - 1 -> Number]
  BY <1>1, <1>8
<1>10. DataOK'
  BY <1>1, <1>2, <1>9 DEF DataOK
<1>11. QED
  BY <1>1, <1>2, <1>7, <1>10 DEF Elements

LEMMA Typed ==
  ASSUME DataOK
  PROVE  /\ size \in Nat /\ domain_size \in Nat /\ len \in Nat /\ Bound \in Nat
         /\ size <= domain_size /\ domain_size <= len /\ len <= Bound
         /\ \A j \in 0 .. size - 1 :
              j \in 0 .. len - 1 /\ dense[j] \in Number
BY BoundAssumption DEF DataOK

(* A loop starts with nothing done: pre is the elements in order.           *)
LEMMA EnterKeeps ==
  ASSUME IInv, NEW name, Enter(name)
  PROVE  /\ Linked /\ DataOK /\ DataOK' /\ Linked' /\ Elements' = Elements
         /\ size' = size /\ domain_size' = domain_size /\ len' = len
         /\ dense' = dense /\ sparse' = sparse /\ i' = 0
         /\ pre' = [j \in 0 .. size - 1 |-> dense[j]] /\ op' = name
         /\ Before' = Elements /\ Before' \subseteq Number
<1>1. DataOK /\ Linked
  BY DEF IInv, TypeOK, LoopInv, Enter, Idle
<1>2. DataOK' /\ Linked' /\ Elements' = Elements
  BY <1>1 DEF Enter, data, DataOK, Linked, Elements
<1>3. Before' = Elements
  BY DEF Enter, Before, Elements
<1>4. Elements \subseteq Number
  BY <1>1, Typed DEF Elements
<1>5. QED
  BY <1>1, <1>2, <1>3, <1>4 DEF Enter, data

LEMMA LeaveIInv ==
  ASSUME IInv, NEW name, Leave(name), Linked
  PROVE  IInv'
<1>1. DataOK' /\ Linked'
  BY DEF Leave, data, IInv, TypeOK, DataOK, Linked
<1>2. Before' = {}
  BY DEF Leave, Before, NoRenaming
<1>3. LoopOK'
  BY <1>2, BoundAssumption DEF Leave, LoopOK
<1>4. QED
  BY <1>1, <1>3 DEF Leave, IInv, TypeOK, LoopInv

LEMMA ComplementIInv == ASSUME IInv, NEW z \in 0 .. Bound, complement(z) PROVE IInv'
<1>1. Enter("complement") /\ limit' = z /\ old_domain_size' = domain_size
      /\ keep' = keep /\ ren' = ren
  BY DEF complement
<1>2. /\ Linked /\ DataOK /\ DataOK' /\ Linked' /\ Elements' = Elements /\ i' = 0
      /\ op' = "complement" /\ Before' = Elements /\ Before' \subseteq Number
  BY <1>1, EnterKeeps
<1>3. LoopOK'
  BY <1>1, <1>2, Typed DEF IInv, TypeOK, LoopOK
<1>4. ComplementLoop'
  <2>1. \A v \in Elements : v < domain_size
    BY <1>2 DEF Elements, Linked
  <2>2. \A v \in Number : ~(v < 0)
    BY BoundAssumption DEF Number
  <2>3. QED
    BY <1>1, <1>2, <2>1, <2>2 DEF ComplementLoop
<1>5. QED
  BY <1>2, <1>3, <1>4 DEF IInv, TypeOK, LoopInv

LEMMA FilterIInv == ASSUME IInv, NEW K \in SUBSET Number, filter(K) PROVE IInv'
<1>1. /\ Enter("filter") /\ keep' = K
      /\ limit' = limit /\ old_domain_size' = old_domain_size /\ ren' = ren
  BY DEF filter
<1>2. /\ Linked /\ DataOK /\ DataOK' /\ Linked' /\ Elements' = Elements /\ i' = 0
      /\ op' = "filter" /\ Before' = Elements /\ Before' \subseteq Number
      /\ size' = size
  BY <1>1, EnterKeeps
<1>3. LoopOK'
  BY <1>1, <1>2, Typed DEF IInv, TypeOK, LoopOK
<1>4. FilterLoop'
  BY <1>1, <1>2, Typed DEF FilterLoop
<1>5. QED
  BY <1>2, <1>3, <1>4 DEF IInv, TypeOK, LoopInv

LEMMA RenameIInv ==
  ASSUME IInv, NEW f \in [Number -> Number], rename(f) PROVE IInv'
<1>1. /\ Enter("rename") /\ ren' = f
      /\ limit' = limit /\ old_domain_size' = old_domain_size /\ keep' = keep
      /\ \A u, v \in Elements : f[u] = f[v] => u = v
  BY DEF rename
<1>2. /\ Linked /\ DataOK /\ DataOK' /\ Linked' /\ Elements' = Elements /\ i' = 0
      /\ op' = "rename" /\ Before' = Elements /\ Before' \subseteq Number
      /\ size' = size /\ domain_size' = domain_size
      /\ dense' = dense /\ sparse' = sparse
      /\ pre' = [j \in 0 .. size - 1 |-> dense[j]]
  BY <1>1, EnterKeeps
<1>3. LoopOK'
  BY <1>1, <1>2, Typed DEF IInv, TypeOK, LoopOK
<1>4. RenameLoop'
  <2>1. /\ \A j \in 0 .. size - 1 : dense[j] \in Elements /\ dense[j] \in Number
        /\ size \in Nat
    BY <1>2, Typed DEF Elements
  <2>2. pre' \in [0 .. size - 1 -> Number]
    BY <1>2, <2>1
  <2>3. \A j, k \in 0 .. size - 1 : f[dense[j]] = f[dense[k]] => j = k
    BY <1>1, <1>2, <2>1, Distinct
  <2>4. \A j \in 0 .. size - 1 : dense[j] < domain_size /\ sparse[dense[j]] = j
    BY <1>2 DEF Linked
  <2>5. QED
    BY <1>1, <1>2, <2>1, <2>2, <2>3, <2>4 DEF RenameLoop
<1>5. QED
  BY <1>2, <1>3, <1>4 DEF IInv, TypeOK, LoopInv

LEMMA ComplementToggleIInv == ASSUME IInv, ComplementToggle PROVE IInv'
<1>1. /\ op = "complement" /\ i < limit /\ i' = i + 1
      /\ IF contains(i) THEN EraseNoCheck(i) ELSE DoInsert(i)
      /\ UNCHANGED <<op, limit, old_domain_size, keep, ren, pre>>
  BY DEF ComplementToggle
<1>2. DataOK /\ Linked /\ LoopOK /\ ComplementLoop
  BY <1>1 DEF IInv, TypeOK, LoopInv
<1>3. /\ i \in Number /\ i \in Nat /\ limit \in Nat /\ limit <= Bound
      /\ \A v \in Number : v \in Int
  BY <1>1, <1>2, BoundAssumption DEF LoopOK, Number
<1>4. /\ DataOK' /\ Linked'
      /\ \A v \in Number : v # i => (v \in Elements' <=> v \in Elements)
      /\ i \in Elements' <=> i \notin Elements
  <2>1. CASE contains(i)
    BY <1>1, <1>2, <1>3, <2>1, ContainsIsMembership, EraseNoCheckRemoves
  <2>2. CASE ~contains(i)
    BY <1>1, <1>2, <1>3, <2>2, ContainsIsMembership, InsertAdds
  <2>3. QED
    BY <2>1, <2>2
<1>5. Before' = Before
  BY <1>1 DEF Before
<1>6. LoopOK'
  BY <1>1, <1>2, <1>3, <1>5, BoundAssumption DEF LoopOK
<1>7. ASSUME NEW v \in Number
      PROVE  v \in Elements' <=> IF v < i + 1 THEN v < limit /\ v \notin Before
                                              ELSE v \in Before
  <2>1. v \in Elements <=> IF v < i THEN v < limit /\ v \notin Before
                                   ELSE v \in Before
    BY <1>2 DEF ComplementLoop
  <2>2. v \in Int
    BY <1>3
  <2>3. CASE v = i
    BY <1>1, <1>3, <1>4, <2>1, <2>3
  <2>4. CASE v # i
    <3>1. v < i + 1 <=> v < i
      BY <1>3, <2>2, <2>4
    <3>2. QED
      BY <1>4, <2>1, <2>4, <3>1
  <2>5. QED
    BY <2>3, <2>4
<1>8. ComplementLoop'
  BY <1>1, <1>2, <1>5, <1>7 DEF ComplementLoop
<1>9. QED
  BY <1>1, <1>4, <1>6, <1>8 DEF IInv, TypeOK, LoopInv

LEMMA ComplementDropIInv == ASSUME IInv, ComplementDrop PROVE IInv'
<1>1. /\ op = "complement" /\ i >= limit /\ i < old_domain_size /\ i' = i + 1
      /\ DoErase(i)
      /\ UNCHANGED <<op, limit, old_domain_size, keep, ren, pre>>
  BY DEF ComplementDrop
<1>2. DataOK /\ Linked /\ LoopOK /\ ComplementLoop
  BY <1>1 DEF IInv, TypeOK, LoopInv
<1>3. /\ i \in Number /\ i \in Nat /\ limit \in Nat /\ limit <= Bound
      /\ \A v \in Number : v \in Int
  BY <1>1, <1>2, BoundAssumption DEF LoopOK, Number
<1>4. DataOK' /\ Linked' /\ Elements' = Elements \ {i}
  BY <1>1, <1>2, <1>3, EraseRemoves
<1>5. Before' = Before
  BY <1>1 DEF Before
<1>6. LoopOK'
  BY <1>1, <1>2, <1>3, <1>5, BoundAssumption DEF LoopOK, Number
<1>7. ASSUME NEW v \in Number
      PROVE  v \in Elements' <=> IF v < i + 1 THEN v < limit /\ v \notin Before
                                              ELSE v \in Before
  <2>1. v \in Elements <=> IF v < i THEN v < limit /\ v \notin Before
                                   ELSE v \in Before
    BY <1>2 DEF ComplementLoop
  <2>2. v \in Int
    BY <1>3
  <2>3. CASE v = i
    BY <1>1, <1>3, <1>4, <2>3
  <2>4. CASE v # i
    <3>1. v < i + 1 <=> v < i
      BY <1>3, <2>2, <2>4
    <3>2. QED
      BY <1>4, <2>1, <2>4, <3>1
  <2>5. QED
    BY <2>3, <2>4
<1>8. ComplementLoop'
  BY <1>1, <1>2, <1>5, <1>7 DEF ComplementLoop
<1>9. QED
  BY <1>1, <1>4, <1>6, <1>8 DEF IInv, TypeOK, LoopInv

LEMMA FilterEraseIInv == ASSUME IInv, FilterErase PROVE IInv'
<1> DEFINE v == dense[i]
<1>1. /\ op = "filter" /\ i < size /\ v \notin keep /\ DoErase(v)
      /\ UNCHANGED loop
  BY DEF FilterErase
<1>2. DataOK /\ Linked /\ LoopOK /\ FilterLoop
  BY <1>1 DEF IInv, TypeOK, LoopInv
<1>3. /\ i \in 0 .. size - 1 /\ i \in Nat /\ size \in Nat
      /\ v \in Number /\ v \in Elements /\ sparse[v] = i
  BY <1>1, <1>2, Typed DEF LoopOK, Elements, Linked
<1>4. EraseNoCheck(v)
  BY <1>1, <1>2, <1>3, ContainsIsMembership DEF DoErase
<1>5. /\ DataOK' /\ Linked' /\ Elements' = Elements \ {v}
      /\ \A j \in 0 .. size - 1 : j < i => dense'[j] = dense[j]
  BY <1>2, <1>3, <1>4, EraseNoCheckRemoves
<1>6. size' = size - 1 /\ i' = i /\ keep' = keep /\ op' = op
  BY <1>1, <1>4 DEF EraseNoCheck, loop
<1>7. Before' = Before
  BY <1>1 DEF Before, loop
<1>8. LoopOK'
  BY <1>1, <1>2, <1>7 DEF LoopOK, loop
<1>9. FilterLoop'
  <2>1. \A j \in 0 .. i - 1 : j \in 0 .. size - 1 /\ j < i
    BY <1>3
  <2>2. i <= size - 1
    BY <1>3
  <2> HIDE DEF v
  <2>3. QED
    BY <1>1, <1>2, <1>5, <1>6, <1>7, <2>1, <2>2 DEF FilterLoop
<1>10. QED
  BY <1>1, <1>5, <1>6, <1>8, <1>9 DEF IInv, TypeOK, LoopInv

LEMMA FilterAdvanceIInv == ASSUME IInv, FilterAdvance PROVE IInv'
<1>1. /\ op = "filter" /\ i < size /\ dense[i] \in keep /\ i' = i + 1
      /\ UNCHANGED data
      /\ UNCHANGED <<op, limit, old_domain_size, keep, ren, pre>>
  BY DEF FilterAdvance
<1>2. DataOK /\ Linked /\ LoopOK /\ FilterLoop
  BY <1>1 DEF IInv, TypeOK, LoopInv
<1>3. DataOK' /\ Linked' /\ Elements' = Elements /\ Before' = Before
  BY <1>1, <1>2 DEF data, DataOK, Linked, Elements, Before
<1>4. i \in Nat /\ size \in Nat /\ size <= Bound /\ Bound \in Nat
  BY <1>2, Typed DEF LoopOK
<1>5. LoopOK'
  BY <1>1, <1>2, <1>3, <1>4 DEF LoopOK
<1>6. FilterLoop'
  BY <1>1, <1>2, <1>3, <1>4 DEF FilterLoop, data
<1>7. QED
  BY <1>1, <1>3, <1>5, <1>6 DEF IInv, TypeOK, LoopInv

LEMMA RenameStepIInv == ASSUME IInv, RenameStep PROVE IInv'
<1> DEFINE new == ren[dense[i]]
           grow == new >= domain_size
           z == IF grow THEN new + 1 ELSE domain_size
           m == IF grow THEN new + 1 ELSE len
           d == [dense EXCEPT ![i] = new]
           dd == IF grow THEN Resize(d, new + 1) ELSE d
           ss == IF grow THEN Resize(sparse, new + 1) ELSE sparse
<1>1. /\ op = "rename" /\ i < size /\ i' = i + 1
      /\ UNCHANGED <<op, limit, old_domain_size, keep, ren, pre>>
      /\ size' = size
  BY DEF RenameStep, data
<1>2. DataOK /\ LoopOK /\ RenameLoop
  BY <1>1 DEF IInv, TypeOK, LoopInv
<1>3. /\ size \in Nat /\ domain_size \in Nat /\ len \in Nat /\ Bound \in Nat
      /\ size <= domain_size /\ domain_size <= len /\ len <= Bound
      /\ i \in Nat /\ i \in 0 .. size - 1 /\ i \in 0 .. len - 1
  BY <1>1, <1>2, Typed DEF LoopOK
<1>4. /\ dense[i] = pre[i] /\ pre[i] \in Number /\ new = ren[pre[i]]
      /\ new \in Number /\ new \in Nat /\ new < Bound
  BY <1>2, <1>3 DEF RenameLoop, Number
<1>5. Before' = Before
  BY <1>1 DEF Before
<1>6. LoopOK'
  BY <1>1, <1>2, <1>3, <1>5 DEF LoopOK
<1>7. CASE dense[i] = new
  <2>1. UNCHANGED data
    BY <1>7 DEF RenameStep
  <2>2. DataOK'
    BY <1>2, <2>1 DEF DataOK, data
  <2>3. RenameLoop'
    <3>1. dense' = dense /\ sparse' = sparse /\ domain_size' = domain_size
      BY <2>1 DEF data
    <3>2. \A j \in 0 .. i : dense[j] = ren[pre[j]] /\ sparse[dense[j]] = j
      BY <1>2, <1>3, <1>4, <1>7 DEF RenameLoop
    <3>3. \A j \in i + 1 .. size - 1 :
            dense[j] = pre[j] /\ (ren[pre[j]] = pre[j] => sparse[pre[j]] = j)
      BY <1>2, <1>3 DEF RenameLoop
    <3>4. QED
      BY <1>1, <1>2, <1>3, <3>1, <3>2, <3>3 DEF RenameLoop
  <2>4. QED
    BY <1>1, <1>6, <2>2, <2>3 DEF IInv, TypeOK, LoopInv
<1>8. CASE dense[i] # new
  <2>1. /\ dense' = dd /\ sparse' = [ss EXCEPT ![new] = i]
        /\ len' = m /\ domain_size' = z
    BY <1>8 DEF RenameStep
  <2>2. /\ z \in Nat /\ m \in Nat /\ new < z /\ domain_size <= z /\ z <= m
        /\ m <= Bound
    BY <1>3, <1>4
  <2>3. /\ dd \in [0 .. m - 1 -> Number] /\ ss \in [0 .. m - 1 -> Number]
        /\ \A j \in 0 .. domain_size - 1 :
             dd[j] = (IF j = i THEN new ELSE dense[j]) /\ ss[j] = sparse[j]
    <3>1. /\ 0 \in Number
          /\ d \in [0 .. len - 1 -> Number]
          /\ \A j \in 0 .. len - 1 : d[j] = IF j = i THEN new ELSE dense[j]
      BY <1>2, <1>3, <1>4 DEF DataOK, Number
    <3>2. CASE grow
      <4> HIDE DEF d, new
      <4>1. /\ m - 1 = new /\ (new + 1) - 1 = new
            /\ \A j \in 0 .. domain_size - 1 : j \in 0 .. new /\ j < len
        BY <1>3, <1>4, <3>2
      <4>2. /\ dd = [j \in 0 .. new |-> IF j < len THEN d[j] ELSE 0]
            /\ ss = [j \in 0 .. new |-> IF j < len THEN sparse[j] ELSE 0]
        BY <3>2, <4>1 DEF Resize
      <4>3. \A j \in 0 .. new : j < len =>
              /\ d[j] \in Number /\ sparse[j] \in Number
              /\ d[j] = IF j = i THEN new ELSE dense[j]
        BY <1>2, <1>3, <1>4, <3>1 DEF DataOK
      <4> HIDE DEF dd, ss, m
      <4>4. dd \in [0 .. new -> Number] /\ ss \in [0 .. new -> Number]
        BY <3>1, <4>2, <4>3
      <4>5. QED
        BY <4>1, <4>2, <4>3, <4>4
    <3>3. CASE ~grow
      BY <1>2, <1>3, <3>1, <3>3 DEF DataOK
    <3>4. QED
      BY <3>2, <3>3
  <2> HIDE DEF new, grow, z, m, d, dd, ss
  <2>4. DataOK'
    <3>1. i \in Number
      BY <1>3 DEF Number
    <3>2. sparse' \in [0 .. m - 1 -> Number]
      BY <2>1, <2>3, <3>1
    <3>3. size \in 0 .. z /\ z \in 0 .. m /\ m \in 0 .. Bound
      BY <1>3, <2>2
    <3>4. QED
      BY <1>1, <2>1, <2>3, <3>2, <3>3 DEF DataOK
  <2>5. \A j \in 0 .. size - 1 : dense'[j] = IF j = i THEN new ELSE dense[j]
    BY <1>3, <2>1, <2>3
  <2>6. \A v \in 0 .. domain_size - 1 : v # new => sparse'[v] = sparse[v]
    <3> SUFFICES ASSUME NEW v \in 0 .. domain_size - 1, v # new
                 PROVE  sparse'[v] = sparse[v]
      OBVIOUS
    <3>1. v \in 0 .. m - 1
      BY <1>3, <2>2
    <3>2. QED
      BY <2>1, <2>3, <3>1
  <2>7. sparse'[new] = i
    <3>1. new \in 0 .. m - 1
      BY <1>4, <2>2
    <3>2. QED
      BY <2>1, <2>3, <3>1
  <2>8. \A j \in 0 .. size - 1 :
          /\ j \in Nat /\ dense[j] \in 0 .. domain_size - 1
          /\ pre[j] \in Number /\ (j # i => ren[pre[j]] # new)
    <3> SUFFICES ASSUME NEW j \in 0 .. size - 1
                 PROVE  /\ j \in Nat /\ dense[j] \in 0 .. domain_size - 1
                        /\ pre[j] \in Number /\ (j # i => ren[pre[j]] # new)
      OBVIOUS
    <3>1. pre[j] \in Number /\ dense[j] < domain_size
      BY <1>2 DEF RenameLoop
    <3>2. dense[j] \in Nat
      BY <1>2, Typed DEF Number
    <3>3. j # i => ren[pre[j]] # ren[pre[i]]
      BY <1>2, <1>3 DEF RenameLoop
    <3>4. QED
      BY <1>3, <1>4, <3>1, <3>2, <3>3
  <2>9. ASSUME NEW j \in 0 .. i
        PROVE  dense'[j] = ren[pre[j]] /\ sparse'[dense'[j]] = j
    <3>1. CASE j = i
      BY <1>3, <1>4, <2>5, <2>7, <3>1
    <3>2. CASE j # i
      <4>1. j \in 0 .. i - 1 /\ j \in 0 .. size - 1
        BY <1>3, <3>2
      <4>2. dense[j] = ren[pre[j]] /\ sparse[dense[j]] = j
        BY <1>2, <4>1 DEF RenameLoop
      <4>3. QED
        BY <2>5, <2>6, <2>8, <3>2, <4>1, <4>2
    <3>3. QED
      BY <3>1, <3>2
  <2>10. ASSUME NEW j \in i + 1 .. size - 1
         PROVE  dense'[j] = pre[j] /\ (ren[pre[j]] = pre[j] => sparse'[pre[j]] = j)
    <3>1. j \in i .. size - 1 /\ j \in 0 .. size - 1 /\ j # i
      BY <1>3
    <3>2. dense[j] = pre[j] /\ (ren[pre[j]] = pre[j] => sparse[pre[j]] = j)
      BY <1>2, <3>1 DEF RenameLoop
    <3>3. QED
      BY <2>5, <2>6, <2>8, <3>1, <3>2
  <2>11. \A j \in 0 .. size - 1 : dense'[j] < z
    BY <1>3, <1>4, <2>2, <2>5, <2>8
  <2>12. RenameLoop'
    <3>1. i + 1 <= size
      BY <1>3
    <3>2. \A j \in 0 .. (i + 1) - 1 : j \in 0 .. i
      BY <1>3
    <3>3. QED
      BY <1>1, <1>2, <2>1, <2>9, <2>10, <2>11, <3>1, <3>2 DEF RenameLoop
  <2>13. QED
    BY <1>1, <1>6, <2>4, <2>12 DEF IInv, TypeOK, LoopInv
<1>9. QED
  BY <1>7, <1>8

LEMMA RenamedLinked ==
  ASSUME IInv, op = "rename", i >= size
  PROVE  Linked /\ Elements = {ren[v] : v \in Before}
<1>1. DataOK /\ LoopOK /\ RenameLoop
  BY DEF IInv, TypeOK, LoopInv
<1>2. i = size /\ size \in Nat
  BY <1>1, Typed DEF RenameLoop, LoopOK
<1>3. Linked
  BY <1>1, <1>2 DEF RenameLoop, Linked
<1>4. /\ DOMAIN pre = 0 .. size - 1
      /\ \A j \in 0 .. size - 1 : dense[j] = ren[pre[j]]
  BY <1>1, <1>2 DEF RenameLoop
<1>5. QED
  BY <1>3, <1>4 DEF Elements, Before

LEMMA NextIInv == ASSUME IInv, [Next]_vars PROVE IInv'
<1>1. ASSUME NEW u \in 0 .. Bound, reserve(u) PROVE IInv'
  BY <1>1, ReserveKeeps, SingleStep DEF reserve, IInv, TypeOK, LoopInv, Idle
<1>2. ASSUME sort PROVE IInv'
  BY <1>2, SortKeeps, SingleStep DEF sort, IInv, TypeOK, LoopInv, Idle
<1>3. CASE Call
  BY <1>1, <1>2, <1>3, InsertIInv, EraseIInv, ClearIInv, TruncateIInv, MovedFromIInv,
     ComplementIInv, FilterIInv, RenameIInv DEF Call
<1>4. ASSUME ComplementReturn PROVE IInv'
  BY <1>4, LeaveIInv DEF ComplementReturn, Leave, IInv, LoopInv
<1>5. ASSUME FilterReturn PROVE IInv'
  BY <1>5, LeaveIInv DEF FilterReturn, Leave, IInv, LoopInv
<1>6. ASSUME RenameReturn PROVE IInv'
  BY <1>6, LeaveIInv, RenamedLinked DEF RenameReturn, Leave
<1>7. CASE LoopStep
  BY <1>4, <1>5, <1>6, <1>7, ComplementToggleIInv, ComplementDropIInv, FilterEraseIInv,
     FilterAdvanceIInv, RenameStepIInv DEF LoopStep
<1>8. CASE UNCHANGED vars
  <2>1. Elements' = Elements /\ Before' = Before
    BY <1>8 DEF vars, Elements, Before
  <2>2. TypeOK'
    BY <1>8, <2>1 DEF vars, IInv, TypeOK, DataOK, LoopOK
  <2>3. Linked' <=> Linked
    BY <1>8 DEF vars, Linked
  <2>4. RenameLoop' <=> RenameLoop
    BY <1>8 DEF vars, RenameLoop
  <2>5. ComplementLoop' <=> ComplementLoop
    BY <1>8, <2>1 DEF vars, ComplementLoop
  <2>6. FilterLoop' <=> FilterLoop
    BY <1>8, <2>1 DEF vars, FilterLoop
  <2>7. QED
    BY <1>8, <2>2, <2>3, <2>4, <2>5, <2>6 DEF vars, IInv, LoopInv
<1>9. QED
  BY <1>3, <1>7, <1>8 DEF Next

THEOREM IInvHolds == Spec => []IInv
<1>1. Init => IInv
  BY InitIInv
<1>2. IInv /\ [Next]_vars => IInv'
  BY NextIInv
<1>3. QED
  BY <1>1, <1>2, PTL DEF Spec

(* The vectors and the sizes stay typed: size <= domain_size <= length.     *)
THEOREM TypeCorrect == Spec => []TypeOK
BY IInvHolds, PTL DEF IInv

(* Half-done loops keep what their completion relies on.                    *)
THEOREM LoopInvHolds == Spec => []LoopInv
BY IInvHolds, PTL DEF IInv

(* contains() is exact between calls, left-overs notwithstanding.           *)
THEOREM MembershipIsExact == Spec => []MembershipExact
<1>1. IInv => MembershipExact
  BY ContainsIsMembership, Distinct
     DEF IInv, TypeOK, LoopInv, MembershipExact, Idle
<1>2. QED
  BY <1>1, IInvHolds, PTL

------------------------------------------------------------------------------
(* Refinement: SparseSet implements NumberSet.                              *)

AbstractSet == IF op = "none" THEN Elements ELSE Before

LEMMA AbsInit == Init => Abs!Init
BY DEF Init, Abs!Init, Elements, NoRenaming, Abs!NoRenaming

absvars == <<AbstractSet, op, limit, keep, ren>>

LEMMA AbsCall == ASSUME IInv, Call PROVE [Abs!Next]_absvars
<1>1. Idle /\ DataOK /\ Linked
  BY DEF Call, insert, erase, reserve, clear, truncate, moved_from, sort, complement,
         filter, rename, Enter, Idle, IInv, TypeOK, LoopInv
<1>2. op = "none" /\ AbstractSet = Elements
  BY <1>1 DEF Idle, AbstractSet
<1>3. ASSUME UNCHANGED loop
      PROVE  AbstractSet' = Elements' /\ UNCHANGED <<op, limit, keep, ren>>
  BY <1>2, <1>3 DEF loop, AbstractSet
<1>4. ASSUME NEW v \in Number, insert(v) PROVE Abs!Insert(v)
  BY <1>1, <1>2, <1>3, <1>4, InsertAdds
     DEF insert, Abs!Insert, Abs!Idle, Abs!args, AbstractSet
<1>5. ASSUME NEW v \in Number, erase(v) PROVE Abs!Erase(v)
  BY <1>1, <1>2, <1>3, <1>5, EraseRemoves
     DEF erase, Abs!Erase, Abs!Idle, Abs!args, AbstractSet
<1>6. ASSUME NEW u \in 0 .. Bound, reserve(u) PROVE UNCHANGED absvars
  BY <1>1, <1>2, <1>3, <1>6, ReserveKeeps DEF reserve, absvars
<1>7. ASSUME clear PROVE Abs!Clear
  <2>1. Elements' = {}
    BY <1>7 DEF clear, Elements
  <2>2. QED
    BY <1>2, <1>3, <1>7, <2>1 DEF clear, Abs!Clear, Abs!Idle, Abs!args, AbstractSet
<1>8. ASSUME truncate PROVE UNCHANGED absvars
  <2>1. Elements' = Elements
    BY <1>8 DEF truncate, Elements
  <2>2. QED
    BY <1>2, <1>3, <1>8, <2>1 DEF truncate, absvars
<1>9. ASSUME moved_from PROVE Abs!Clear
  <2>1. Elements' = {}
    BY <1>9 DEF moved_from, Elements
  <2>2. QED
    BY <1>2, <1>3, <1>9, <2>1 DEF moved_from, Abs!Clear, Abs!Idle, Abs!args, AbstractSet
<1>10. ASSUME sort PROVE UNCHANGED absvars
  BY <1>1, <1>2, <1>3, <1>10, SortKeeps DEF sort, absvars
<1>11. ASSUME NEW name \in {"complement", "filter", "rename"}, Enter(name)
       PROVE  op' = name /\ AbstractSet' = AbstractSet
  <2>1. op' = name /\ Before' = Elements
    BY <1>11, EnterKeeps
  <2>2. QED
    BY <1>2, <2>1 DEF AbstractSet
<1>12. Abs!Number = Number
  BY DEF Abs!Number, Number
<1>13. ASSUME NEW z \in 0 .. Bound, complement(z) PROVE Abs!Complement(z)
  BY <1>2, <1>11, <1>13 DEF complement, Abs!Complement, Abs!Begin, AbstractSet
<1>14. ASSUME NEW K \in SUBSET Number, filter(K) PROVE Abs!Filter(K)
  BY <1>2, <1>11, <1>14 DEF filter, Abs!Filter, Abs!Begin, AbstractSet
<1>15. ASSUME NEW f \in [Number -> Number], rename(f) PROVE Abs!Rename(f)
  BY <1>2, <1>11, <1>15
     DEF rename, Abs!Rename, Abs!Begin, Abs!OneToOneOn, AbstractSet
<1>16. CASE \/ \E v \in Number : insert(v) \/ erase(v)
            \/ clear \/ moved_from
  BY <1>4, <1>5, <1>7, <1>9, <1>12, <1>16 DEF Abs!Next
<1>17. CASE \/ \E z \in 0 .. Bound : complement(z)
            \/ \E K \in SUBSET Number : filter(K)
            \/ \E f \in [Number -> Number] : rename(f)
  BY <1>12, <1>13, <1>14, <1>15, <1>17 DEF Abs!Next
<1>18. CASE (\E u \in 0 .. Bound : reserve(u)) \/ truncate \/ sort
  BY <1>6, <1>8, <1>10, <1>18
<1>19. QED
  BY <1>16, <1>17, <1>18 DEF Call

LEMMA AbsLeave ==
  ASSUME IInv, NEW name \in {"complement", "filter", "rename"}, Leave(name)
  PROVE  /\ op = name /\ AbstractSet = Before /\ AbstractSet' = Elements
         /\ op' = "none" /\ limit' = 0 /\ keep' = {} /\ ren' = Abs!NoRenaming
BY DEF Leave, AbstractSet, data, Elements, NoRenaming, Abs!NoRenaming

LEMMA AbsLoopStep == ASSUME IInv, LoopStep PROVE [Abs!Next]_absvars
<1> USE DEF IInv, TypeOK, LoopInv
<1>2. ASSUME ComplementReturn PROVE Abs!Return
  <2>1. /\ Leave("complement") /\ op = "complement"
        /\ i >= limit /\ i >= old_domain_size
    BY <1>2 DEF ComplementReturn, Leave
  <2>2. /\ ComplementLoop /\ DataOK /\ LoopOK
        /\ limit \in Nat /\ limit <= Bound /\ Bound \in Nat /\ i \in Nat
        /\ old_domain_size \in Nat
        /\ Elements \subseteq Number
    BY <2>1, Typed DEF LoopOK, Elements
  <2>3. \A v \in Number :
          /\ v \in 0 .. limit - 1 <=> v < limit
          /\ v \in Elements <=> v < limit /\ v \notin Before
    <3> SUFFICES ASSUME NEW v \in Number
                 PROVE  /\ v \in 0 .. limit - 1 <=> v < limit
                        /\ v \in Elements <=> v < limit /\ v \notin Before
      OBVIOUS
    <3>1. v \in Nat
      BY DEF Number
    <3>2. v \in Elements <=> IF v < i THEN v < limit /\ v \notin Before
                                     ELSE v \in Before
      BY <2>2 DEF ComplementLoop
    <3>3. v \in Before => v < old_domain_size
      BY <2>2 DEF ComplementLoop
    <3>4. QED
      BY <2>1, <2>2, <3>1, <3>2, <3>3
  <2>4. 0 .. limit - 1 \subseteq Number
    BY <2>2 DEF Number
  <2>5. Elements = (0 .. limit - 1) \ Before
    BY <2>2, <2>3, <2>4
  <2>6. QED
    BY <2>1, <2>5, AbsLeave DEF Abs!Return, AbstractSet
<1>3. ASSUME FilterReturn PROVE Abs!Return
  <2>1. Leave("filter") /\ op = "filter" /\ i >= size
    BY <1>3 DEF FilterReturn, Leave
  <2>2. FilterLoop /\ DataOK /\ LoopOK
    BY <2>1
  <2>3. i = size
    BY <2>1, <2>2, Typed DEF FilterLoop, LoopOK
  <2>4. Elements = Before \cap keep
    BY <2>2, <2>3 DEF FilterLoop, Elements
  <2>5. QED
    BY <2>1, <2>4, AbsLeave DEF Abs!Return, AbstractSet
<1>4. ASSUME RenameReturn PROVE Abs!Return
  <2>1. Leave("rename") /\ op = "rename" /\ i >= size
    BY <1>4 DEF RenameReturn, Leave
  <2>2. Elements = {ren[v] : v \in Before}
    BY <2>1, RenamedLinked
  <2>3. QED
    BY <2>1, <2>2, AbsLeave DEF Abs!Return, AbstractSet
<1>5. ASSUME op # "none", UNCHANGED <<op, limit, keep, ren, pre>>
      PROVE  UNCHANGED absvars
  BY <1>5 DEF AbstractSet, Before, absvars
<1>6. ASSUME ComplementToggle \/ ComplementDrop \/ FilterErase \/ FilterAdvance
             \/ RenameStep
      PROVE  UNCHANGED absvars
  BY <1>5, <1>6 DEF ComplementToggle, ComplementDrop, FilterErase, FilterAdvance,
                    RenameStep, loop
<1>7. QED
  BY <1>2, <1>3, <1>4, <1>6 DEF LoopStep, Abs!Next

(* Whatever the calls leave in the vectors, the structure is the set of     *)
(* numbers its calls describe.                                              *)
THEOREM SparseSetImplementsNumberSet == Spec => ImplementsSet
<1>1. IInv /\ [Next]_vars => [Abs!Next]_absvars
  <2> SUFFICES ASSUME IInv, [Next]_vars PROVE [Abs!Next]_absvars
    OBVIOUS
  <2>1. CASE UNCHANGED vars
    BY <2>1 DEF vars, absvars, AbstractSet, Elements, Before
  <2>2. QED
    BY <2>1, AbsCall, AbsLoopStep DEF Next
<1>2. QED
  BY <1>1, AbsInit, IInvHolds, PTL
     DEF Spec, ImplementsSet, Abs!Spec, Abs!vars, absvars, AbstractSet

------------------------------------------------------------------------------
(***************************************************************************)
(* What an automaton reads between two places of a word, when epsilons are *)
(* silent: configurations are a state and a place.  One leads to another   *)
(* by a move of D; what is reached from the initial states at a place is   *)
(* in every set of configurations that nothing leads out of.               *)
(***************************************************************************)
Places(w) == 0 .. Len(w)
Configurations(w) == SUBSET (Nat \X Places(w))

Leads(D, w, p, k, q, l) ==
  \/ l = k /\ <<p, EPSILON, q>> \in D
  \/ l = k + 1 /\ k < Len(w) /\ w[l] # EPSILON /\ <<p, w[l], q>> \in D

Begins(A, j, X) == \A q \in A.initial : <<q, j>> \in X
Follows(D, w, X) ==
  \A p, q \in Nat : \A k, l \in Places(w) :
    <<p, k>> \in X /\ Leads(D, w, p, k, q, l) => <<q, l>> \in X

Reached(A, w, j) ==
  {c \in Nat \X Places(w) :
     \A X \in Configurations(w) : Begins(A, j, X) /\ Follows(A.delta, w, X) => c \in X}

Spells(A, w, j, l) == \E f \in A.final : <<f, l>> \in Reached(A, w, j)

IsWord(w) == w \in Seq(Nat)
LEMMA WordPlaces ==
  ASSUME NEW w, IsWord(w)
  PROVE  Len(w) \in Nat /\ 0 \in Places(w) /\ Len(w) \in Places(w) /\ Places(w) \subseteq Nat
BY LenProperties DEF IsWord, Places

(* Automata whose states are among the numbers of Q.                        *)
IsWithinStates(A, Q) ==
  /\ Q \subseteq Nat /\ A.initial \subseteq Q /\ A.final \subseteq Q
  /\ A.delta \subseteq Q \X Nat \X Q

LEMMA ReachedIsLeast ==
  ASSUME NEW A, NEW w, NEW j, NEW X \in Configurations(w), Begins(A, j, X), Follows(A.delta, w, X)
  PROVE  Reached(A, w, j) \subseteq X
BY DEF Reached

LEMMA ReachedInside ==
  ASSUME NEW A, NEW w, NEW j
  PROVE  Reached(A, w, j) \in Configurations(w)
BY DEF Reached, Configurations

LEMMA ReachedHolds ==
  ASSUME NEW A, NEW Q, IsWithinStates(A, Q), NEW w, NEW j \in Places(w)
  PROVE  Begins(A, j, Reached(A, w, j)) /\ Follows(A.delta, w, Reached(A, w, j))
<1>1. ASSUME NEW q \in A.initial PROVE <<q, j>> \in Reached(A, w, j)
  <2>1. <<q, j>> \in Nat \X Places(w)
    BY DEF IsWithinStates
  <2>2. QED
    BY <2>1 DEF Reached, Begins
<1>2. ASSUME NEW p \in Nat, NEW q \in Nat, NEW k \in Places(w), NEW l \in Places(w),
             <<p, k>> \in Reached(A, w, j), Leads(A.delta, w, p, k, q, l)
      PROVE  <<q, l>> \in Reached(A, w, j)
  <2>1. ASSUME NEW X \in Configurations(w), Begins(A, j, X), Follows(A.delta, w, X)
        PROVE  <<q, l>> \in X
    <3>1. <<p, k>> \in X
      BY <1>2, <2>1 DEF Reached
    <3>2. QED
      BY <1>2, <2>1, <3>1 DEF Follows
  <2>2. <<q, l>> \in Nat \X Places(w)
    OBVIOUS
  <2>3. QED
    BY <2>1, <2>2 DEF Reached
<1>3. QED
  BY <1>1, <1>2 DEF Begins, Follows

(* The set of the configurations of a word that have a property.            *)
LEMMA SpelledIsMet ==
  ASSUME NEW A, NEW w, NEW j, NEW l, Spells(A, w, j, l),
         NEW X \in Configurations(w), Begins(A, j, X), Follows(A.delta, w, X)
  PROVE  \E f \in A.final : <<f, l>> \in X
<1>1. PICK f \in A.final : <<f, l>> \in Reached(A, w, j)
  BY DEF Spells
<1>2. QED
  BY <1>1, ReachedIsLeast

(* A word is read forwards.                                                 *)
LEMMA SpelledForwards ==
  ASSUME NEW A, NEW Q, IsWithinStates(A, Q), NEW w, IsWord(w), NEW j \in Places(w), NEW l,
         Spells(A, w, j, l)
  PROVE  l \in Places(w) /\ j <= l
<1> DEFINE X == {c \in Nat \X Places(w) : j <= c[2]}
<1>1. X \in Configurations(w)
  BY DEF Configurations
<1>2. Begins(A, j, X)
  <2>1. j <= j
    BY WordPlaces
  <2>2. QED
    BY <2>1 DEF Begins, IsWithinStates
<1>3. Follows(A.delta, w, X)
  <2> SUFFICES ASSUME NEW p \in Nat, NEW q \in Nat, NEW k \in Places(w), NEW m \in Places(w),
                      <<p, k>> \in X, Leads(A.delta, w, p, k, q, m)
               PROVE  <<q, m>> \in X
    BY DEF Follows
  <2>1. j <= k /\ (m = k \/ m = k + 1)
    BY DEF Leads
  <2>2. j <= m
    BY <2>1, WordPlaces
  <2>3. QED
    BY <2>2
<1>4. PICK f \in A.final : <<f, l>> \in X
  <2> HIDE DEF X
  <2>1. QED
    BY <1>1, <1>2, <1>3, SpelledIsMet
<1>5. QED
  BY <1>4

------------------------------------------------------------------------------
(* The automata that the operations build.                                  *)

(* Two automata side by side.                                               *)
AreBeside(A, B, C) ==
  /\ C.initial = A.initial \cup B.initial /\ C.final = A.final \cup B.final
  /\ C.delta = A.delta \cup B.delta

LEMMA SpelledByEither ==
  ASSUME NEW A, NEW B, NEW C, NEW Q, NEW R, IsWithinStates(A, Q), IsWithinStates(B, R),
         Q \cap R = {}, AreBeside(A, B, C), NEW w, IsWord(w), NEW j \in Places(w), NEW l \in Places(w)
  PROVE  Spells(C, w, j, l) <=> Spells(A, w, j, l) \/ Spells(B, w, j, l)
<1> DEFINE RA == Reached(A, w, j)
           RB == Reached(B, w, j)
           RC == Reached(C, w, j)
<1>1. IsWithinStates(C, Q \cup R)
  BY DEF AreBeside, IsWithinStates
<1>2. /\ RC \in Configurations(w) /\ Begins(C, j, RC) /\ Follows(C.delta, w, RC)
      /\ RA \in Configurations(w) /\ Begins(A, j, RA) /\ Follows(A.delta, w, RA)
      /\ RB \in Configurations(w) /\ Begins(B, j, RB) /\ Follows(B.delta, w, RB)
  BY <1>1, ReachedInside, ReachedHolds
<1>3. RA \subseteq RC
  <2>1. Begins(A, j, RC) /\ Follows(A.delta, w, RC)
    BY <1>2 DEF Begins, Follows, Leads, AreBeside
  <2>2. QED
    BY <1>2, <2>1, ReachedIsLeast
<1>4. RB \subseteq RC
  <2>1. Begins(B, j, RC) /\ Follows(B.delta, w, RC)
    BY <1>2 DEF Begins, Follows, Leads, AreBeside
  <2>2. QED
    BY <1>2, <2>1, ReachedIsLeast
<1> DEFINE X == {c \in Nat \X Places(w) : (c[1] \in Q /\ c \in RA) \/ (c[1] \in R /\ c \in RB)}
<1>5. X \in Configurations(w)
  BY DEF Configurations
<1>6. Begins(C, j, X)
  BY <1>2 DEF Begins, AreBeside, IsWithinStates
<1>7. Follows(C.delta, w, X)
  <2> SUFFICES ASSUME NEW p \in Nat, NEW q \in Nat, NEW k \in Places(w), NEW m \in Places(w),
                      <<p, k>> \in X, Leads(C.delta, w, p, k, q, m)
               PROVE  <<q, m>> \in X
    BY DEF Follows
  <2>1. Leads(A.delta, w, p, k, q, m) \/ Leads(B.delta, w, p, k, q, m)
    BY DEF Leads, AreBeside
  <2>2. CASE Leads(A.delta, w, p, k, q, m)
    <3>1. p \in Q /\ q \in Q
      BY <2>2 DEF Leads, IsWithinStates
    <3>2. <<p, k>> \in RA
      BY <3>1
    <3>3. <<q, m>> \in RA
      BY <1>2, <2>2, <3>2 DEF Follows
    <3>4. QED
      BY <3>1, <3>3
  <2>3. CASE Leads(B.delta, w, p, k, q, m)
    <3>1. p \in R /\ q \in R
      BY <2>3 DEF Leads, IsWithinStates
    <3>2. <<p, k>> \in RB
      BY <3>1
    <3>3. <<q, m>> \in RB
      BY <1>2, <2>3, <3>2 DEF Follows
    <3>4. QED
      BY <3>1, <3>3
  <2>4. QED
    BY <2>1, <2>2, <2>3
<1>8. RC \subseteq X
  <2> HIDE DEF X
  <2>1. QED
    BY <1>5, <1>6, <1>7, ReachedIsLeast
<1>9. ASSUME Spells(C, w, j, l) PROVE Spells(A, w, j, l) \/ Spells(B, w, j, l)
  <2>1. PICK f \in C.final : <<f, l>> \in RC
    BY <1>9 DEF Spells
  <2>2. <<f, l>> \in X
    BY <1>8, <2>1
  <2>3. f \in A.final \/ f \in B.final
    BY DEF AreBeside
  <2>4. CASE f \in A.final
    <3>1. <<f, l>> \in RA
      BY <2>2, <2>4 DEF IsWithinStates
    <3>2. QED
      BY <2>4, <3>1 DEF Spells
  <2>5. CASE f \in B.final
    <3>1. <<f, l>> \in RB
      BY <2>2, <2>5 DEF IsWithinStates
    <3>2. QED
      BY <2>5, <3>1 DEF Spells
  <2>6. QED
    BY <2>3, <2>4, <2>5
<1>10. ASSUME Spells(A, w, j, l) \/ Spells(B, w, j, l) PROVE Spells(C, w, j, l)
  BY <1>3, <1>4, <1>10 DEF Spells, AreBeside
<1>11. QED
  BY <1>9, <1>10

------------------------------------------------------------------------------
(* A move on a that leads from place k to place l.                          *)
Takes(w, k, a, l) ==
  \/ l = k /\ a = EPSILON
  \/ l = k + 1 /\ k < Len(w) /\ w[l] # EPSILON /\ a = w[l]

(* The word between two places is cut where one part ends.                  *)
SpellsBoth(A, B, w, j, l) == \E k \in Places(w) : Spells(A, w, j, k) /\ Spells(B, w, k, l)

(* C: A and then B, joined by silent moves.                                 *)
AreJoinedSilently(A, B, C) ==
  /\ C.initial = A.initial /\ C.final = B.final
  /\ C.delta = A.delta \cup B.delta \cup (A.final \X {EPSILON} \X B.initial)

(* C: A and then B, when the final states of A have the moves of the        *)
(* initial states of B.                                                     *)
EntryMoves(A, B, S) == {m \in A.final \X Nat \X Nat : \E s \in S : <<s, m[2], m[3]>> \in B.delta}
AreJoinedByMoves(A, B, C) ==
  /\ C.initial = A.initial
  /\ C.final = B.final \cup (IF B.initial \cap B.final # {} THEN A.final ELSE {})
  /\ C.delta = A.delta \cup B.delta \cup EntryMoves(A, B, B.initial)

(* What is reached in a joined automaton, before and behind a cut.          *)
BeforeOrBehind(A, B, Q, R, w, j) ==
  {c \in Nat \X Places(w) :
     \/ c[1] \in Q /\ c \in Reached(A, w, j)
     \/ c[1] \in R /\ \E k \in Places(w) : Spells(A, w, j, k) /\ c \in Reached(B, w, k)}

LEMMA BeforeOrBehindHolds ==
  ASSUME NEW A, NEW B, NEW Q, NEW R, IsWithinStates(A, Q), IsWithinStates(B, R), Q \cap R = {},
         NEW w, IsWord(w), NEW j \in Places(w), NEW D,
         NEW J, D = A.delta \cup B.delta \cup J,
         \A p, q \in Nat : \A k, m \in Places(w) :
           Leads(J, w, p, k, q, m) =>
             p \in A.final /\ q \in R /\ \E s \in B.initial :
                (s = q /\ m = k) \/ Leads(B.delta, w, s, k, q, m)
  PROVE  Follows(D, w, BeforeOrBehind(A, B, Q, R, w, j))
<1> DEFINE X == BeforeOrBehind(A, B, Q, R, w, j)
<1> SUFFICES ASSUME NEW p \in Nat, NEW q \in Nat, NEW k \in Places(w), NEW m \in Places(w),
                    <<p, k>> \in X, Leads(D, w, p, k, q, m)
             PROVE  <<q, m>> \in X
  BY DEF Follows
<1>1. \/ Leads(A.delta, w, p, k, q, m) \/ Leads(B.delta, w, p, k, q, m) \/ Leads(J, w, p, k, q, m)
  BY DEF Leads
<1>2. <<q, m>> \in Nat \X Places(w)
  OBVIOUS
<1>3. CASE Leads(A.delta, w, p, k, q, m)
  <2>1. p \in Q /\ q \in Q
    BY <1>3 DEF Leads, IsWithinStates
  <2>2. <<p, k>> \in Reached(A, w, j)
    BY <2>1 DEF BeforeOrBehind
  <2>3. <<q, m>> \in Reached(A, w, j)
    BY <1>3, <2>2, ReachedHolds DEF Follows
  <2>4. QED
    BY <1>2, <2>1, <2>3 DEF BeforeOrBehind
<1>4. CASE Leads(B.delta, w, p, k, q, m)
  <2>1. p \in R /\ q \in R
    BY <1>4 DEF Leads, IsWithinStates
  <2>2. PICK z \in Places(w) : Spells(A, w, j, z) /\ <<p, k>> \in Reached(B, w, z)
    BY <2>1 DEF BeforeOrBehind
  <2>3. <<q, m>> \in Reached(B, w, z)
    BY <1>4, <2>2, ReachedHolds DEF Follows
  <2>4. QED
    BY <1>2, <2>1, <2>2, <2>3 DEF BeforeOrBehind
<1>5. CASE Leads(J, w, p, k, q, m)
  <2>1. /\ p \in A.final /\ q \in R
        /\ \E s \in B.initial : (s = q /\ m = k) \/ Leads(B.delta, w, s, k, q, m)
    BY <1>5
  <2>2. PICK s \in B.initial : (s = q /\ m = k) \/ Leads(B.delta, w, s, k, q, m)
    BY <2>1
  <2>3. p \in Q
    BY <2>1 DEF IsWithinStates
  <2>4. <<p, k>> \in Reached(A, w, j)
    BY <2>3 DEF BeforeOrBehind
  <2>5. Spells(A, w, j, k)
    BY <2>1, <2>4 DEF Spells
  <2>6. <<s, k>> \in Reached(B, w, k) /\ s \in Nat
    BY ReachedHolds DEF Begins, IsWithinStates
  <2>7. <<q, m>> \in Reached(B, w, k)
    <3>1. Follows(B.delta, w, Reached(B, w, k))
      BY ReachedHolds
    <3>2. QED
      BY <2>2, <2>6, <3>1 DEF Follows
  <2>8. QED
    BY <1>2, <2>1, <2>5, <2>7 DEF BeforeOrBehind
<1>6. QED
  BY <1>1, <1>3, <1>4, <1>5

LEMMA BeforeOrBehindBegins ==
  ASSUME NEW A, NEW B, NEW C, NEW Q, NEW R, IsWithinStates(A, Q), C.initial = A.initial,
         NEW w, NEW j \in Places(w)
  PROVE  /\ Begins(C, j, BeforeOrBehind(A, B, Q, R, w, j))
         /\ BeforeOrBehind(A, B, Q, R, w, j) \in Configurations(w)
<1>1. Begins(A, j, Reached(A, w, j))
  BY ReachedHolds
<1>2. QED
  BY <1>1 DEF Begins, BeforeOrBehind, IsWithinStates, Configurations

(* A final state of either part that has been reached.                      *)
LEMMA SpelledWhenMet ==
  ASSUME NEW A, NEW B, NEW Q, NEW R, IsWithinStates(A, Q), IsWithinStates(B, R), Q \cap R = {},
         NEW w, NEW j \in Places(w), NEW l \in Places(w), NEW f,
         <<f, l>> \in BeforeOrBehind(A, B, Q, R, w, j)
  PROVE  /\ f \in B.final => SpellsBoth(A, B, w, j, l)
         /\ f \in A.final => Spells(A, w, j, l)
<1>1. ASSUME f \in B.final PROVE SpellsBoth(A, B, w, j, l)
  <2>1. f \in R /\ f \notin Q
    BY <1>1 DEF IsWithinStates
  <2>2. PICK z \in Places(w) : Spells(A, w, j, z) /\ <<f, l>> \in Reached(B, w, z)
    BY <2>1 DEF BeforeOrBehind
  <2>3. QED
    BY <1>1, <2>2 DEF Spells, SpellsBoth
<1>2. ASSUME f \in A.final PROVE Spells(A, w, j, l)
  <2>1. f \in Q /\ f \notin R
    BY <1>2 DEF IsWithinStates
  <2>2. <<f, l>> \in Reached(A, w, j)
    BY <2>1 DEF BeforeOrBehind
  <2>3. QED
    BY <1>2, <2>2 DEF Spells
<1>3. QED
  BY <1>1, <1>2

LEMMA SpelledBySilentJoin ==
  ASSUME NEW A, NEW B, NEW C, NEW Q, NEW R, IsWithinStates(A, Q), IsWithinStates(B, R),
         Q \cap R = {}, EPSILON \in Nat, AreJoinedSilently(A, B, C),
         NEW w, IsWord(w), NEW j \in Places(w), NEW l \in Places(w)
  PROVE  Spells(C, w, j, l) <=> SpellsBoth(A, B, w, j, l)
<1> DEFINE X == BeforeOrBehind(A, B, Q, R, w, j)
           J == A.final \X {EPSILON} \X B.initial
<1>1. ASSUME Spells(C, w, j, l) PROVE SpellsBoth(A, B, w, j, l)
  <2>1. Begins(C, j, X) /\ X \in Configurations(w)
    BY BeforeOrBehindBegins DEF AreJoinedSilently
  <2>2. Follows(C.delta, w, X)
    <3>1. C.delta = A.delta \cup B.delta \cup J
      BY DEF AreJoinedSilently
    <3>2. ASSUME NEW p \in Nat, NEW q \in Nat, NEW k \in Places(w), NEW m \in Places(w),
                 Leads(J, w, p, k, q, m)
          PROVE  p \in A.final /\ q \in R /\ \E s \in B.initial :
                   (s = q /\ m = k) \/ Leads(B.delta, w, s, k, q, m)
      <4>1. p \in A.final /\ q \in B.initial /\ m = k
        BY <3>2 DEF Leads
      <4>2. QED
        BY <4>1 DEF IsWithinStates
    <3> HIDE DEF X, J
    <3>3. QED
      BY <3>1, <3>2, BeforeOrBehindHolds DEF X
  <2>3. PICK f \in C.final : <<f, l>> \in X
    <3> HIDE DEF X
    <3>1. QED
      BY <1>1, <2>1, <2>2, SpelledIsMet
  <2>4. f \in B.final
    BY DEF AreJoinedSilently
  <2>5. QED
    BY <2>3, <2>4, SpelledWhenMet
<1>2. ASSUME SpellsBoth(A, B, w, j, l) PROVE Spells(C, w, j, l)
  <2>1. PICK k \in Places(w) : Spells(A, w, j, k) /\ Spells(B, w, k, l)
    BY <1>2 DEF SpellsBoth
  <2>2. IsWithinStates(C, Q \cup R)
    BY DEF AreJoinedSilently, IsWithinStates
  <2>3. PICK Y : Y = Reached(C, w, j)
    OBVIOUS
  <2>4. Y \in Configurations(w) /\ Begins(C, j, Y) /\ Follows(C.delta, w, Y)
    BY <2>2, <2>3, ReachedHolds, ReachedInside
  <2>5. Begins(A, j, Y) /\ Follows(A.delta, w, Y) /\ Follows(B.delta, w, Y)
    BY <2>4 DEF Begins, Follows, Leads, AreJoinedSilently
  <2>6. PICK f \in A.final : <<f, k>> \in Y
    BY <2>1, <2>4, <2>5, SpelledIsMet
  <2>7. Begins(B, k, Y)
    <3> SUFFICES ASSUME NEW q \in B.initial PROVE <<q, k>> \in Y
      BY DEF Begins
    <3>1. f \in Nat /\ q \in Nat
      BY DEF IsWithinStates
    <3>2. Leads(C.delta, w, f, k, q, k)
      BY DEF Leads, AreJoinedSilently
    <3>3. QED
      BY <2>4, <2>6, <3>1, <3>2 DEF Follows
  <2>8. PICK g \in B.final : <<g, l>> \in Y
    BY <2>1, <2>4, <2>5, <2>7, SpelledIsMet
  <2>9. QED
    BY <2>3, <2>8 DEF Spells, AreJoinedSilently
<1>3. QED
  BY <1>1, <1>2

LEMMA SpelledByMoveJoin ==
  ASSUME NEW A, NEW B, NEW C, NEW Q, NEW R, IsWithinStates(A, Q), IsWithinStates(B, R),
         Q \cap R = {}, AreJoinedByMoves(A, B, C),
         NEW w, IsWord(w), NEW j \in Places(w), NEW l \in Places(w)
  PROVE  Spells(C, w, j, l) <=> SpellsBoth(A, B, w, j, l)
<1> DEFINE X == BeforeOrBehind(A, B, Q, R, w, j)
           J == EntryMoves(A, B, B.initial)
<1>1. ASSUME Spells(C, w, j, l) PROVE SpellsBoth(A, B, w, j, l)
  <2>1. Begins(C, j, X) /\ X \in Configurations(w)
    BY BeforeOrBehindBegins DEF AreJoinedByMoves
  <2>2. Follows(C.delta, w, X)
    <3>1. C.delta = A.delta \cup B.delta \cup J
      BY DEF AreJoinedByMoves
    <3>2. ASSUME NEW p \in Nat, NEW q \in Nat, NEW k \in Places(w), NEW m \in Places(w),
                 Leads(J, w, p, k, q, m)
          PROVE  p \in A.final /\ q \in R /\ \E s \in B.initial :
                   (s = q /\ m = k) \/ Leads(B.delta, w, s, k, q, m)
      <4>1. PICK a : <<p, a, q>> \in J /\ Takes(w, k, a, m)
        BY <3>2 DEF Leads, Takes
      <4>2. p \in A.final /\ \E s \in B.initial : <<s, a, q>> \in B.delta
        BY <4>1 DEF EntryMoves
      <4>3. PICK s \in B.initial : <<s, a, q>> \in B.delta
        BY <4>2
      <4>4. Leads(B.delta, w, s, k, q, m)
        BY <4>1, <4>3 DEF Leads, Takes
      <4>5. q \in R
        BY <4>3 DEF IsWithinStates
      <4>6. QED
        BY <4>2, <4>4, <4>5
    <3> HIDE DEF X, J
    <3>3. QED
      BY <3>1, <3>2, BeforeOrBehindHolds DEF X
  <2>3. PICK f \in C.final : <<f, l>> \in X
    <3> HIDE DEF X
    <3>1. QED
      BY <1>1, <2>1, <2>2, SpelledIsMet
  <2>4. CASE f \in B.final
    BY <2>3, <2>4, SpelledWhenMet
  <2>5. CASE f \in A.final /\ B.initial \cap B.final # {}
    <3>1. Spells(A, w, j, l)
      BY <2>3, <2>5, SpelledWhenMet
    <3>2. PICK g \in B.initial : g \in B.final
      BY <2>5
    <3>3. <<g, l>> \in Reached(B, w, l)
      BY ReachedHolds DEF Begins
    <3>4. QED
      BY <3>1, <3>2, <3>3 DEF Spells, SpellsBoth
  <2>6. QED
    BY <2>4, <2>5 DEF AreJoinedByMoves
<1>2. ASSUME SpellsBoth(A, B, w, j, l) PROVE Spells(C, w, j, l)
  <2>1. PICK k \in Places(w) : Spells(A, w, j, k) /\ Spells(B, w, k, l)
    BY <1>2 DEF SpellsBoth
  <2>2. IsWithinStates(C, Q \cup R)
    BY DEF AreJoinedByMoves, IsWithinStates, EntryMoves
  <2>3. PICK Y : Y = Reached(C, w, j)
    OBVIOUS
  <2>4. Y \in Configurations(w) /\ Begins(C, j, Y) /\ Follows(C.delta, w, Y)
    BY <2>2, <2>3, ReachedHolds, ReachedInside
  <2>5. Begins(A, j, Y) /\ Follows(A.delta, w, Y) /\ Follows(B.delta, w, Y)
    BY <2>4 DEF Begins, Follows, Leads, AreJoinedByMoves
  <2>6. PICK f \in A.final : <<f, k>> \in Y
    BY <2>1, <2>4, <2>5, SpelledIsMet
  <2> DEFINE Z == Y \cup (B.initial \X {k})
  <2>7. Begins(B, k, Z) /\ Z \in Configurations(w)
    BY <2>4 DEF Begins, Configurations, IsWithinStates
  <2>8. Follows(B.delta, w, Z)
    <3> SUFFICES ASSUME NEW p \in Nat, NEW q \in Nat, NEW z \in Places(w), NEW m \in Places(w),
                        <<p, z>> \in Z, Leads(B.delta, w, p, z, q, m)
                 PROVE  <<q, m>> \in Y
      BY DEF Follows
    <3>1. CASE <<p, z>> \in Y
      BY <2>5, <3>1 DEF Follows
    <3>2. CASE p \in B.initial /\ z = k
      <4>1. f \in Nat
        BY DEF IsWithinStates
      <4>2. Leads(C.delta, w, f, k, q, m)
        <5>1. PICK a : <<p, a, q>> \in B.delta /\ Takes(w, k, a, m)
          BY <3>2 DEF Leads, Takes
        <5>2. a \in Nat
          BY <5>1 DEF IsWithinStates
        <5>3. <<f, a, q>> \in EntryMoves(A, B, B.initial)
          BY <3>2, <5>1, <5>2 DEF EntryMoves
        <5>4. <<f, a, q>> \in C.delta
          BY <5>3 DEF AreJoinedByMoves
        <5>5. QED
          BY <5>1, <5>4 DEF Leads, Takes
      <4>3. QED
        BY <2>4, <2>6, <4>1, <4>2 DEF Follows
    <3>3. QED
      BY <3>1, <3>2
  <2>9. PICK g \in B.final : <<g, l>> \in Z
    <3> HIDE DEF Z
    <3>1. QED
      BY <2>1, <2>7, <2>8, SpelledIsMet
  <2>10. CASE <<g, l>> \in Y
    BY <2>3, <2>10 DEF Spells, AreJoinedByMoves
  <2>11. CASE g \in B.initial /\ l = k
    <3>1. f \in C.final
      BY <2>11 DEF AreJoinedByMoves
    <3>2. QED
      BY <2>3, <2>6, <2>11, <3>1 DEF Spells
  <2>12. QED
    BY <2>9, <2>10, <2>11
<1>3. QED
  BY <1>1, <1>2

(* Other numbers for the states make no difference.                         *)
IsRenumbering(A, B, k) ==
  /\ B.initial = Shifted(A.initial, k) /\ B.final = Shifted(A.final, k)
  /\ B.delta = Renumbered(A.delta, k)

LEMMA ShiftedMoves ==
  ASSUME NEW D, NEW k \in Nat, D \subseteq Nat \X Nat \X Nat
  PROVE  /\ Renumbered(D, k) \subseteq Nat \X Nat \X Nat
         /\ \A p, a, q \in Nat : <<p + k, a, q + k>> \in Renumbered(D, k) <=> <<p, a, q>> \in D
         /\ \A p, a, q \in Nat : <<p, a, q>> \in Renumbered(D, k) => p >= k /\ q >= k
<1>1. \A m \in D : m = <<m[1], m[2], m[3]>> /\ m[1] \in Nat /\ m[2] \in Nat /\ m[3] \in Nat
  OBVIOUS
<1>2. ASSUME NEW x \in Renumbered(D, k)
      PROVE  \E m \in D : x = <<m[1] + k, m[2], m[3] + k>>
  BY DEF Renumbered
<1>3. Renumbered(D, k) \subseteq Nat \X Nat \X Nat
  <2> SUFFICES ASSUME NEW x \in Renumbered(D, k) PROVE x \in Nat \X Nat \X Nat
    OBVIOUS
  <2>1. PICK m \in D : x = <<m[1] + k, m[2], m[3] + k>>
    BY <1>2
  <2>2. m[1] \in Nat /\ m[2] \in Nat /\ m[3] \in Nat
    BY <1>1
  <2>3. QED
    BY <2>1, <2>2
<1>4. ASSUME NEW p \in Nat, NEW a \in Nat, NEW q \in Nat, <<p + k, a, q + k>> \in Renumbered(D, k)
      PROVE  <<p, a, q>> \in D
  <2>1. PICK m \in D : <<p + k, a, q + k>> = <<m[1] + k, m[2], m[3] + k>>
    BY <1>2, <1>4
  <2>2. m[1] \in Nat /\ m[2] \in Nat /\ m[3] \in Nat /\ m = <<m[1], m[2], m[3]>>
    BY <1>1
  <2>3. m[1] = p /\ m[2] = a /\ m[3] = q
    BY <2>1, <2>2
  <2>4. QED
    BY <2>2, <2>3
<1>5. ASSUME NEW p \in Nat, NEW a \in Nat, NEW q \in Nat, <<p, a, q>> \in D
      PROVE  <<p + k, a, q + k>> \in Renumbered(D, k)
  BY <1>5 DEF Renumbered
<1>6. ASSUME NEW p \in Nat, NEW a \in Nat, NEW q \in Nat, <<p, a, q>> \in Renumbered(D, k)
      PROVE  p >= k /\ q >= k
  <2>1. PICK m \in D : <<p, a, q>> = <<m[1] + k, m[2], m[3] + k>>
    BY <1>2, <1>6
  <2>2. m[1] \in Nat /\ m[3] \in Nat
    BY <1>1
  <2>3. QED
    BY <2>1, <2>2
<1>7. QED
  BY <1>3, <1>4, <1>5, <1>6

LEMMA ShiftedLeads ==
  ASSUME NEW D, NEW s \in Nat, D \subseteq Nat \X Nat \X Nat, EPSILON \in Nat,
         NEW w, IsWord(w), NEW p \in Nat, NEW q \in Nat, NEW k \in Places(w), NEW l \in Places(w)
  PROVE  /\ Leads(Renumbered(D, s), w, p + s, k, q + s, l) <=> Leads(D, w, p, k, q, l)
         /\ Leads(Renumbered(D, s), w, p, k, q, l) => p >= s /\ q >= s
<1>1. k < Len(w) /\ l = k + 1 => w[l] \in Nat
  BY WordPlaces, ElementOfSeq DEF IsWord, Places
<1>2. QED
  BY <1>1, ShiftedMoves DEF Leads

LEMMA SpelledByRenumbered ==
  ASSUME NEW A, NEW B, NEW Q, NEW s \in Nat, IsWithinStates(A, Q), IsRenumbering(A, B, s),
         EPSILON \in Nat, NEW w, IsWord(w), NEW j \in Places(w), NEW l \in Places(w)
  PROVE  Spells(B, w, j, l) <=> Spells(A, w, j, l)
<1>1. A.delta \subseteq Nat \X Nat \X Nat /\ A.initial \subseteq Nat /\ A.final \subseteq Nat
  BY DEF IsWithinStates
<1>2. PICK Y : Y = Reached(A, w, j)
  OBVIOUS
<1>3. Y \in Configurations(w) /\ Begins(A, j, Y) /\ Follows(A.delta, w, Y)
  BY <1>2, ReachedHolds, ReachedInside
<1>4. IsWithinStates(B, Nat)
  BY <1>1, ShiftedMoves DEF IsWithinStates, IsRenumbering, Shifted
<1>5. PICK Z : Z = Reached(B, w, j)
  OBVIOUS
<1>6. Z \in Configurations(w) /\ Begins(B, j, Z) /\ Follows(B.delta, w, Z)
  BY <1>4, <1>5, ReachedHolds, ReachedInside
<1>7. ASSUME Spells(B, w, j, l) PROVE Spells(A, w, j, l)
  <2> DEFINE X == {c \in Nat \X Places(w) : c[1] >= s /\ <<c[1] - s, c[2]>> \in Y}
  <2>1. X \in Configurations(w)
    BY DEF Configurations
  <2>2. Begins(B, j, X)
    <3> SUFFICES ASSUME NEW q \in B.initial PROVE <<q, j>> \in X
      BY DEF Begins
    <3>1. PICK p \in A.initial : q = p + s
      BY DEF IsRenumbering, Shifted
    <3>2. p \in Nat /\ q - s = p /\ q >= s /\ q \in Nat
      BY <1>1, <3>1
    <3>3. QED
      BY <1>3, <3>1, <3>2 DEF Begins
  <2>3. Follows(B.delta, w, X)
    <3> SUFFICES ASSUME NEW p \in Nat, NEW q \in Nat, NEW k \in Places(w), NEW m \in Places(w),
                        <<p, k>> \in X, Leads(B.delta, w, p, k, q, m)
                 PROVE  <<q, m>> \in X
      BY DEF Follows
    <3>1. p >= s /\ q >= s
      BY <1>1, ShiftedLeads DEF IsRenumbering
    <3>2. PICK x \in Nat : p = x + s
      BY <3>1
    <3>3. PICK y \in Nat : q = y + s
      BY <3>1
    <3>4. Leads(A.delta, w, x, k, y, m)
      BY <1>1, <3>2, <3>3, ShiftedLeads DEF IsRenumbering
    <3>5. <<x, k>> \in Y
      BY <3>2
    <3>6. <<y, m>> \in Y
      BY <1>3, <3>4, <3>5 DEF Follows
    <3>7. q - s = y
      BY <3>3
    <3>8. QED
      BY <3>1, <3>6, <3>7
  <2>4. PICK f \in B.final : <<f, l>> \in X
    <3> HIDE DEF X
    <3>1. QED
      BY <1>7, <2>1, <2>2, <2>3, SpelledIsMet
  <2>5. PICK g \in A.final : f = g + s
    BY DEF IsRenumbering, Shifted
  <2>6. f - s = g
    BY <1>1, <2>5
  <2>7. <<g, l>> \in Y
    BY <2>4, <2>6
  <2>8. QED
    BY <1>2, <2>7 DEF Spells
<1>8. ASSUME Spells(A, w, j, l) PROVE Spells(B, w, j, l)
  <2> DEFINE X == {c \in Nat \X Places(w) : <<c[1] + s, c[2]>> \in Z}
  <2>1. X \in Configurations(w)
    BY DEF Configurations
  <2>2. Begins(A, j, X)
    <3> SUFFICES ASSUME NEW q \in A.initial PROVE <<q, j>> \in X
      BY DEF Begins
    <3>1. q + s \in B.initial /\ q \in Nat
      BY <1>1 DEF IsRenumbering, Shifted
    <3>2. QED
      BY <1>6, <3>1 DEF Begins
  <2>3. Follows(A.delta, w, X)
    <3> SUFFICES ASSUME NEW p \in Nat, NEW q \in Nat, NEW k \in Places(w), NEW m \in Places(w),
                        <<p, k>> \in X, Leads(A.delta, w, p, k, q, m)
                 PROVE  <<q, m>> \in X
      BY DEF Follows
    <3>1. Leads(B.delta, w, p + s, k, q + s, m)
      BY <1>1, ShiftedLeads DEF IsRenumbering
    <3>2. <<p + s, k>> \in Z /\ p + s \in Nat /\ q + s \in Nat
      OBVIOUS
    <3>3. <<q + s, m>> \in Z
      BY <1>6, <3>1, <3>2 DEF Follows
    <3>4. QED
      BY <3>3
  <2>4. PICK f \in A.final : <<f, l>> \in X
    <3> HIDE DEF X
    <3>1. QED
      BY <1>8, <2>1, <2>2, <2>3, SpelledIsMet
  <2>5. f + s \in B.final /\ <<f + s, l>> \in Z
    BY <2>4 DEF IsRenumbering, Shifted
  <2>6. QED
    BY <1>5, <2>5 DEF Spells
<1>9. QED
  BY <1>7, <1>8

------------------------------------------------------------------------------
(* Silent moves.                                                            *)
SilentMoves(A) == {m \in A.delta : m[2] = EPSILON}

(* The least set that holds S and the targets of its silent moves.          *)
IsSilentClosure(A, S, C) ==
  /\ C \in SUBSET A.states /\ S \subseteq C
  /\ \A p, q \in A.states : p \in C /\ <<p, EPSILON, q>> \in A.delta => q \in C
  /\ \A K \in SUBSET A.states :
       S \subseteq K /\ (\A p, q \in A.states : p \in K /\ <<p, EPSILON, q>> \in A.delta => q \in K)
         => C \subseteq K

LEMMA NfaFacts ==
  ASSUME NEW A, IsNfa(A)
  PROVE  /\ IsFiniteSet(A.states) /\ IsAutomaton(A, Nat) /\ IsWithinStates(A, A.states)
         /\ A.states \subseteq Nat /\ num_of_states(A) \in Nat
         /\ A.states = 0 .. num_of_states(A) - 1
<1>1. num_of_states(A) \in Nat
  BY FS_CardinalityType DEF IsNfa, num_of_states
<1>2. A.states \subseteq Nat
  BY <1>1 DEF IsNfa
<1>3. QED
  BY <1>1, <1>2 DEF IsNfa, IsAutomaton, IsWithinStates

LEMMA SilentlyIsLeast ==
  ASSUME NEW A, IsNfa(A), NEW S \in SUBSET A.states
  PROVE  IsSilentClosure(A, S, Silently(A, S))
<1>1. PICK N \in Nat : N = Cardinality(A.states)
  BY FS_CardinalityType DEF IsNfa
<1>2. PICK G : G = [states |-> A.states, delta |-> SilentMoves(A)]
  OBVIOUS
<1>3. /\ G.states = A.states /\ G.delta = SilentMoves(A) /\ MovesInside(G)
      /\ IsFiniteSet(G.states) /\ N = Cardinality(G.states) /\ S \in SUBSET G.states
  BY <1>1, <1>2 DEF MovesInside, IsNfa, IsAutomaton, SilentMoves
<1>4. \A R : R \cup Post(A, R, EPSILON) = WithTargets(G, R)
  <2> TAKE R
  <2>1. \A q : q \in Post(A, R, EPSILON) <=> \E m \in G.delta : m[1] \in R /\ m[3] = q
    <3> TAKE q
    <3>1. ASSUME q \in Post(A, R, EPSILON) PROVE \E m \in G.delta : m[1] \in R /\ m[3] = q
      <4>1. PICK s \in R : <<s, EPSILON, q>> \in A.delta
        BY <3>1 DEF Post
      <4>2. <<s, EPSILON, q>> \in G.delta
        BY <1>3, <4>1 DEF SilentMoves
      <4>3. QED
        BY <4>2
    <3>2. ASSUME NEW m \in G.delta, m[1] \in R, m[3] = q PROVE q \in Post(A, R, EPSILON)
      <4>1. m \in A.delta /\ m[2] = EPSILON
        BY <1>3 DEF SilentMoves
      <4>2. m = <<m[1], m[2], m[3]>> /\ m[3] \in A.states
        BY <4>1 DEF IsNfa, IsAutomaton
      <4>3. QED
        BY <3>2, <4>1, <4>2 DEF Post
    <3>3. QED
      BY <3>1, <3>2
  <2>2. QED
    BY <2>1 DEF WithTargets
<1> DEFINE Rec(g) ==
      g = [k \in 0 .. N |->
             IF k = 0 THEN S ELSE LET before == g[k - 1] IN before \cup Post(A, before, EPSILON)]
    within == CHOOSE g : Rec(g)
<1>5. PICK f : IsStages(G, S, N, f)
  BY <1>3, StagesExist
<1>6. Rec(f)
  <2>1. \A k \in 0 .. N :
          f[k] = IF k = 0 THEN S
                 ELSE LET before == f[k - 1] IN before \cup Post(A, before, EPSILON)
    BY <1>4, <1>5 DEF IsStages
  <2>2. f = [k \in 0 .. N |-> f[k]]
    BY <1>5 DEF IsStages
  <2>3. QED
    BY <2>1, <2>2, Zenon
<1>7. Rec(within)
  <2> HIDE DEF Rec
  <2>1. QED
    BY <1>6
<1>8. Silently(A, S) = within[N]
  BY <1>1 DEF Silently
<1>9. IsStages(G, S, N, within)
  <2> HIDE DEF within
  <2>1. ASSUME NEW k \in 0 .. N
        PROVE  within[k] = IF k = 0 THEN S ELSE WithTargets(G, within[k - 1])
    BY <1>4, <1>7
  <2>2. within[0] = S
    <3>1. 0 \in 0 .. N
      OBVIOUS
    <3>2. QED
      BY <2>1, <3>1
  <2>3. \A k \in 1 .. N : within[k] = WithTargets(G, within[k - 1])
    BY <2>1
  <2>4. within = [k \in 0 .. N |-> within[k]]
    BY <1>7
  <2> HIDE DEF Rec
  <2>5. QED
    BY <1>3, <2>2, <2>3, <2>4, StagesOfFunction
<1> HIDE DEF within
<1>10. PICK C : C = within[N]
  OBVIOUS
<1>11. /\ C \in SUBSET A.states /\ S \subseteq C
       /\ \A m \in G.delta : m[1] \in C => m[3] \in C
  BY <1>3, <1>9, <1>10, LastStageHolds
<1>12. \A p, q \in A.states : p \in C /\ <<p, EPSILON, q>> \in A.delta => q \in C
  <2> SUFFICES ASSUME NEW p \in A.states, NEW q \in A.states, p \in C, <<p, EPSILON, q>> \in A.delta
               PROVE  q \in C
    OBVIOUS
  <2>1. <<p, EPSILON, q>> \in G.delta
    BY <1>3 DEF SilentMoves
  <2>2. QED
    BY <1>11, <2>1
<1>13. ASSUME NEW K \in SUBSET A.states, S \subseteq K,
              \A p, q \in A.states : p \in K /\ <<p, EPSILON, q>> \in A.delta => q \in K
       PROVE  C \subseteq K
  <2>1. \A m \in G.delta : m[1] \in K => m[3] \in K
    <3> SUFFICES ASSUME NEW m \in G.delta, m[1] \in K PROVE m[3] \in K
      OBVIOUS
    <3>1. m \in A.delta /\ m[2] = EPSILON
      BY <1>3 DEF SilentMoves
    <3>2. m = <<m[1], m[2], m[3]>> /\ m[1] \in A.states /\ m[3] \in A.states
      BY <3>1 DEF IsNfa, IsAutomaton
    <3>3. QED
      BY <1>13, <3>1, <3>2
  <2>2. QED
    BY <1>9, <1>10, <1>13, <2>1, LastStageIsLeast
<1>14. QED
  BY <1>8, <1>10, <1>11, <1>12, <1>13 DEF IsSilentClosure

(* The silent closure of each state.                                        *)
SilentClosures(A) == [q \in A.states |-> Silently(A, {q})]

LEMMA ClosureOfState ==
  ASSUME NEW A, IsNfa(A), NEW p \in A.states
  PROVE  /\ SilentClosures(A)[p] \in SUBSET A.states /\ p \in SilentClosures(A)[p]
         /\ \A r, t \in A.states :
              r \in SilentClosures(A)[p] /\ <<r, EPSILON, t>> \in A.delta => t \in SilentClosures(A)[p]
         /\ \A K \in SUBSET A.states :
              p \in K /\ (\A r, t \in A.states : r \in K /\ <<r, EPSILON, t>> \in A.delta => t \in K)
                => SilentClosures(A)[p] \subseteq K
<1>1. IsSilentClosure(A, {p}, Silently(A, {p}))
  BY SilentlyIsLeast
<1>2. QED
  BY <1>1 DEF SilentClosures, IsSilentClosure

(* What is silent from where one silently comes is silent from the start.   *)
LEMMA ClosureIsTransitive ==
  ASSUME NEW A, IsNfa(A), NEW p \in A.states, NEW r \in SilentClosures(A)[p]
  PROVE  r \in A.states /\ SilentClosures(A)[r] \subseteq SilentClosures(A)[p]
<1>1. r \in A.states
  BY ClosureOfState
<1>2. PICK K : K = SilentClosures(A)[p]
  OBVIOUS
<1>3. K \in SUBSET A.states /\ r \in K
      /\ \A x, t \in A.states : x \in K /\ <<x, EPSILON, t>> \in A.delta => t \in K
  BY <1>2, ClosureOfState
<1>4. SilentClosures(A)[r] \subseteq K
  BY <1>1, <1>3, ClosureOfState
<1>5. QED
  BY <1>1, <1>2, <1>4

(* A set of configurations that nothing leads out of is silently closed.    *)
LEMMA SilentlyReached ==
  ASSUME NEW A, IsNfa(A), NEW w, NEW X, Follows(A.delta, w, X), NEW k \in Places(w),
         NEW p \in A.states, <<p, k>> \in X, NEW r \in SilentClosures(A)[p]
  PROVE  <<r, k>> \in X
<1> DEFINE K == {q \in A.states : <<q, k>> \in X}
<1>1. \A x, t \in A.states : x \in K /\ <<x, EPSILON, t>> \in A.delta => t \in K
  <2> SUFFICES ASSUME NEW x \in A.states, NEW t \in A.states, x \in K, <<x, EPSILON, t>> \in A.delta
               PROVE  <<t, k>> \in X
    OBVIOUS
  <2>1. Leads(A.delta, w, x, k, t, k) /\ x \in Nat /\ t \in Nat
    BY NfaFacts DEF Leads
  <2>2. QED
    BY <2>1 DEF Follows
<1>2. SilentClosures(A)[p] \subseteq K
  <2>1. K \in SUBSET A.states /\ p \in K
    OBVIOUS
  <2> HIDE DEF K
  <2>2. QED
    BY <1>1, <2>1, ClosureOfState
<1>3. QED
  BY <1>2

(* C: A without its silent moves, whose states have the moves and are final *)
(* as the states are to which they have silent ways.                        *)
IsWithoutSilence(A, C) ==
  /\ C.initial = A.initial
  /\ C.final = {q \in A.states : SilentClosures(A)[q] \cap A.final # {}}
  /\ C.delta \subseteq A.states \X Nat \X A.states
  /\ \A p, q \in A.states : \A a \in Nat :
       <<p, a, q>> \in C.delta
         <=> a # EPSILON /\ \E r \in SilentClosures(A)[p] : <<r, a, q>> \in A.delta

LEMMA SpelledWithoutSilence ==
  ASSUME NEW A, IsNfa(A), NEW C, IsWithoutSilence(A, C), EPSILON \in Nat,
         NEW w, IsWord(w), NEW j \in Places(w), NEW l \in Places(w)
  PROVE  Spells(C, w, j, l) <=> Spells(A, w, j, l)
<1>1. /\ A.states \subseteq Nat /\ IsWithinStates(A, A.states)
      /\ A.delta \subseteq A.states \X Nat \X A.states
  BY NfaFacts DEF IsWithinStates
<1>2. IsWithinStates(C, A.states)
  BY <1>1 DEF IsWithinStates, IsWithoutSilence
<1>3. PICK Y : Y = Reached(A, w, j)
  OBVIOUS
<1>4. Y \in Configurations(w) /\ Begins(A, j, Y) /\ Follows(A.delta, w, Y)
  BY <1>1, <1>3, ReachedHolds, ReachedInside
<1>5. PICK Z : Z = Reached(C, w, j)
  OBVIOUS
<1>6. Z \in Configurations(w) /\ Begins(C, j, Z) /\ Follows(C.delta, w, Z)
  BY <1>2, <1>5, ReachedHolds, ReachedInside
<1>7. ASSUME Spells(C, w, j, l) PROVE Spells(A, w, j, l)
  <2>1. Begins(C, j, Y)
    BY <1>4 DEF Begins, IsWithoutSilence
  <2>2. Follows(C.delta, w, Y)
    <3> SUFFICES ASSUME NEW p \in Nat, NEW q \in Nat, NEW k \in Places(w), NEW m \in Places(w),
                        <<p, k>> \in Y, Leads(C.delta, w, p, k, q, m)
                 PROVE  <<q, m>> \in Y
      BY DEF Follows
    <3>1. PICK a : <<p, a, q>> \in C.delta /\ Takes(w, k, a, m)
      BY DEF Leads, Takes
    <3>2. a \in Nat /\ p \in A.states /\ q \in A.states
      BY <3>1 DEF IsWithoutSilence
    <3>3. a # EPSILON /\ \E r \in SilentClosures(A)[p] : <<r, a, q>> \in A.delta
      BY <3>1, <3>2 DEF IsWithoutSilence
    <3>4. PICK r \in SilentClosures(A)[p] : <<r, a, q>> \in A.delta
      BY <3>3
    <3>5. <<r, k>> \in Y
      BY <1>4, <3>2, SilentlyReached
    <3>6. Leads(A.delta, w, r, k, q, m) /\ r \in Nat
      BY <1>1, <3>1, <3>4 DEF Leads, Takes
    <3>7. QED
      BY <1>4, <3>5, <3>6 DEF Follows
  <2>3. PICK g \in C.final : <<g, l>> \in Y
    BY <1>4, <1>7, <2>1, <2>2, SpelledIsMet
  <2>4. g \in A.states /\ \E f \in A.final : f \in SilentClosures(A)[g]
    BY DEF IsWithoutSilence
  <2>5. PICK f \in A.final : f \in SilentClosures(A)[g]
    BY <2>4
  <2>6. <<f, l>> \in Y
    BY <1>4, <2>3, <2>4, <2>5, SilentlyReached
  <2>7. QED
    BY <1>3, <2>6 DEF Spells
<1>8. ASSUME Spells(A, w, j, l) PROVE Spells(C, w, j, l)
  <2> DEFINE X == {c \in A.states \X Places(w) :
                     \E q \in A.states : <<q, c[2]>> \in Z /\ c[1] \in SilentClosures(A)[q]}
  <2>1. X \in Configurations(w)
    BY <1>1 DEF Configurations
  <2>2. Begins(A, j, X)
    <3> SUFFICES ASSUME NEW q \in A.initial PROVE <<q, j>> \in X
      BY DEF Begins
    <3>1. q \in A.states /\ <<q, j>> \in Z
      BY <1>1, <1>6 DEF Begins, IsWithoutSilence, IsWithinStates
    <3>2. q \in SilentClosures(A)[q]
      BY <3>1, ClosureOfState
    <3>3. QED
      BY <3>1, <3>2
  <2>3. Follows(A.delta, w, X)
    <3> SUFFICES ASSUME NEW p \in Nat, NEW q \in Nat, NEW k \in Places(w), NEW m \in Places(w),
                        <<p, k>> \in X, Leads(A.delta, w, p, k, q, m)
                 PROVE  <<q, m>> \in X
      BY DEF Follows
    <3>1. PICK s \in A.states : <<s, k>> \in Z /\ p \in SilentClosures(A)[s]
      OBVIOUS
    <3>2. PICK a : <<p, a, q>> \in A.delta /\ Takes(w, k, a, m)
      BY DEF Leads, Takes
    <3>3. a \in Nat /\ p \in A.states /\ q \in A.states
      BY <1>1, <3>2
    <3>4. CASE a = EPSILON /\ m = k
      <4>1. q \in SilentClosures(A)[s]
        BY <3>1, <3>2, <3>3, <3>4, ClosureOfState
      <4>2. QED
        BY <3>1, <3>3, <3>4, <4>1
    <3>5. CASE a # EPSILON
      <4>1. <<s, a, q>> \in C.delta
        BY <3>1, <3>2, <3>3, <3>5 DEF IsWithoutSilence
      <4>2. Leads(C.delta, w, s, k, q, m) /\ s \in Nat
        BY <1>1, <3>2, <4>1 DEF Leads, Takes
      <4>3. <<q, m>> \in Z
        BY <1>6, <3>1, <4>2 DEF Follows
      <4>4. q \in SilentClosures(A)[q]
        BY <3>3, ClosureOfState
      <4>5. QED
        BY <3>3, <4>3, <4>4
    <3>6. QED
      BY <3>2, <3>4, <3>5 DEF Takes
  <2>4. PICK f \in A.final : <<f, l>> \in X
    <3> HIDE DEF X
    <3>1. QED
      BY <1>8, <2>1, <2>2, <2>3, SpelledIsMet
  <2>5. PICK q \in A.states : <<q, l>> \in Z /\ f \in SilentClosures(A)[q]
    BY <2>4
  <2>6. q \in C.final
    BY <2>5 DEF IsWithoutSilence
  <2>7. QED
    BY <1>5, <2>5, <2>6 DEF Spells
<1>9. QED
  BY <1>7, <1>8

------------------------------------------------------------------------------
(* What is spelled between two places is what the automaton accepts when    *)
(* its epsilons are made silent.                                            *)
LEMMA SilencedFacts ==
  ASSUME NEW A, IsNfa(A), EPSILON \in Nat
  PROVE  /\ Silenced(A).states = A.states /\ Silenced(A).final = A.final
         /\ IsSilentClosure(A, A.initial, Silenced(A).initial)
         /\ \A p, q \in A.states : \A a \in Nat :
              <<p, a, q>> \in Silenced(A).delta
                <=> a # EPSILON
                    /\ \E u \in A.states : <<p, a, u>> \in A.delta /\ q \in SilentClosures(A)[u]
<1>1. PICK D : D = UNION {{<<m[1], m[2], t>> : t \in Silently(A, {m[3]})} :
                            m \in {k \in A.delta : k[2] # EPSILON}}
  OBVIOUS
<1>2. PICK I : I = Silently(A, A.initial)
  OBVIOUS
<1>3. Silenced(A) = [A EXCEPT !.initial = I, !.delta = D]
  BY <1>1, <1>2, Zenon DEF Silenced
<1>4. A = [states |-> A.states, initial |-> A.initial, final |-> A.final, delta |-> A.delta]
  BY DEF IsNfa
<1>5. /\ Silenced(A).states = A.states /\ Silenced(A).final = A.final
      /\ Silenced(A).initial = I /\ Silenced(A).delta = D
  BY <1>3, <1>4
<1>6. IsSilentClosure(A, A.initial, I)
  <2>1. A.initial \in SUBSET A.states
    BY DEF IsNfa, IsAutomaton
  <2>2. QED
    BY <1>2, <2>1, SilentlyIsLeast
<1>7. ASSUME NEW p \in A.states, NEW q \in A.states, NEW a \in Nat, <<p, a, q>> \in D
      PROVE  a # EPSILON
             /\ \E u \in A.states : <<p, a, u>> \in A.delta /\ q \in SilentClosures(A)[u]
  <2>1. PICK m \in A.delta : m[2] # EPSILON
                             /\ \E t \in Silently(A, {m[3]}) : <<p, a, q>> = <<m[1], m[2], t>>
    BY <1>1, <1>7
  <2>2. m = <<m[1], m[2], m[3]>> /\ m[3] \in A.states
    BY DEF IsNfa, IsAutomaton
  <2>3. Silently(A, {m[3]}) = SilentClosures(A)[m[3]]
    BY <2>2 DEF SilentClosures
  <2>4. m[1] = p /\ m[2] = a /\ q \in SilentClosures(A)[m[3]]
    BY <2>1, <2>3
  <2>5. QED
    BY <2>1, <2>2, <2>4
<1>8. ASSUME NEW p \in A.states, NEW q \in A.states, NEW a \in Nat, a # EPSILON,
             NEW u \in A.states, <<p, a, u>> \in A.delta, q \in SilentClosures(A)[u]
      PROVE  <<p, a, q>> \in D
  <2>1. q \in Silently(A, {u})
    BY <1>8 DEF SilentClosures
  <2>2. PICK m \in A.delta : m = <<p, a, u>>
    BY <1>8
  <2>3. m[1] = p /\ m[2] = a /\ m[3] = u
    BY <2>2
  <2>4. <<p, a, q>> \in {<<m[1], m[2], t>> : t \in Silently(A, {m[3]})}
    BY <2>1, <2>3
  <2>5. m \in {k \in A.delta : k[2] # EPSILON}
    BY <1>8, <2>3
  <2>6. QED
    BY <1>1, <2>4, <2>5
<1>9. QED
  BY <1>5, <1>6, <1>7, <1>8

LEMMA PartOfWord ==
  ASSUME NEW w, IsWord(w), NEW j \in Places(w), NEW l \in Places(w), j <= l
  PROVE  /\ Len(SubSeq(w, j + 1, l)) = l - j /\ IsWord(SubSeq(w, j + 1, l))
         /\ \A k \in 1 .. l - j : SubSeq(w, j + 1, l)[k] = w[j + k]
<1>1. j \in Nat /\ l \in Nat /\ l <= Len(w) /\ Len(w) \in Nat
  BY WordPlaces DEF Places
<1>2. \A k \in j + 1 .. l : w[k] \in Nat
  <2> SUFFICES ASSUME NEW k \in j + 1 .. l PROVE w[k] \in Nat
    OBVIOUS
  <2>1. k \in 1 .. Len(w)
    BY <1>1
  <2>2. QED
    BY <2>1, ElementOfSeq DEF IsWord
<1>3. j + 1 \in Int /\ l \in Int
  BY <1>1
<1>4. /\ SubSeq(w, j + 1, l) \in Seq(Nat)
      /\ Len(SubSeq(w, j + 1, l)) = IF j + 1 <= l THEN l - (j + 1) + 1 ELSE 0
      /\ \A k \in 1 .. l - (j + 1) + 1 : SubSeq(w, j + 1, l)[k] = w[(j + 1) + k - 1]
  BY <1>2, <1>3, SubSeqProperties
<1>5. /\ (IF j + 1 <= l THEN l - (j + 1) + 1 ELSE 0) = l - j
      /\ l - (j + 1) + 1 = l - j /\ \A k \in 1 .. l - j : (j + 1) + k - 1 = j + k
  BY <1>1
<1>6. PICK u : u = SubSeq(w, j + 1, l)
  OBVIOUS
<1>7. Len(u) = l - j /\ IsWord(u)
  BY <1>4, <1>5, <1>6 DEF IsWord
<1>8. ASSUME NEW k \in 1 .. l - j PROVE u[k] = w[j + k]
  <2>1. k \in 1 .. l - (j + 1) + 1 /\ (j + 1) + k - 1 = j + k
    BY <1>5
  <2>2. u[k] = w[(j + 1) + k - 1]
    BY <1>4, <1>6, <2>1
  <2>3. QED
    BY <2>1, <2>2
<1>9. QED
  BY <1>6, <1>7, <1>8

LEMMA SpelledIsAccepted ==
  ASSUME NEW A, IsNfa(A), EPSILON \in Nat, NEW w, IsWord(w),
         NEW j \in Places(w), NEW l \in Places(w), j <= l
  PROVE  Spells(A, w, j, l) <=> Accepts(Silenced(A), SubSeq(w, j + 1, l))
<1>1. PICK v : v = SubSeq(w, j + 1, l)
  OBVIOUS
<1>2. Len(v) = l - j /\ Len(v) \in Nat /\ \A k \in 1 .. Len(v) : v[k] = w[j + k]
  <2>1. Len(v) = l - j /\ \A k \in 1 .. l - j : v[k] = w[j + k]
    BY <1>1, PartOfWord
  <2>2. j \in Nat /\ l \in Nat
    BY WordPlaces
  <2>3. Len(v) \in Nat
    BY <2>1, <2>2
  <2>4. QED
    BY <2>1, <2>3
<1>3. PICK S : S = Silenced(A)
  OBVIOUS
<1>4. /\ S.states = A.states /\ S.final = A.final /\ IsSilentClosure(A, A.initial, S.initial)
      /\ \A p, q \in A.states : \A a \in Nat :
           <<p, a, q>> \in S.delta
             <=> a # EPSILON
                 /\ \E u \in A.states : <<p, a, u>> \in A.delta /\ q \in SilentClosures(A)[u]
  <2>1. /\ Silenced(A).states = A.states /\ Silenced(A).final = A.final
        /\ IsSilentClosure(A, A.initial, Silenced(A).initial)
        /\ \A p, q \in A.states : \A a \in Nat :
              <<p, a, q>> \in Silenced(A).delta
                <=> a # EPSILON
                    /\ \E u \in A.states : <<p, a, u>> \in A.delta /\ q \in SilentClosures(A)[u]
    BY SilencedFacts
  <2>2. QED
    BY <1>3, <2>1
<1>5. S.initial \in SUBSET S.states
  BY <1>4 DEF IsSilentClosure
<1>6. PICK f : IsReading(S, S.initial, v, f) /\ Read(S, v) = f[Len(v)]
  BY <1>2, <1>5, ReadExists
<1>7. /\ f \in [0 .. Len(v) -> SUBSET A.states] /\ f[0] = S.initial
      /\ \A k \in 1 .. Len(v) : f[k] = Post(S, f[k - 1], v[k])
  BY <1>4, <1>6 DEF IsReading
<1>8. /\ A.states \subseteq Nat /\ IsWithinStates(A, A.states)
      /\ A.delta \subseteq A.states \X Nat \X A.states /\ A.initial \subseteq A.states
  BY NfaFacts DEF IsWithinStates
<1>9. PICK Y : Y = Reached(A, w, j)
  OBVIOUS
<1>10. Y \in Configurations(w) /\ Begins(A, j, Y) /\ Follows(A.delta, w, Y)
  BY <1>8, <1>9, ReachedHolds, ReachedInside
<1>11. j \in Nat /\ l \in Nat /\ Len(w) \in Nat /\ l <= Len(w)
  BY WordPlaces DEF Places
<1>12. ASSUME NEW k \in 1 .. Len(v), NEW p \in A.states, NEW q \in A.states, <<p, v[k], q>> \in S.delta
       PROVE  v[k] = w[j + k] /\ v[k] # EPSILON
              /\ \E u \in A.states : <<p, v[k], u>> \in A.delta /\ q \in SilentClosures(A)[u]
  <2>1. v[k] \in Nat
    BY <1>1, PartOfWord, ElementOfSeq DEF IsWord
  <2>2. QED
    BY <1>2, <1>4, <1>12, <2>1
<1> DEFINE Part(k) == \A q \in f[k] : <<q, j + k>> \in Y
           T == {k \in Nat : k <= Len(v) => Part(k)}
<1>13. 0 \in T
  <2> DEFINE K == {q \in A.states : <<q, j>> \in Y}
  <2>1. A.initial \subseteq K
    BY <1>8, <1>10 DEF Begins
  <2>2. \A p, q \in A.states : p \in K /\ <<p, EPSILON, q>> \in A.delta => q \in K
    <3> SUFFICES ASSUME NEW p \in A.states, NEW q \in A.states, p \in K, <<p, EPSILON, q>> \in A.delta
                 PROVE  <<q, j>> \in Y
      OBVIOUS
    <3>1. Leads(A.delta, w, p, j, q, j) /\ p \in Nat /\ q \in Nat
      BY <1>8 DEF Leads
    <3>2. QED
      BY <1>10, <3>1 DEF Follows
  <2>3. K \in SUBSET A.states
    OBVIOUS
  <2>4. f[0] \subseteq K
    <3> HIDE DEF K
    <3>1. QED
      BY <1>4, <1>7, <2>1, <2>2, <2>3 DEF IsSilentClosure
  <2>5. j + 0 = j
    BY <1>11
  <2>6. Part(0)
    BY <2>4, <2>5
  <2>7. QED
    BY <2>6
<1>14. ASSUME NEW k \in Nat, k \in T PROVE k + 1 \in T
  <2> SUFFICES ASSUME k + 1 <= Len(v) PROVE Part(k + 1)
    OBVIOUS
  <2> SUFFICES ASSUME NEW q \in f[k + 1] PROVE <<q, j + (k + 1)>> \in Y
    OBVIOUS
  <2>1. k + 1 \in 1 .. Len(v) /\ (k + 1) - 1 = k /\ k \in 0 .. Len(v) /\ k + 1 \in 0 .. Len(v)
    BY <1>2
  <2>2. Part(k)
    BY <1>2, <1>14
  <2>3. f[k + 1] = Post(S, f[k], v[k + 1])
    BY <1>7, <2>1
  <2>4. PICK p \in f[k] : <<p, v[k + 1], q>> \in S.delta
    BY <2>3 DEF Post
  <2>5. p \in A.states /\ q \in A.states
    BY <1>7, <2>1
  <2>6. PICK u \in A.states : <<p, v[k + 1], u>> \in A.delta /\ q \in SilentClosures(A)[u]
    BY <1>12, <2>1, <2>4, <2>5
  <2>7. v[k + 1] = w[j + (k + 1)] /\ v[k + 1] # EPSILON
    BY <1>12, <2>1, <2>4, <2>5
  <2>8. /\ j + k \in Places(w) /\ j + (k + 1) \in Places(w) /\ j + (k + 1) = (j + k) + 1
        /\ j + k < Len(w)
    BY <1>2, <1>11, <2>1 DEF Places
  <2>9. Leads(A.delta, w, p, j + k, u, j + (k + 1))
    BY <2>6, <2>7, <2>8 DEF Leads
  <2>10. <<p, j + k>> \in Y /\ p \in Nat /\ u \in Nat
    BY <1>8, <2>2, <2>5
  <2>11. <<u, j + (k + 1)>> \in Y
    BY <1>10, <2>8, <2>9, <2>10 DEF Follows
  <2>12. QED
    BY <1>10, <2>6, <2>8, <2>11, SilentlyReached
<1>15. Part(Len(v))
  <2> HIDE DEF T
  <2>1. Nat \subseteq T
    BY <1>13, <1>14, SetInduction
  <2>2. Len(v) \in T
    BY <1>2, <2>1
  <2>3. QED
    BY <1>2, <2>2 DEF T
<1>16. \A k \in 0 .. Len(v) : \A p, q \in A.states :
         p \in f[k] /\ <<p, EPSILON, q>> \in A.delta => q \in f[k]
  <2> SUFFICES ASSUME NEW k \in 0 .. Len(v), NEW p \in A.states, NEW q \in A.states,
                      p \in f[k], <<p, EPSILON, q>> \in A.delta
               PROVE  q \in f[k]
    OBVIOUS
  <2>1. CASE k = 0
    BY <1>4, <1>7, <2>1 DEF IsSilentClosure
  <2>2. CASE k # 0
    <3>1. k \in 1 .. Len(v) /\ k - 1 \in 0 .. Len(v)
      BY <1>2, <2>2
    <3>2. f[k] = Post(S, f[k - 1], v[k]) /\ f[k - 1] \subseteq A.states
      BY <1>7, <3>1
    <3>3. PICK r \in f[k - 1] : <<r, v[k], p>> \in S.delta
      BY <3>2 DEF Post
    <3>4. r \in A.states
      BY <3>2
    <3>5. PICK u \in A.states : <<r, v[k], u>> \in A.delta /\ p \in SilentClosures(A)[u]
      BY <1>12, <3>1, <3>3, <3>4
    <3>6. q \in SilentClosures(A)[u]
      BY <3>5, ClosureOfState
    <3>7. v[k] # EPSILON /\ v[k] \in Nat
      <4>1. v[k] \in Nat
        BY <1>1, <3>1, PartOfWord, ElementOfSeq DEF IsWord
      <4>2. QED
        BY <1>12, <3>1, <3>3, <3>4, <4>1
    <3>8. <<r, v[k], q>> \in S.delta
      BY <1>4, <3>4, <3>5, <3>6, <3>7
    <3>9. QED
      BY <1>4, <3>2, <3>3, <3>8 DEF Post
  <2>3. QED
    BY <2>1, <2>2
<1> DEFINE X == {c \in A.states \X Places(w) : j <= c[2] /\ (c[2] <= l => c[1] \in f[c[2] - j])}
<1>17. X \in Configurations(w)
  BY <1>8 DEF Configurations
<1>18. Begins(A, j, X)
  <2>1. j - j = 0 /\ j <= j
    BY <1>11
  <2>2. QED
    BY <1>4, <1>7, <1>8, <2>1 DEF Begins, IsSilentClosure
<1>19. Follows(A.delta, w, X)
  <2> SUFFICES ASSUME NEW p \in Nat, NEW q \in Nat, NEW k \in Places(w), NEW m \in Places(w),
                      <<p, k>> \in X, Leads(A.delta, w, p, k, q, m)
               PROVE  <<q, m>> \in X
    BY DEF Follows
  <2>1. PICK a : <<p, a, q>> \in A.delta /\ Takes(w, k, a, m)
    BY DEF Leads, Takes
  <2>2. a \in Nat /\ p \in A.states /\ q \in A.states
    BY <1>8, <2>1
  <2>3. k \in Nat /\ m \in Nat /\ j <= k
    BY WordPlaces
  <2>4. CASE a = EPSILON /\ m = k
    <3>1. k <= l => k - j \in 0 .. Len(v)
      BY <1>2, <1>11, <2>3
    <3>2. k <= l => q \in f[k - j]
      BY <1>16, <2>1, <2>2, <2>4, <3>1
    <3>3. QED
      BY <2>2, <2>3, <2>4, <3>2
  <2>5. CASE m = k + 1 /\ w[m] # EPSILON /\ a = w[m]
    <3>1. j <= m
      BY <1>11, <2>3, <2>5
    <3>2. ASSUME m <= l PROVE q \in f[m - j]
      <4>1. m - j \in 1 .. Len(v) /\ (m - j) - 1 = k - j /\ k <= l /\ j + (m - j) = m
        BY <1>2, <1>11, <2>3, <2>5, <3>2
      <4>2. p \in f[k - j]
        BY <4>1
      <4>3. v[m - j] = a
        BY <1>2, <2>5, <4>1
      <4>4. q \in SilentClosures(A)[q]
        BY <2>2, ClosureOfState
      <4>5. <<p, a, q>> \in S.delta
        BY <1>4, <2>1, <2>2, <2>5, <4>4
      <4>6. f[m - j] = Post(S, f[k - j], a)
        BY <1>7, <4>1, <4>3
      <4>7. QED
        BY <1>4, <2>2, <4>2, <4>5, <4>6 DEF Post
    <3>3. QED
      BY <2>2, <3>1, <3>2
  <2>6. QED
    BY <2>1, <2>4, <2>5 DEF Takes
<1>20. ASSUME Spells(A, w, j, l) PROVE Accepts(S, v)
  <2>1. PICK g \in A.final : <<g, l>> \in X
    <3> HIDE DEF X
    <3>1. QED
      BY <1>17, <1>18, <1>19, <1>20, SpelledIsMet
  <2>2. g \in f[Len(v)]
    BY <1>2, <1>11, <2>1
  <2>3. QED
    BY <1>4, <1>6, <2>2 DEF Accepts
<1>21. ASSUME Accepts(S, v) PROVE Spells(A, w, j, l)
  <2>1. PICK g \in A.final : g \in f[Len(v)]
    BY <1>4, <1>6, <1>21 DEF Accepts
  <2>2. j + Len(v) = l
    BY <1>2, <1>11
  <2>3. <<g, l>> \in Y
    BY <1>15, <2>1, <2>2
  <2>4. QED
    BY <1>9, <2>3 DEF Spells
<1>22. QED
  BY <1>1, <1>3, <1>20, <1>21

------------------------------------------------------------------------------
(* A word between two places is cut into N parts that A spells.             *)
IsCut(A, N, w, j, l, c) ==
  /\ c \in [0 .. N -> Places(w)] /\ c[0] = j /\ c[N] = l
  /\ \A x, y \in 0 .. N : x <= y => c[x] <= c[y]
  /\ \A x \in 1 .. N : Spells(A, w, c[x - 1], c[x])
SpellsPower(A, N, w, j, l) == \E c : IsCut(A, N, w, j, l, c)

LEMMA PowerZero ==
  ASSUME NEW A, NEW w, IsWord(w), NEW j \in Places(w), NEW l \in Places(w)
  PROVE  SpellsPower(A, 0, w, j, l) <=> j = l
<1>1. ASSUME j = l PROVE SpellsPower(A, 0, w, j, l)
  <2> DEFINE c == [x \in 0 .. 0 |-> j]
  <2>1. \A x \in 0 .. 0 : c[x] = j /\ j <= j
    BY WordPlaces
  <2>2. IsCut(A, 0, w, j, l, c)
    BY <1>1, <2>1 DEF IsCut
  <2>3. QED
    BY <2>2 DEF SpellsPower
<1>2. QED
  BY <1>1 DEF SpellsPower, IsCut

LEMMA PowerOne ==
  ASSUME NEW A, NEW Q, IsWithinStates(A, Q), NEW w, IsWord(w), NEW j \in Places(w), NEW l \in Places(w)
  PROVE  SpellsPower(A, 1, w, j, l) <=> Spells(A, w, j, l)
<1>1. ASSUME Spells(A, w, j, l) PROVE SpellsPower(A, 1, w, j, l)
  <2> DEFINE c == [x \in 0 .. 1 |-> IF x = 0 THEN j ELSE l]
  <2>1. j <= l /\ j <= j /\ l <= l
    BY <1>1, SpelledForwards, WordPlaces
  <2>2. c \in [0 .. 1 -> Places(w)] /\ c[0] = j /\ c[1] = l
    OBVIOUS
  <2>3. \A x \in 0 .. 1 : x = 0 \/ x = 1
    OBVIOUS
  <2>4. \A x, y \in 0 .. 1 : x <= y => c[x] <= c[y]
    BY <2>1, <2>2, <2>3
  <2>5. \A x \in 1 .. 1 : Spells(A, w, c[x - 1], c[x])
    <3> TAKE x \in 1 .. 1
    <3>1. x = 1 /\ x - 1 = 0
      OBVIOUS
    <3> HIDE DEF c
    <3>2. QED
      BY <1>1, <2>2, <3>1
  <2>6. IsCut(A, 1, w, j, l, c)
    <3> HIDE DEF c
    <3>1. QED
      BY <2>2, <2>4, <2>5 DEF IsCut
  <2>7. QED
    BY <2>6 DEF SpellsPower
<1>2. ASSUME SpellsPower(A, 1, w, j, l) PROVE Spells(A, w, j, l)
  <2>1. PICK c : IsCut(A, 1, w, j, l, c)
    BY <1>2 DEF SpellsPower
  <2>2. 1 \in 1 .. 1 /\ 1 - 1 = 0
    OBVIOUS
  <2>3. Spells(A, w, c[1 - 1], c[1])
    BY <2>1, <2>2 DEF IsCut
  <2>4. QED
    BY <2>1, <2>2, <2>3 DEF IsCut
<1>3. QED
  BY <1>1, <1>2

LEMMA PowerSum ==
  ASSUME NEW A, NEW a \in Nat, NEW b \in Nat, NEW w, IsWord(w),
         NEW j \in Places(w), NEW l \in Places(w)
  PROVE  SpellsPower(A, a + b, w, j, l)
           <=> \E k \in Places(w) : SpellsPower(A, a, w, j, k) /\ SpellsPower(A, b, w, k, l)
<1>0. Places(w) \subseteq Nat
  BY WordPlaces
<1>1. ASSUME SpellsPower(A, a + b, w, j, l)
      PROVE  \E k \in Places(w) : SpellsPower(A, a, w, j, k) /\ SpellsPower(A, b, w, k, l)
  <2>1. PICK c : IsCut(A, a + b, w, j, l, c)
    BY <1>1 DEF SpellsPower
  <2>2. /\ c \in [0 .. a + b -> Places(w)] /\ c[0] = j /\ c[a + b] = l
        /\ \A x, y \in 0 .. a + b : x <= y => c[x] <= c[y]
        /\ \A x \in 1 .. a + b : Spells(A, w, c[x - 1], c[x])
    BY <2>1 DEF IsCut
  <2>3. PICK f : f = [x \in 0 .. a |-> c[x]]
    OBVIOUS
  <2>4. PICK g : g = [x \in 0 .. b |-> c[a + x]]
    OBVIOUS
  <2>5. a \in 0 .. a + b /\ c[a] \in Places(w)
    BY <2>2
  <2>6. IsCut(A, a, w, j, c[a], f)
    <3>1. \A x \in 0 .. a : x \in 0 .. a + b /\ f[x] = c[x]
      BY <2>3
    <3>2. f \in [0 .. a -> Places(w)]
      BY <2>2, <2>3, <3>1
    <3>3. 0 \in 0 .. a /\ a \in 0 .. a
      OBVIOUS
    <3>4. \A x, y \in 0 .. a : x <= y => f[x] <= f[y]
      BY <2>2, <3>1
    <3>5. \A x \in 1 .. a : Spells(A, w, f[x - 1], f[x])
      <4> TAKE x \in 1 .. a
      <4>1. x \in 1 .. a + b /\ x \in 0 .. a /\ x - 1 \in 0 .. a
        OBVIOUS
      <4>2. QED
        BY <2>2, <3>1, <4>1
    <3>6. QED
      BY <2>2, <3>1, <3>2, <3>3, <3>4, <3>5 DEF IsCut
  <2>7. IsCut(A, b, w, c[a], l, g)
    <3>1. \A x \in 0 .. b : a + x \in 0 .. a + b /\ g[x] = c[a + x]
      BY <2>4
    <3>2. g \in [0 .. b -> Places(w)]
      BY <2>2, <2>4, <3>1
    <3>3. 0 \in 0 .. b /\ b \in 0 .. b /\ a + 0 = a
      OBVIOUS
    <3>4. \A x, y \in 0 .. b : x <= y => g[x] <= g[y]
      <4> TAKE x, y \in 0 .. b
      <4>1. x <= y => a + x <= a + y
        OBVIOUS
      <4>2. QED
        BY <2>2, <3>1, <4>1
    <3>5. \A x \in 1 .. b : Spells(A, w, g[x - 1], g[x])
      <4> TAKE x \in 1 .. b
      <4>1. a + x \in 1 .. a + b /\ x \in 0 .. b /\ x - 1 \in 0 .. b /\ a + (x - 1) = (a + x) - 1
        OBVIOUS
      <4>2. QED
        BY <2>2, <3>1, <4>1
    <3>6. QED
      BY <2>2, <3>1, <3>2, <3>3, <3>4, <3>5 DEF IsCut
  <2>8. QED
    BY <2>5, <2>6, <2>7 DEF SpellsPower
<1>2. ASSUME NEW k \in Places(w), SpellsPower(A, a, w, j, k), SpellsPower(A, b, w, k, l)
      PROVE  SpellsPower(A, a + b, w, j, l)
  <2>1. PICK f : IsCut(A, a, w, j, k, f)
    BY <1>2 DEF SpellsPower
  <2>2. PICK g : IsCut(A, b, w, k, l, g)
    BY <1>2 DEF SpellsPower
  <2>3. /\ f \in [0 .. a -> Places(w)] /\ f[0] = j /\ f[a] = k
        /\ \A x, y \in 0 .. a : x <= y => f[x] <= f[y]
        /\ \A x \in 1 .. a : Spells(A, w, f[x - 1], f[x])
    BY <2>1 DEF IsCut
  <2>4. /\ g \in [0 .. b -> Places(w)] /\ g[0] = k /\ g[b] = l
        /\ \A x, y \in 0 .. b : x <= y => g[x] <= g[y]
        /\ \A x \in 1 .. b : Spells(A, w, g[x - 1], g[x])
    BY <2>2 DEF IsCut
  <2>5. PICK c : c = [x \in 0 .. a + b |-> IF x <= a THEN f[x] ELSE g[x - a]]
    OBVIOUS
  <2>6. \A x \in 0 .. a + b : /\ x <= a => x \in 0 .. a /\ c[x] = f[x]
                              /\ x >= a => x - a \in 0 .. b /\ c[x] = g[x - a]
    <3> TAKE x \in 0 .. a + b
    <3>1. c[x] = IF x <= a THEN f[x] ELSE g[x - a]
      BY <2>5
    <3>2. CASE x < a
      BY <3>1, <3>2
    <3>3. CASE x > a
      BY <3>1, <3>3
    <3>4. CASE x = a
      <4>1. x - a = 0 /\ 0 \in 0 .. b /\ a \in 0 .. a
        BY <3>4
      <4>2. QED
        BY <2>3, <2>4, <3>1, <3>4, <4>1
    <3>5. QED
      BY <3>2, <3>3, <3>4
  <2>7. c \in [0 .. a + b -> Places(w)]
    <3>1. \A x \in 0 .. a + b : c[x] \in Places(w)
      <4> TAKE x \in 0 .. a + b
      <4>1. x <= a \/ x >= a
        OBVIOUS
      <4>2. QED
        BY <2>3, <2>4, <2>6, <4>1
    <3>2. QED
      BY <2>5, <3>1
  <2>8. c[0] = j /\ c[a + b] = l
    <3>1. 0 \in 0 .. a + b /\ 0 <= a /\ a + b \in 0 .. a + b /\ a + b >= a /\ (a + b) - a = b
      OBVIOUS
    <3>2. QED
      BY <2>3, <2>4, <2>6, <3>1
  <2>9. \A x, y \in 0 .. a + b : x <= y => c[x] <= c[y]
    <3> SUFFICES ASSUME NEW x \in 0 .. a + b, NEW y \in 0 .. a + b, x <= y PROVE c[x] <= c[y]
      OBVIOUS
    <3>1. CASE y <= a
      <4>1. x <= a
        BY <3>1
      <4>2. QED
        BY <2>3, <2>6, <3>1, <4>1
    <3>2. CASE x >= a
      <4>1. y >= a /\ x - a <= y - a
        BY <3>2
      <4>2. QED
        BY <2>4, <2>6, <3>2, <4>1
    <3>3. CASE x <= a /\ y >= a
      <4>1. a \in 0 .. a /\ 0 \in 0 .. b /\ y - a \in 0 .. b /\ 0 <= y - a
        BY <3>3
      <4>2. c[x] <= k
        BY <2>3, <2>6, <3>3, <4>1
      <4>3. k <= c[y]
        BY <2>4, <2>6, <3>3, <4>1
      <4>4. c[x] \in Nat /\ c[y] \in Nat /\ k \in Nat
        BY <1>0, <2>7
      <4>5. QED
        BY <4>2, <4>3, <4>4
    <3>4. QED
      BY <3>1, <3>2, <3>3
  <2>10. \A x \in 1 .. a + b : Spells(A, w, c[x - 1], c[x])
    <3> TAKE x \in 1 .. a + b
    <3>1. x \in 0 .. a + b /\ x - 1 \in 0 .. a + b
      OBVIOUS
    <3>2. CASE x <= a
      <4>1. x - 1 <= a /\ x \in 1 .. a
        BY <3>2
      <4>2. c[x] = f[x] /\ c[x - 1] = f[x - 1]
        BY <2>6, <3>1, <3>2, <4>1
      <4>3. QED
        BY <2>3, <4>1, <4>2
    <3>3. CASE x > a
      <4>1. x - 1 >= a /\ x >= a /\ x - a \in 1 .. b /\ (x - 1) - a = (x - a) - 1
        BY <3>3
      <4>2. c[x] = g[x - a] /\ c[x - 1] = g[(x - a) - 1]
        BY <2>6, <3>1, <4>1
      <4>3. QED
        BY <2>4, <4>1, <4>2
    <3>4. QED
      BY <3>2, <3>3
  <2>11. IsCut(A, a + b, w, j, l, c)
    BY <2>7, <2>8, <2>9, <2>10 DEF IsCut
  <2>12. QED
    BY <2>11 DEF SpellsPower
<1>3. QED
  BY <1>1, <1>2

(* What an object means, whatever the word.                                 *)
IsPowerOf(X, A, N) ==
  \A w : IsWord(w) => \A j, l \in Places(w) : Spells(X, w, j, l) <=> SpellsPower(A, N, w, j, l)
IsProductOf(X, A, B) ==
  \A w : IsWord(w) => \A j, l \in Places(w) : Spells(X, w, j, l) <=> SpellsBoth(A, B, w, j, l)
IsUnionOf(X, A, B) ==
  \A w : IsWord(w) => \A j, l \in Places(w) :
    Spells(X, w, j, l) <=> Spells(A, w, j, l) \/ Spells(B, w, j, l)
IsSameAs(X, A) ==
  \A w : IsWord(w) => \A j, l \in Places(w) : Spells(X, w, j, l) <=> Spells(A, w, j, l)

LEMMA PowersMultiply ==
  ASSUME NEW A, NEW a \in Nat, NEW b \in Nat, NEW X, NEW Y, NEW Z,
         IsPowerOf(X, A, a), IsPowerOf(Y, A, b), IsProductOf(Z, X, Y)
  PROVE  IsPowerOf(Z, A, a + b)
<1> SUFFICES ASSUME NEW w, IsWord(w), NEW j \in Places(w), NEW l \in Places(w)
             PROVE  Spells(Z, w, j, l) <=> SpellsPower(A, a + b, w, j, l)
  BY DEF IsPowerOf
<1>1. Spells(Z, w, j, l) <=> \E k \in Places(w) : Spells(X, w, j, k) /\ Spells(Y, w, k, l)
  BY DEF IsProductOf, SpellsBoth
<1>2. \A k \in Places(w) : /\ Spells(X, w, j, k) <=> SpellsPower(A, a, w, j, k)
                           /\ Spells(Y, w, k, l) <=> SpellsPower(A, b, w, k, l)
  BY DEF IsPowerOf
<1>3. SpellsPower(A, a + b, w, j, l)
        <=> \E k \in Places(w) : SpellsPower(A, a, w, j, k) /\ SpellsPower(A, b, w, k, l)
  BY PowerSum
<1>4. QED
  BY <1>1, <1>2, <1>3

LEMMA IsPowerOne ==
  ASSUME NEW A, IsNfa(A)
  PROVE  IsPowerOf(A, A, 1)
BY NfaFacts, PowerOne DEF IsPowerOf

LEMMA EmptyStringIsPowerZero ==
  ASSUME NEW A
  PROVE  IsNfa(EmptyString) /\ IsPowerOf(EmptyString, A, 0)
<1>1. IsNfa(EmptyString)
  <2>1. IsFiniteSet({0}) /\ Cardinality({0}) = 1 /\ {0} = 0 .. 1 - 1
    BY FS_Singleton
  <2>2. QED
    BY <2>1 DEF EmptyString, IsNfa, num_of_states, IsAutomaton
<1>2. ASSUME NEW w, IsWord(w), NEW j \in Places(w), NEW l \in Places(w)
      PROVE  Spells(EmptyString, w, j, l) <=> j = l
  <2>1. IsWithinStates(EmptyString, {0})
    BY DEF EmptyString, IsWithinStates
  <2>2. ASSUME j = l PROVE Spells(EmptyString, w, j, l)
    <3>1. <<0, j>> \in Reached(EmptyString, w, j)
      BY <2>1, ReachedHolds DEF Begins, EmptyString
    <3>2. QED
      BY <2>2, <3>1 DEF Spells, EmptyString
  <2>3. ASSUME Spells(EmptyString, w, j, l) PROVE j = l
    <3> DEFINE X == {<<0, j>>}
    <3>1. X \in Configurations(w) /\ Begins(EmptyString, j, X)
      BY DEF Configurations, Begins, EmptyString
    <3>2. Follows(EmptyString.delta, w, X)
      BY DEF Follows, Leads, EmptyString
    <3>3. PICK f \in EmptyString.final : <<f, l>> \in X
      <4> HIDE DEF X
      <4>1. QED
        BY <2>3, <3>1, <3>2, SpelledIsMet
    <3>4. QED
      BY <3>3
  <2>4. QED
    BY <2>2, <2>3
<1>3. IsPowerOf(EmptyString, A, 0)
  BY <1>2, PowerZero DEF IsPowerOf
<1>4. QED
  BY <1>1, <1>3

(* An automaton without initial or without final states spells nothing.     *)
LEMMA TrivialSpellsNothing ==
  ASSUME NEW A, Trivial(A), NEW w, NEW j, NEW l
  PROVE  ~ Spells(A, w, j, l)
<1> SUFFICES ASSUME Spells(A, w, j, l) PROVE FALSE
  OBVIOUS
<1>1. PICK X : X = {}
  OBVIOUS
<1>2. X \in Configurations(w) /\ Follows(A.delta, w, X)
  BY <1>1 DEF Configurations, Follows
<1>3. A.final # {}
  BY DEF Spells
<1>4. Begins(A, j, X)
  BY <1>3 DEF Begins, Trivial
<1>5. \E f \in A.final : <<f, l>> \in X
  BY <1>2, <1>4, SpelledIsMet
<1>6. QED
  BY <1>1, <1>5

------------------------------------------------------------------------------
(* The objects that the operations build, with all of their states.         *)
Moved(A, k) ==
  [states |-> Shifted(A.states, k), initial |-> Shifted(A.initial, k),
   final |-> Shifted(A.final, k), delta |-> Renumbered(A.delta, k)]

BothStates(A, B) == 0 .. num_of_states(A) + num_of_states(B) - 1

LEMMA ManyStates ==
  ASSUME NEW k \in Nat
  PROVE  IsFiniteSet(0 .. k - 1) /\ Cardinality(0 .. k - 1) = k
<1>1. 0 \in Int /\ k - 1 \in Int
  OBVIOUS
<1>2. /\ IsFiniteSet(0 .. k - 1)
      /\ Cardinality(0 .. k - 1) = IF 0 > k - 1 THEN 0 ELSE (k - 1) - 0 + 1
  BY <1>1, FS_Interval, Zenon
<1>3. QED
  BY <1>2

LEMMA MovedFacts ==
  ASSUME NEW A, IsNfa(A), NEW B, IsNfa(B), NEW k, k = num_of_states(A)
  PROVE  /\ k \in Nat /\ IsWithinStates(Moved(B, k), Moved(B, k).states)
         /\ A.states \cap Moved(B, k).states = {}
         /\ A.states \cup Moved(B, k).states = BothStates(A, B)
         /\ IsFiniteSet(BothStates(A, B))
         /\ BothStates(A, B) = 0 .. Cardinality(BothStates(A, B)) - 1
         /\ IsRenumbering(B, Moved(B, k), k)
<1>1. /\ k \in Nat /\ num_of_states(B) \in Nat /\ A.states = 0 .. k - 1
      /\ B.states = 0 .. num_of_states(B) - 1
  BY NfaFacts
<1>2. /\ B.initial \subseteq B.states /\ B.final \subseteq B.states
      /\ B.delta \subseteq B.states \X Nat \X B.states
  BY DEF IsNfa, IsAutomaton
<1>3. PICK z \in Nat : z = num_of_states(B)
  BY <1>1
<1>4. Shifted(B.states, k) = k .. k + z - 1
  <2>1. \A q \in k .. k + z - 1 : q - k \in B.states /\ (q - k) + k = q
    BY <1>1, <1>3
  <2>2. \A q \in B.states : q + k \in k .. k + z - 1
    BY <1>1, <1>3
  <2>3. QED
    BY <2>1, <2>2 DEF Shifted
<1>5. IsWithinStates(Moved(B, k), Moved(B, k).states)
  <2>1. Shifted(B.initial, k) \subseteq Shifted(B.states, k)
        /\ Shifted(B.final, k) \subseteq Shifted(B.states, k)
    BY <1>2 DEF Shifted
  <2>2. Renumbered(B.delta, k) \subseteq Shifted(B.states, k) \X Nat \X Shifted(B.states, k)
    BY <1>2 DEF Renumbered, Shifted
  <2>3. Shifted(B.states, k) \subseteq Nat
    BY <1>1, <1>4
  <2>4. QED
    BY <2>1, <2>2, <2>3 DEF IsWithinStates, Moved
<1>6. A.states \cap Moved(B, k).states = {}
  BY <1>1, <1>4 DEF Moved
<1>7. A.states \cup Moved(B, k).states = BothStates(A, B)
  BY <1>1, <1>3, <1>4 DEF Moved, BothStates
<1>8. IsFiniteSet(BothStates(A, B)) /\ BothStates(A, B) = 0 .. Cardinality(BothStates(A, B)) - 1
  <2>1. k + z \in Nat /\ BothStates(A, B) = 0 .. (k + z) - 1
    BY <1>1, <1>3 DEF BothStates
  <2>2. IsFiniteSet(BothStates(A, B)) /\ Cardinality(BothStates(A, B)) = k + z
    BY <2>1, ManyStates
  <2>3. QED
    BY <2>1, <2>2
<1>9. IsRenumbering(B, Moved(B, k), k)
  BY DEF IsRenumbering, Moved
<1>10. QED
  BY <1>1, <1>5, <1>6, <1>7, <1>8, <1>9

LEMMA MovedSpells ==
  ASSUME NEW A, IsNfa(A), NEW B, IsNfa(B), NEW k, k = num_of_states(A), EPSILON \in Nat
  PROVE  IsSameAs(Moved(B, k), B)
<1>1. k \in Nat /\ IsRenumbering(B, Moved(B, k), k) /\ IsWithinStates(B, B.states)
  BY MovedFacts, NfaFacts
<1>2. QED
  BY <1>1, SpelledByRenumbered DEF IsSameAs

LEMMA ProductOfSame ==
  ASSUME NEW X, NEW A, NEW B, NEW C, IsProductOf(X, A, B), IsSameAs(B, C)
  PROVE  IsProductOf(X, A, C)
BY DEF IsProductOf, IsSameAs, SpellsBoth

(* Nfa::concatenate when it has returned.                                   *)
ConcatenatedObject(A, B, k) ==
  [states |-> BothStates(A, B), initial |-> A.initial,
   final |-> Shifted(B.final, k) \cup (IF B.initial \cap B.final # {} THEN A.final ELSE {}),
   delta |-> A.delta \cup Renumbered(B.delta, k) \cup EntryMoves(A, Moved(B, k), Shifted(B.initial, k))]

LEMMA ConcatenatedIsProduct ==
  ASSUME NEW A, IsNfa(A), NEW B, IsNfa(B), NEW k, k = num_of_states(A), EPSILON \in Nat
  PROVE  IsNfa(ConcatenatedObject(A, B, k)) /\ IsProductOf(ConcatenatedObject(A, B, k), A, B)
<1>1. PICK C : C = ConcatenatedObject(A, B, k)
  OBVIOUS
<1>2. PICK M : M = Moved(B, k)
  OBVIOUS
<1>3. /\ k \in Nat /\ IsWithinStates(M, M.states) /\ A.states \cap M.states = {}
      /\ A.states \cup M.states = BothStates(A, B) /\ IsFiniteSet(BothStates(A, B))
      /\ BothStates(A, B) = 0 .. Cardinality(BothStates(A, B)) - 1
  BY <1>2, MovedFacts
<1>4. IsWithinStates(A, A.states)
  BY NfaFacts
<1>5. B.initial \cap B.final # {} <=> M.initial \cap M.final # {}
  <2>1. B.initial \subseteq Nat /\ B.final \subseteq Nat
    BY NfaFacts DEF IsWithinStates
  <2>2. ASSUME NEW q \in M.initial, q \in M.final PROVE B.initial \cap B.final # {}
    <3>1. PICK x \in B.initial : q = x + k
      BY <1>2 DEF Moved, Shifted
    <3>2. PICK y \in B.final : q = y + k
      BY <1>2, <2>2 DEF Moved, Shifted
    <3>3. x = y
      BY <1>3, <2>1, <3>1, <3>2
    <3>4. QED
      BY <3>3
  <2>3. ASSUME NEW q \in B.initial, q \in B.final PROVE M.initial \cap M.final # {}
    <3>1. q + k \in M.initial /\ q + k \in M.final
      BY <1>2, <2>3 DEF Moved, Shifted
    <3>2. QED
      BY <3>1
  <2>4. QED
    BY <2>2, <2>3
<1>6. /\ M.initial = Shifted(B.initial, k) /\ M.final = Shifted(B.final, k)
      /\ M.delta = Renumbered(B.delta, k)
  BY <1>2 DEF Moved
<1>7. /\ C.states = BothStates(A, B) /\ C.initial = A.initial
      /\ C.final = M.final \cup (IF B.initial \cap B.final # {} THEN A.final ELSE {})
      /\ C.delta = A.delta \cup M.delta \cup EntryMoves(A, M, M.initial)
      /\ C = [states |-> C.states, initial |-> C.initial, final |-> C.final, delta |-> C.delta]
  BY <1>1, <1>2, <1>6 DEF ConcatenatedObject
<1>8. AreJoinedByMoves(A, M, C)
  BY <1>5, <1>7 DEF AreJoinedByMoves
<1>9. IsProductOf(C, A, M)
  BY <1>3, <1>4, <1>8, SpelledByMoveJoin DEF IsProductOf
<1>10. IsSameAs(M, B)
  BY <1>2, MovedSpells
<1>11. IsNfa(C)
  <2>1. EntryMoves(A, M, M.initial) \subseteq A.states \X Nat \X M.states
    BY <1>3, <1>4 DEF EntryMoves, IsWithinStates
  <2>2. IsAutomaton(C, Nat)
    BY <1>3, <1>4, <1>7, <2>1 DEF IsAutomaton, IsWithinStates
  <2>3. QED
    BY <1>3, <1>7, <2>2 DEF IsNfa, num_of_states
<1>12. QED
  BY <1>1, <1>9, <1>10, <1>11, ProductOfSame

LEMMA JoinedIsProduct ==
  ASSUME NEW A, IsNfa(A), NEW B, IsNfa(B), EPSILON \in Nat, epsilon = EPSILON
  PROVE  IsNfa(JoinedByEpsilon(A, B)) /\ IsProductOf(JoinedByEpsilon(A, B), A, B)
<1>1. PICK C : C = JoinedByEpsilon(A, B)
  OBVIOUS
<1>2. PICK k : k = num_of_states(A)
  OBVIOUS
<1>3. PICK M : M = Moved(B, k)
  OBVIOUS
<1>4. /\ k \in Nat /\ IsWithinStates(M, M.states) /\ A.states \cap M.states = {}
      /\ A.states \cup M.states = BothStates(A, B) /\ IsFiniteSet(BothStates(A, B))
      /\ BothStates(A, B) = 0 .. Cardinality(BothStates(A, B)) - 1
  BY <1>2, <1>3, MovedFacts
<1>5. IsWithinStates(A, A.states)
  BY NfaFacts
<1>6. /\ M.initial = Shifted(B.initial, k) /\ M.final = Shifted(B.final, k)
      /\ M.delta = Renumbered(B.delta, k)
  BY <1>3 DEF Moved
<1>7. /\ C.states = BothStates(A, B) /\ C.initial = A.initial /\ C.final = M.final
      /\ C.delta = A.delta \cup M.delta \cup (A.final \X {EPSILON} \X M.initial)
      /\ C = [states |-> C.states, initial |-> C.initial, final |-> C.final, delta |-> C.delta]
  BY <1>1, <1>2, <1>6 DEF JoinedByEpsilon, BothStates
<1>8. AreJoinedSilently(A, M, C)
  BY <1>7 DEF AreJoinedSilently
<1>9. IsProductOf(C, A, M)
  BY <1>4, <1>5, <1>8, SpelledBySilentJoin DEF IsProductOf
<1>10. IsSameAs(M, B)
  BY <1>2, <1>3, MovedSpells
<1>11. IsNfa(C)
  <2>1. IsAutomaton(C, Nat)
    BY <1>4, <1>5, <1>7 DEF IsAutomaton, IsWithinStates
  <2>2. QED
    BY <1>4, <1>7, <2>1 DEF IsNfa, num_of_states
<1>12. QED
  BY <1>1, <1>9, <1>10, <1>11, ProductOfSame

LEMMA UnitedIsUnion ==
  ASSUME NEW A, IsNfa(A), NEW B, IsNfa(B), EPSILON \in Nat
  PROVE  IsNfa(United(A, B)) /\ IsUnionOf(United(A, B), A, B)
<1>1. CASE Trivial(A)
  <2>1. United(A, B) = B
    BY <1>1 DEF United
  <2>2. QED
    BY <1>1, <2>1, TrivialSpellsNothing DEF IsUnionOf
<1>2. CASE ~ Trivial(A) /\ Trivial(B)
  <2>1. United(A, B) = A
    BY <1>2 DEF United
  <2>2. QED
    BY <1>2, <2>1, TrivialSpellsNothing DEF IsUnionOf
<1>3. CASE ~ Trivial(A) /\ ~ Trivial(B)
  <2>1. PICK C : C = United(A, B)
    OBVIOUS
  <2>2. PICK k : k = num_of_states(A)
    OBVIOUS
  <2>3. PICK M : M = Moved(B, k)
    OBVIOUS
  <2>4. /\ k \in Nat /\ IsWithinStates(M, M.states) /\ A.states \cap M.states = {}
        /\ A.states \cup M.states = BothStates(A, B) /\ IsFiniteSet(BothStates(A, B))
        /\ BothStates(A, B) = 0 .. Cardinality(BothStates(A, B)) - 1
    BY <2>2, <2>3, MovedFacts
  <2>5. IsWithinStates(A, A.states)
    BY NfaFacts
  <2>6. /\ M.initial = Shifted(B.initial, k) /\ M.final = Shifted(B.final, k)
        /\ M.delta = Renumbered(B.delta, k)
    BY <2>3 DEF Moved
  <2>7. /\ C.states = BothStates(A, B) /\ C.initial = A.initial \cup M.initial
        /\ C.final = A.final \cup M.final /\ C.delta = A.delta \cup M.delta
        /\ C = [states |-> C.states, initial |-> C.initial, final |-> C.final, delta |-> C.delta]
    BY <1>3, <2>1, <2>2, <2>6 DEF United, BothStates
  <2>8. AreBeside(A, M, C)
    BY <2>7 DEF AreBeside
  <2>9. IsUnionOf(C, A, M)
    BY <2>4, <2>5, <2>8, SpelledByEither DEF IsUnionOf
  <2>10. IsSameAs(M, B)
    BY <2>2, <2>3, MovedSpells
  <2>11. IsUnionOf(C, A, B)
    BY <2>9, <2>10 DEF IsUnionOf, IsSameAs
  <2>12. IsNfa(C)
    <3>1. IsAutomaton(C, Nat)
      BY <2>4, <2>5, <2>7 DEF IsAutomaton, IsWithinStates
    <3>2. QED
      BY <2>4, <2>7, <3>1 DEF IsNfa, num_of_states
  <2>13. QED
    BY <2>1, <2>11, <2>12
<1>4. QED
  BY <1>1, <1>2, <1>3

------------------------------------------------------------------------------
(* Words of a bounded length.                                               *)
LEMMA WordsAreSequences ==
  ASSUME NEW T
  PROVE  \A w : w \in WordsUpTo(T, 4) <=> w \in Seq(T) /\ Len(w) <= 4
<1> TAKE w
<1>1. ASSUME w \in WordsUpTo(T, 4) PROVE w \in Seq(T) /\ Len(w) <= 4
  <2>1. PICK k \in 0 .. 4 : w \in [1 .. k -> T]
    BY <1>1 DEF WordsUpTo
  <2>2. k \in Nat /\ w \in Seq(T)
    BY <2>1, SeqDef
  <2>3. Len(w) = k
    BY <2>1, <2>2, LenProperties
  <2>4. QED
    BY <2>2, <2>3
<1>2. ASSUME w \in Seq(T), Len(w) <= 4 PROVE w \in WordsUpTo(T, 4)
  <2>1. PICK k \in Nat : k = Len(w)
    BY <1>2, LenProperties
  <2>2. k \in 0 .. 4
    BY <1>2, <2>1
  <2>3. w \in [1 .. k -> T]
    BY <1>2, <2>1, LenProperties
  <2>4. QED
    BY <2>2, <2>3 DEF WordsUpTo
<1>3. QED
  BY <1>1, <1>2

LEMMA PartIsOver ==
  ASSUME NEW T, NEW w \in Seq(T), NEW j \in Places(w), NEW l \in Places(w), j <= l
  PROVE  SubSeq(w, j + 1, l) \in Seq(T) /\ Len(SubSeq(w, j + 1, l)) = l - j
<1>1. Len(w) \in Nat /\ j \in Nat /\ l \in Nat /\ l <= Len(w)
  BY LenProperties DEF Places
<1>2. \A k \in j + 1 .. l : w[k] \in T
  <2> SUFFICES ASSUME NEW k \in j + 1 .. l PROVE w[k] \in T
    OBVIOUS
  <2>1. k \in 1 .. Len(w)
    BY <1>1
  <2>2. QED
    BY <2>1, ElementOfSeq
<1>3. j + 1 \in Int /\ l \in Int
  BY <1>1
<1>4. /\ SubSeq(w, j + 1, l) \in Seq(T)
      /\ Len(SubSeq(w, j + 1, l)) = IF j + 1 <= l THEN l - (j + 1) + 1 ELSE 0
  BY <1>2, <1>3, SubSeqProperties
<1>5. (IF j + 1 <= l THEN l - (j + 1) + 1 ELSE 0) = l - j
  BY <1>1
<1>6. QED
  BY <1>4, <1>5

LEMMA OverNumbers ==
  ASSUME NEW T \in SUBSET Nat, NEW w \in Seq(T)
  PROVE  IsWord(w)
<1>1. T \subseteq Nat
  OBVIOUS
<1>2. Seq(T) \subseteq Seq(Nat)
  BY <1>1, SeqMonotonic
<1>3. QED
  BY <1>2 DEF IsWord

(* A word that is put together of two is one that can be cut in two.        *)
CanBeCut(P, R, w) == \E k \in Places(w) : SubSeq(w, 1, k) \in P /\ SubSeq(w, k + 1, Len(w)) \in R

LEMMA ConcatenatedIsCut ==
  ASSUME NEW T, NEW P \in SUBSET WordsUpTo(T, 4), NEW R \in SUBSET WordsUpTo(T, 4)
  PROVE  Concatenated(P, R) = {w \in WordsUpTo(T, 4) : CanBeCut(P, R, w)}
<1>1. ASSUME NEW x \in Concatenated(P, R)
      PROVE  x \in WordsUpTo(T, 4) /\ CanBeCut(P, R, x)
  <2>1. PICK p \in P \X R : Len(p[1]) + Len(p[2]) <= 4 /\ x = p[1] \o p[2]
    BY DEF Concatenated
  <2>2. PICK u \in P : u = p[1]
    OBVIOUS
  <2>3. PICK v \in R : v = p[2]
    OBVIOUS
  <2>4. u \in Seq(T) /\ v \in Seq(T)
    BY WordsAreSequences
  <2>5. x = u \o v /\ Len(u) + Len(v) <= 4
    BY <2>1, <2>2, <2>3
  <2>6. /\ x \in Seq(T) /\ Len(x) = Len(u) + Len(v) /\ Len(u) \in Nat /\ Len(v) \in Nat
        /\ \A k \in 1 .. Len(u) + Len(v) : x[k] = IF k <= Len(u) THEN u[k] ELSE v[k - Len(u)]
    BY <2>4, <2>5, ConcatProperties, LenProperties
  <2>7. x \in WordsUpTo(T, 4)
    BY <2>5, <2>6, WordsAreSequences
  <2>8. PICK y \in Nat : y = Len(u)
    BY <2>6
  <2>9. y \in Places(x) /\ 0 \in Places(x) /\ Len(x) \in Places(x)
    BY <2>6, <2>8 DEF Places
  <2>10. SubSeq(x, 1, y) = u
    <3>1. /\ SubSeq(x, 1, y) \in Seq(T) /\ Len(SubSeq(x, 1, y)) = y
          /\ \A k \in 1 .. y : SubSeq(x, 1, y)[k] = x[k]
      <4>1. \A k \in 1 .. y : x[k] \in T
        <5> TAKE k \in 1 .. y
        <5>1. k \in 1 .. Len(x)
          BY <2>6, <2>8
        <5>2. QED
          BY <2>6, <5>1, ElementOfSeq
      <4>2. /\ SubSeq(x, 1, y) \in Seq(T)
            /\ Len(SubSeq(x, 1, y)) = IF 1 <= y THEN y - 1 + 1 ELSE 0
            /\ \A k \in 1 .. y - 1 + 1 : SubSeq(x, 1, y)[k] = x[1 + k - 1]
        BY <4>1, SubSeqProperties
      <4>3. (IF 1 <= y THEN y - 1 + 1 ELSE 0) = y /\ y - 1 + 1 = y
            /\ \A k \in 1 .. y : 1 + k - 1 = k
        OBVIOUS
      <4>4. QED
        BY <4>2, <4>3
    <3>2. \A k \in 1 .. y : x[k] = u[k]
      BY <2>6, <2>8
    <3>3. QED
      BY <2>4, <2>8, <3>1, <3>2, SeqEqual
  <2>11. SubSeq(x, y + 1, Len(x)) = v
    <3>1. PICK z \in Nat : z = Len(x)
      BY <2>6
    <3>2. PICK d \in Nat : d = Len(v) /\ z = y + d
      BY <2>6, <2>8, <3>1
    <3>3. /\ SubSeq(x, y + 1, z) \in Seq(T) /\ Len(SubSeq(x, y + 1, z)) = Len(v)
          /\ \A k \in 1 .. Len(v) : SubSeq(x, y + 1, z)[k] = x[y + k]
      <4>1. \A k \in y + 1 .. z : x[k] \in T
        <5> TAKE k \in y + 1 .. z
        <5>1. k \in 1 .. Len(x)
          BY <3>1
        <5>2. QED
          BY <2>6, <5>1, ElementOfSeq
      <4>2. y + 1 \in Int /\ z \in Int
        OBVIOUS
      <4>3. /\ SubSeq(x, y + 1, z) \in Seq(T)
            /\ Len(SubSeq(x, y + 1, z)) = IF y + 1 <= z THEN z - (y + 1) + 1 ELSE 0
            /\ \A k \in 1 .. z - (y + 1) + 1 : SubSeq(x, y + 1, z)[k] = x[(y + 1) + k - 1]
        BY <4>1, <4>2, SubSeqProperties
      <4>4. /\ (IF y + 1 <= z THEN z - (y + 1) + 1 ELSE 0) = Len(v) /\ z - (y + 1) + 1 = Len(v)
            /\ \A k \in 1 .. Len(v) : (y + 1) + k - 1 = y + k
        <5>1. /\ (IF y + 1 <= z THEN z - (y + 1) + 1 ELSE 0) = d /\ z - (y + 1) + 1 = d
              /\ \A k \in 1 .. d : (y + 1) + k - 1 = y + k
          BY <3>2
        <5>2. QED
          BY <3>2, <5>1
      <4>5. QED
        BY <4>3, <4>4
    <3>4. \A k \in 1 .. Len(v) : x[y + k] = v[k]
      <4> TAKE k \in 1 .. Len(v)
      <4>1. y + k \in 1 .. Len(u) + Len(v) /\ ~ (y + k <= Len(u)) /\ (y + k) - Len(u) = k
        BY <2>6, <2>8
      <4>2. QED
        BY <2>6, <4>1
    <3>5. QED
      BY <2>4, <3>1, <3>3, <3>4, SeqEqual
  <2>12. QED
    BY <2>7, <2>9, <2>10, <2>11 DEF CanBeCut
<1>2. ASSUME NEW x \in WordsUpTo(T, 4), CanBeCut(P, R, x)
      PROVE  x \in Concatenated(P, R)
  <2>1. PICK k \in Places(x) : SubSeq(x, 1, k) \in P /\ SubSeq(x, k + 1, Len(x)) \in R
    BY <1>2 DEF CanBeCut
  <2>2. x \in Seq(T) /\ Len(x) <= 4 /\ Len(x) \in Nat
    BY WordsAreSequences, LenProperties
  <2>3. k \in Nat /\ k <= Len(x) /\ Len(x) \in Places(x) /\ 0 \in Places(x)
    BY <2>2 DEF Places
  <2>4. PICK u : u = SubSeq(x, 1, k)
    OBVIOUS
  <2>5. PICK v : v = SubSeq(x, k + 1, Len(x))
    OBVIOUS
  <2>6. u \o v = x
    <3>1. 1 \in 1 .. Len(x) + 1 /\ k \in 1 - 1 .. Len(x) /\ Len(x) \in k .. Len(x)
      BY <2>2, <2>3
    <3>2. SubSeq(x, 1, k) \o SubSeq(x, k + 1, Len(x)) = SubSeq(x, 1, Len(x))
      BY <2>2, <3>1, ConcatAdjacentSubSeq
    <3>3. SubSeq(x, 1, Len(x)) = x
      BY <2>2, SubSeqFull
    <3>4. QED
      BY <2>4, <2>5, <3>2, <3>3
  <2>7. u \in Seq(T) /\ v \in Seq(T)
    BY <2>1, <2>4, <2>5, WordsAreSequences
  <2>8. Len(u) + Len(v) = Len(x)
    BY <2>6, <2>7, ConcatProperties
  <2>9. PICK p \in P \X R : p = <<u, v>>
    BY <2>1, <2>4, <2>5
  <2>10. p \in {c \in P \X R : Len(c[1]) + Len(c[2]) <= 4} /\ x = p[1] \o p[2]
    BY <2>2, <2>6, <2>8, <2>9
  <2>11. QED
    BY <2>10 DEF Concatenated
<1>3. QED
  BY <1>1, <1>2

------------------------------------------------------------------------------
(* What the objects spell is what the languages of the model say.           *)
LanguageUpTo(A, T) == {w \in WordsUpTo(T, 4) : Accepts(Silenced(A), w)}

LEMMA AcceptedIsSpelled ==
  ASSUME NEW A, IsNfa(A), EPSILON \in Nat, NEW w, IsWord(w)
  PROVE  Accepts(Silenced(A), w) <=> Spells(A, w, 0, Len(w))
<1>1. 0 \in Places(w) /\ Len(w) \in Places(w) /\ 0 <= Len(w) /\ 0 + 1 = 1
  BY WordPlaces
<1>2. Spells(A, w, 0, Len(w)) <=> Accepts(Silenced(A), SubSeq(w, 0 + 1, Len(w)))
  <2>1. PICK l : l = Len(w)
    OBVIOUS
  <2>2. Spells(A, w, 0, l) <=> Accepts(Silenced(A), SubSeq(w, 0 + 1, l))
    BY <1>1, <2>1, SpelledIsAccepted
  <2>3. QED
    BY <2>1, <2>2
<1>3. SubSeq(w, 1, Len(w)) = w
  BY SubSeqFull DEF IsWord
<1>4. QED
  BY <1>1, <1>2, <1>3

LEMMA InLanguage ==
  ASSUME NEW A, IsNfa(A), EPSILON \in Nat, NEW T \in SUBSET Nat, NEW w \in WordsUpTo(T, 4)
  PROVE  /\ IsWord(w) /\ w \in Seq(T) /\ Len(w) \in Nat /\ Len(w) <= 4
         /\ w \in LanguageUpTo(A, T) <=> Spells(A, w, 0, Len(w))
<1>1. w \in Seq(T) /\ Len(w) <= 4
  BY WordsAreSequences
<1>2. IsWord(w)
  BY <1>1, OverNumbers
<1>3. Accepts(Silenced(A), w) <=> Spells(A, w, 0, Len(w))
  BY <1>2, AcceptedIsSpelled
<1>4. QED
  BY <1>1, <1>2, <1>3, WordPlaces DEF LanguageUpTo

LEMMA PartInLanguage ==
  ASSUME NEW A, IsNfa(A), EPSILON \in Nat, NEW T \in SUBSET Nat, NEW w \in WordsUpTo(T, 4),
         NEW j \in Places(w), NEW l \in Places(w), j <= l
  PROVE  /\ SubSeq(w, j + 1, l) \in WordsUpTo(T, 4)
         /\ SubSeq(w, j + 1, l) \in LanguageUpTo(A, T) <=> Spells(A, w, j, l)
<1>1. w \in Seq(T) /\ IsWord(w) /\ Len(w) \in Nat /\ Len(w) <= 4
  BY InLanguage
<1>2. SubSeq(w, j + 1, l) \in Seq(T) /\ Len(SubSeq(w, j + 1, l)) = l - j
  BY <1>1, PartIsOver
<1>3. l - j <= 4
  BY <1>1, WordPlaces DEF Places
<1>4. SubSeq(w, j + 1, l) \in WordsUpTo(T, 4)
  BY <1>2, <1>3, WordsAreSequences
<1>5. Spells(A, w, j, l) <=> Accepts(Silenced(A), SubSeq(w, j + 1, l))
  BY <1>1, SpelledIsAccepted
<1>6. QED
  BY <1>4, <1>5 DEF LanguageUpTo

(* A word can be cut in two as the places between its letters say.          *)
LEMMA CutAtPlace ==
  ASSUME NEW A, IsNfa(A), NEW B, IsNfa(B), EPSILON \in Nat, NEW T \in SUBSET Nat,
         NEW w \in WordsUpTo(T, 4)
  PROVE  CanBeCut(LanguageUpTo(A, T), LanguageUpTo(B, T), w) <=> SpellsBoth(A, B, w, 0, Len(w))
<1>1. IsWord(w)
  BY InLanguage
<1>2. \A k \in Places(w) : 0 <= k /\ k <= Len(w) /\ 0 + 1 = 1
  BY <1>1, WordPlaces DEF Places
<1>3. \A k \in Places(w) : SubSeq(w, 0 + 1, k) \in LanguageUpTo(A, T) <=> Spells(A, w, 0, k)
  BY <1>1, <1>2, WordPlaces, PartInLanguage
<1>4. \A k \in Places(w) :
        SubSeq(w, k + 1, Len(w)) \in LanguageUpTo(B, T) <=> Spells(B, w, k, Len(w))
  <2> TAKE k \in Places(w)
  <2>1. PICK l : l = Len(w)
    OBVIOUS
  <2>2. l \in Places(w) /\ k <= l
    BY <1>1, <1>2, <2>1, WordPlaces
  <2>3. SubSeq(w, k + 1, l) \in LanguageUpTo(B, T) <=> Spells(B, w, k, l)
    BY <2>2, PartInLanguage
  <2>4. QED
    BY <2>1, <2>3
<1>5. QED
  BY <1>2, <1>3, <1>4 DEF CanBeCut, SpellsBoth

LEMMA LanguageOfProduct ==
  ASSUME NEW X, IsNfa(X), NEW A, IsNfa(A), NEW B, IsNfa(B), EPSILON \in Nat, NEW T \in SUBSET Nat,
         IsProductOf(X, A, B)
  PROVE  LanguageUpTo(X, T) = Concatenated(LanguageUpTo(A, T), LanguageUpTo(B, T))
<1>1. LanguageUpTo(A, T) \in SUBSET WordsUpTo(T, 4) /\ LanguageUpTo(B, T) \in SUBSET WordsUpTo(T, 4)
  BY DEF LanguageUpTo
<1>2. Concatenated(LanguageUpTo(A, T), LanguageUpTo(B, T))
        = {w \in WordsUpTo(T, 4) : CanBeCut(LanguageUpTo(A, T), LanguageUpTo(B, T), w)}
  BY <1>1, ConcatenatedIsCut
<1>3. ASSUME NEW w \in WordsUpTo(T, 4)
      PROVE  w \in LanguageUpTo(X, T) <=> CanBeCut(LanguageUpTo(A, T), LanguageUpTo(B, T), w)
  <2>1. IsWord(w) /\ (w \in LanguageUpTo(X, T) <=> Spells(X, w, 0, Len(w)))
    BY InLanguage
  <2>2. Spells(X, w, 0, Len(w)) <=> SpellsBoth(A, B, w, 0, Len(w))
    BY <2>1, WordPlaces DEF IsProductOf
  <2>3. QED
    BY <2>1, <2>2, CutAtPlace
<1>4. LanguageUpTo(X, T) \subseteq WordsUpTo(T, 4)
  BY DEF LanguageUpTo
<1>5. QED
  BY <1>2, <1>3, <1>4

LEMMA LanguageOfUnion ==
  ASSUME NEW X, IsNfa(X), NEW A, IsNfa(A), NEW B, IsNfa(B), EPSILON \in Nat, NEW T \in SUBSET Nat,
         IsUnionOf(X, A, B)
  PROVE  LanguageUpTo(X, T) = LanguageUpTo(A, T) \cup LanguageUpTo(B, T)
<1>1. ASSUME NEW w \in WordsUpTo(T, 4)
      PROVE  w \in LanguageUpTo(X, T) <=> w \in LanguageUpTo(A, T) \/ w \in LanguageUpTo(B, T)
  <2>1. IsWord(w) /\ (w \in LanguageUpTo(X, T) <=> Spells(X, w, 0, Len(w)))
    BY InLanguage
  <2>2. w \in LanguageUpTo(A, T) <=> Spells(A, w, 0, Len(w))
    BY InLanguage
  <2>3. w \in LanguageUpTo(B, T) <=> Spells(B, w, 0, Len(w))
    BY InLanguage
  <2>4. QED
    BY <2>1, <2>2, <2>3, WordPlaces DEF IsUnionOf
<1>2. QED
  BY <1>1 DEF LanguageUpTo

LEMMA LanguageOfSame ==
  ASSUME NEW X, IsNfa(X), NEW A, IsNfa(A), EPSILON \in Nat, NEW T \in SUBSET Nat, IsSameAs(X, A)
  PROVE  LanguageUpTo(X, T) = LanguageUpTo(A, T)
<1>1. ASSUME NEW w \in WordsUpTo(T, 4)
      PROVE  w \in LanguageUpTo(X, T) <=> w \in LanguageUpTo(A, T)
  <2>1. IsWord(w) /\ (w \in LanguageUpTo(X, T) <=> Spells(X, w, 0, Len(w)))
    BY InLanguage
  <2>2. w \in LanguageUpTo(A, T) <=> Spells(A, w, 0, Len(w))
    BY InLanguage
  <2>3. QED
    BY <2>1, <2>2, WordPlaces DEF IsSameAs
<1>2. QED
  BY <1>1 DEF LanguageUpTo

(* A cut of the first part of a word is a cut of the word.                  *)
LEMMA PowerOfPart ==
  ASSUME NEW A, IsNfa(A), EPSILON \in Nat, NEW N \in Nat, NEW w, IsWord(w), NEW z \in Places(w),
         NEW u, u = SubSeq(w, 1, z)
  PROVE  SpellsPower(A, N, u, 0, z) <=> SpellsPower(A, N, w, 0, z)
<1>1. /\ 0 \in Places(w) /\ Places(w) \subseteq Nat /\ z \in Nat /\ z <= Len(w) /\ Len(w) \in Nat
      /\ 0 <= z /\ 0 + 1 = 1 /\ z - 0 = z
  BY WordPlaces DEF Places
<1>2. IsWord(u) /\ Len(u) = z /\ \A k \in 1 .. z : u[k] = w[k]
  <2>1. /\ Len(SubSeq(w, 0 + 1, z)) = z - 0 /\ IsWord(SubSeq(w, 0 + 1, z))
        /\ \A k \in 1 .. z - 0 : SubSeq(w, 0 + 1, z)[k] = w[0 + k]
    BY <1>1, PartOfWord
  <2>2. \A k \in 1 .. z : 0 + k = k
    BY <1>1
  <2>3. QED
    BY <1>1, <2>1, <2>2
<1>3. Places(u) = 0 .. z /\ Places(u) \subseteq Places(w)
  BY <1>1, <1>2 DEF Places
<1>4. ASSUME NEW j \in Places(u), NEW l \in Places(u), j <= l
      PROVE  Spells(A, u, j, l) <=> Spells(A, w, j, l)
  <2>1. j \in Nat /\ l \in Nat /\ l <= z /\ j \in Places(w) /\ l \in Places(w)
    BY <1>1, <1>3
  <2>2. /\ Len(SubSeq(u, j + 1, l)) = l - j /\ IsWord(SubSeq(u, j + 1, l))
        /\ \A k \in 1 .. l - j : SubSeq(u, j + 1, l)[k] = u[j + k]
    BY <1>2, <1>4, PartOfWord
  <2>3. /\ Len(SubSeq(w, j + 1, l)) = l - j /\ IsWord(SubSeq(w, j + 1, l))
        /\ \A k \in 1 .. l - j : SubSeq(w, j + 1, l)[k] = w[j + k]
    BY <1>4, <2>1, PartOfWord
  <2>4. \A k \in 1 .. l - j : u[j + k] = w[j + k]
    <3> TAKE k \in 1 .. l - j
    <3>1. j + k \in 1 .. z
      BY <2>1
    <3>2. QED
      BY <1>2, <3>1
  <2>5. SubSeq(u, j + 1, l) = SubSeq(w, j + 1, l)
    <3>1. PICK x : x = SubSeq(u, j + 1, l)
      OBVIOUS
    <3>2. PICK y : y = SubSeq(w, j + 1, l)
      OBVIOUS
    <3>3. x \in Seq(Nat) /\ y \in Seq(Nat) /\ Len(x) = Len(y) /\ Len(x) = l - j
      BY <2>2, <2>3, <3>1, <3>2 DEF IsWord
    <3>4. \A k \in 1 .. Len(x) : x[k] = y[k]
      BY <2>2, <2>3, <2>4, <3>1, <3>2, <3>3
    <3>5. x = y
      BY <3>3, <3>4, SeqEqual
    <3>6. QED
      BY <3>1, <3>2, <3>5
  <2>6. Spells(A, u, j, l) <=> Accepts(Silenced(A), SubSeq(u, j + 1, l))
    BY <1>2, <1>4, SpelledIsAccepted
  <2>7. Spells(A, w, j, l) <=> Accepts(Silenced(A), SubSeq(w, j + 1, l))
    BY <1>4, <2>1, SpelledIsAccepted
  <2>8. QED
    BY <2>5, <2>6, <2>7
<1>5. ASSUME NEW c, IsCut(A, N, u, 0, z, c) PROVE IsCut(A, N, w, 0, z, c)
  <2>1. /\ c \in [0 .. N -> Places(u)] /\ c[0] = 0 /\ c[N] = z
        /\ \A x, y \in 0 .. N : x <= y => c[x] <= c[y]
        /\ \A x \in 1 .. N : Spells(A, u, c[x - 1], c[x])
    BY <1>5 DEF IsCut
  <2>2. \A x \in 1 .. N : Spells(A, w, c[x - 1], c[x])
    <3> TAKE x \in 1 .. N
    <3>1. x \in 0 .. N /\ x - 1 \in 0 .. N /\ x - 1 <= x
      OBVIOUS
    <3>2. c[x - 1] \in Places(u) /\ c[x] \in Places(u) /\ c[x - 1] <= c[x]
      BY <2>1, <3>1
    <3>3. QED
      BY <1>4, <2>1, <3>2
  <2>3. c \in [0 .. N -> Places(w)]
    BY <1>3, <2>1
  <2>4. QED
    BY <2>1, <2>2, <2>3 DEF IsCut
<1>6. ASSUME NEW c, IsCut(A, N, w, 0, z, c) PROVE IsCut(A, N, u, 0, z, c)
  <2>1. /\ c \in [0 .. N -> Places(w)] /\ c[0] = 0 /\ c[N] = z
        /\ \A x, y \in 0 .. N : x <= y => c[x] <= c[y]
        /\ \A x \in 1 .. N : Spells(A, w, c[x - 1], c[x])
    BY <1>6 DEF IsCut
  <2>2. \A x \in 0 .. N : c[x] \in Places(u)
    <3> TAKE x \in 0 .. N
    <3>1. N \in 0 .. N /\ x <= N
      OBVIOUS
    <3>2. c[x] <= z /\ c[x] \in Nat
      BY <1>1, <2>1, <3>1
    <3>3. QED
      BY <1>1, <1>3, <3>2
  <2>3. \A x \in 1 .. N : Spells(A, u, c[x - 1], c[x])
    <3> TAKE x \in 1 .. N
    <3>1. x \in 0 .. N /\ x - 1 \in 0 .. N /\ x - 1 <= x
      OBVIOUS
    <3>2. c[x - 1] \in Places(u) /\ c[x] \in Places(u) /\ c[x - 1] <= c[x]
      BY <2>1, <2>2, <3>1
    <3>3. QED
      BY <1>4, <2>1, <3>2
  <2>4. c \in [0 .. N -> Places(u)]
    BY <2>1, <2>2
  <2>5. QED
    BY <2>1, <2>3, <2>4 DEF IsCut
<1>7. QED
  BY <1>5, <1>6 DEF SpellsPower

(* The words of the N-th power, by places and one part after the other.     *)
PowerUpTo(A, T, N) == {w \in WordsUpTo(T, 4) : SpellsPower(A, N, w, 0, Len(w))}

LEMMA PowerUpToZero ==
  ASSUME NEW A, NEW T \in SUBSET Nat
  PROVE  PowerUpTo(A, T, 0) = {<< >>}
<1>1. ASSUME NEW w \in PowerUpTo(A, T, 0) PROVE w = << >>
  <2>1. w \in Seq(T) /\ SpellsPower(A, 0, w, 0, Len(w))
    BY WordsAreSequences DEF PowerUpTo
  <2>2. IsWord(w)
    BY <2>1, OverNumbers
  <2>3. Len(w) = 0
    <3>1. PICK l : l = Len(w)
      OBVIOUS
    <3>2. 0 \in Places(w) /\ l \in Places(w)
      BY <2>2, <3>1, WordPlaces
    <3>3. 0 = l
      BY <2>1, <2>2, <3>1, <3>2, PowerZero
    <3>4. QED
      BY <3>1, <3>3
  <2>4. QED
    BY <2>1, <2>3, EmptySeq
<1>2. << >> \in PowerUpTo(A, T, 0)
  <2>1. PICK w : w = << >>
    OBVIOUS
  <2>2. w \in Seq(T) /\ Len(w) = 0
    BY <2>1, EmptySeq
  <2>3. IsWord(w) /\ w \in WordsUpTo(T, 4)
    <3>1. IsWord(w)
      BY <2>2, OverNumbers
    <3>2. Len(w) <= 4
      BY <2>2
    <3>3. QED
      BY <2>2, <3>1, <3>2, WordsAreSequences
  <2>4. 0 \in Places(w)
    BY <2>3, WordPlaces
  <2>5. SpellsPower(A, 0, w, 0, 0)
    BY <2>3, <2>4, PowerZero
  <2>6. QED
    BY <2>1, <2>2, <2>3, <2>5 DEF PowerUpTo
<1>3. QED
  BY <1>1, <1>2

LEMMA PowerUpToNext ==
  ASSUME NEW A, IsNfa(A), EPSILON \in Nat, NEW T \in SUBSET Nat, NEW N \in Nat
  PROVE  PowerUpTo(A, T, N + 1) = Concatenated(PowerUpTo(A, T, N), LanguageUpTo(A, T))
<1>1. PowerUpTo(A, T, N) \in SUBSET WordsUpTo(T, 4) /\ LanguageUpTo(A, T) \in SUBSET WordsUpTo(T, 4)
  BY DEF LanguageUpTo, PowerUpTo
<1>2. Concatenated(PowerUpTo(A, T, N), LanguageUpTo(A, T))
        = {w \in WordsUpTo(T, 4) : CanBeCut(PowerUpTo(A, T, N), LanguageUpTo(A, T), w)}
  BY <1>1, ConcatenatedIsCut
<1>3. ASSUME NEW w \in WordsUpTo(T, 4)
      PROVE  SpellsPower(A, N + 1, w, 0, Len(w))
               <=> CanBeCut(PowerUpTo(A, T, N), LanguageUpTo(A, T), w)
  <2>1. PICK l : l = Len(w)
    OBVIOUS
  <2>2. IsWord(w) /\ 0 \in Places(w) /\ l \in Places(w)
    BY <2>1, InLanguage, WordPlaces
  <2>3. \A k \in Places(w) : 0 <= k /\ k <= l /\ 0 + 1 = 1 /\ k - 0 = k
    BY <2>1, <2>2, WordPlaces DEF Places
  <2>4. SpellsPower(A, N + 1, w, 0, l)
          <=> \E k \in Places(w) : SpellsPower(A, N, w, 0, k) /\ SpellsPower(A, 1, w, k, l)
    BY <2>2, PowerSum
  <2>5. ASSUME NEW k \in Places(w)
        PROVE  SpellsPower(A, 1, w, k, l) <=> SubSeq(w, k + 1, l) \in LanguageUpTo(A, T)
    <3>1. SpellsPower(A, 1, w, k, l) <=> Spells(A, w, k, l)
      BY <2>2, NfaFacts, PowerOne
    <3>2. SubSeq(w, k + 1, l) \in LanguageUpTo(A, T) <=> Spells(A, w, k, l)
      BY <2>2, <2>3, PartInLanguage
    <3>3. QED
      BY <3>1, <3>2
  <2>6. ASSUME NEW k \in Places(w)
        PROVE  SpellsPower(A, N, w, 0, k) <=> SubSeq(w, 1, k) \in PowerUpTo(A, T, N)
    <3>1. PICK u : u = SubSeq(w, 1, k)
      OBVIOUS
    <3>2. SpellsPower(A, N, u, 0, k) <=> SpellsPower(A, N, w, 0, k)
      BY <2>2, <3>1, PowerOfPart
    <3>3. SubSeq(w, 0 + 1, k) \in WordsUpTo(T, 4)
      BY <2>2, <2>3, PartInLanguage
    <3>4. Len(SubSeq(w, 0 + 1, k)) = k - 0
      BY <2>2, <2>3, PartOfWord
    <3>5. u \in WordsUpTo(T, 4) /\ Len(u) = k
      BY <2>3, <3>1, <3>3, <3>4
    <3>6. QED
      BY <3>1, <3>2, <3>5 DEF PowerUpTo
  <2>7. QED
    BY <2>1, <2>4, <2>5, <2>6 DEF CanBeCut
<1>4. QED
  BY <1>2, <1>3 DEF PowerUpTo

LEMMA PowerIsPower ==
  ASSUME NEW A, IsNfa(A), EPSILON \in Nat, NEW T \in SUBSET Nat, job.power \in Nat
  PROVE  Power(LanguageUpTo(A, T)) = PowerUpTo(A, T, job.power)
<1>1. PICK N \in Nat : N = job.power
  OBVIOUS
<1>2. PICK L : L = LanguageUpTo(A, T)
  OBVIOUS
<1> DEFINE Rec(g) ==
      g = [k \in 0 .. N |->
             IF k = 0 THEN {<< >>} ELSE LET before == g[k - 1] IN Concatenated(before, L)]
    times == CHOOSE g : Rec(g)
    f == [k \in 0 .. N |-> PowerUpTo(A, T, k)]
<1>3. \A k \in 0 .. N :
        f[k] = IF k = 0 THEN {<< >>} ELSE Concatenated(f[k - 1], L)
  <2> TAKE k \in 0 .. N
  <2>1. CASE k = 0
    BY <2>1, PowerUpToZero
  <2>2. CASE k # 0
    <3>1. k - 1 \in 0 .. N /\ k - 1 \in Nat /\ (k - 1) + 1 = k
      BY <2>2
    <3>2. PowerUpTo(A, T, (k - 1) + 1) = Concatenated(PowerUpTo(A, T, k - 1), LanguageUpTo(A, T))
      BY <3>1, PowerUpToNext
    <3>3. QED
      BY <1>2, <2>2, <3>1, <3>2
  <2>3. QED
    BY <2>1, <2>2
<1>4. Rec(f)
  <2>1. f = [k \in 0 .. N |-> f[k]]
    OBVIOUS
  <2> HIDE DEF f
  <2>2. QED
    BY <1>3, <2>1, Zenon
<1>5. Rec(times)
  <2> HIDE DEF Rec
  <2>1. QED
    BY <1>4
<1>6. Power(L) = times[N]
  BY <1>1 DEF Power
<1> HIDE DEF times, f
<1>7. \A k \in 0 .. N : times[k] = IF k = 0 THEN {<< >>} ELSE Concatenated(times[k - 1], L)
  BY <1>5
<1> DEFINE S == {k \in Nat : k <= N => times[k] = f[k]}
<1>8. 0 \in S
  <2>1. 0 \in 0 .. N
    OBVIOUS
  <2>2. QED
    BY <1>3, <1>7, <2>1
<1>9. ASSUME NEW k \in Nat, k \in S PROVE k + 1 \in S
  <2> SUFFICES ASSUME k + 1 <= N PROVE times[k + 1] = f[k + 1]
    OBVIOUS
  <2>1. k + 1 \in 0 .. N /\ (k + 1) - 1 = k /\ k + 1 # 0 /\ times[k] = f[k]
    BY <1>9
  <2>2. QED
    BY <1>3, <1>7, <2>1
<1>10. Nat \subseteq S
  <2> HIDE DEF S
  <2>1. QED
    BY <1>8, <1>9, SetInduction
<1>11. times[N] = f[N]
  <2>1. N \in S
    BY <1>10
  <2>2. QED
    BY <2>1
<1>12. f[N] = PowerUpTo(A, T, N)
  BY DEF f
<1>13. QED
  BY <1>1, <1>2, <1>6, <1>11, <1>12

LEMMA LanguageOfPower ==
  ASSUME NEW X, IsNfa(X), NEW A, IsNfa(A), EPSILON \in Nat, NEW T \in SUBSET Nat, job.power \in Nat,
         IsPowerOf(X, A, job.power)
  PROVE  LanguageUpTo(X, T) = Power(LanguageUpTo(A, T))
<1>1. ASSUME NEW w \in WordsUpTo(T, 4)
      PROVE  w \in LanguageUpTo(X, T) <=> w \in PowerUpTo(A, T, job.power)
  <2>1. IsWord(w) /\ (w \in LanguageUpTo(X, T) <=> Spells(X, w, 0, Len(w)))
    BY InLanguage
  <2>2. Spells(X, w, 0, Len(w)) <=> SpellsPower(A, job.power, w, 0, Len(w))
    BY <2>1, WordPlaces DEF IsPowerOf
  <2>3. QED
    BY <2>1, <2>2 DEF PowerUpTo
<1>2. LanguageUpTo(X, T) = PowerUpTo(A, T, job.power)
  BY <1>1 DEF LanguageUpTo, PowerUpTo
<1>3. QED
  BY <1>2, PowerIsPower

------------------------------------------------------------------------------
(* An automaton whose parts are replaced.                                   *)
Parts == {"states", "initial", "final", "delta"}

LEMMA ReplacedMoves ==
  ASSUME NEW X, NEW st, NEW ini, NEW fin, NEW del, NEW del2,
         X = [states |-> st, initial |-> ini, final |-> fin, delta |-> del]
  PROVE  [X EXCEPT !.delta = del2] = [states |-> st, initial |-> ini, final |-> fin, delta |-> del2]
OBVIOUS

LEMMA ReplacedFinals ==
  ASSUME NEW X, NEW st, NEW ini, NEW fin, NEW del, NEW fin2,
         X = [states |-> st, initial |-> ini, final |-> fin, delta |-> del]
  PROVE  [X EXCEPT !.final = fin2] = [states |-> st, initial |-> ini, final |-> fin2, delta |-> del]
OBVIOUS

WithStates(X, st, del) == [X EXCEPT !.states = st, !.delta = del]
WithFinals(X, fin, del) == [X EXCEPT !.final = fin, !.delta = del]

LEMMA ReplacedStates ==
  ASSUME NEW X, NEW st, NEW ini, NEW fin, NEW del, NEW st2, NEW del2,
         X = [states |-> st, initial |-> ini, final |-> fin, delta |-> del]
  PROVE  WithStates(X, st2, del2)
           = [states |-> st2, initial |-> ini, final |-> fin, delta |-> del2]
<1>1. PICK Z : Z = [X EXCEPT !.states = st2, !.delta = del2]
  OBVIOUS
<1>2. DOMAIN X = Parts
  BY DEF Parts
<1>3. Z = [x \in Parts |-> IF x = "delta" THEN del2 ELSE IF x = "states" THEN st2 ELSE X[x]]
  BY <1>1, <1>2 DEF Parts
<1>4. [x \in Parts |-> IF x = "delta" THEN del2 ELSE IF x = "states" THEN st2 ELSE X[x]]
        = [states |-> st2, initial |-> ini, final |-> fin, delta |-> del2]
  BY <1>2 DEF Parts
<1>5. QED
  BY <1>1, <1>3, <1>4 DEF WithStates

LEMMA ReplacedBoth ==
  ASSUME NEW X, NEW st, NEW ini, NEW fin, NEW del, NEW fin2, NEW del2,
         X = [states |-> st, initial |-> ini, final |-> fin, delta |-> del]
  PROVE  WithFinals(X, fin2, del2)
           = [states |-> st, initial |-> ini, final |-> fin2, delta |-> del2]
<1>1. PICK Z : Z = [X EXCEPT !.final = fin2, !.delta = del2]
  OBVIOUS
<1>2. DOMAIN X = Parts
  BY DEF Parts
<1>3. Z = [x \in Parts |-> IF x = "delta" THEN del2 ELSE IF x = "final" THEN fin2 ELSE X[x]]
  BY <1>1, <1>2 DEF Parts
<1>4. [x \in Parts |-> IF x = "delta" THEN del2 ELSE IF x = "final" THEN fin2 ELSE X[x]]
        = [states |-> st, initial |-> ini, final |-> fin2, delta |-> del2]
  BY <1>2 DEF Parts
<1>5. QED
  BY <1>1, <1>3, <1>4 DEF WithFinals

(* Nfa::concatenate, half-way: the moves of the initial states S of B have  *)
(* been given to the final states of A.                                     *)
Connected(A, B, k, S) ==
  [states |-> BothStates(A, B), initial |-> A.initial, final |-> A.final,
   delta |-> A.delta \cup Renumbered(B.delta, k) \cup EntryMoves(A, Moved(B, k), Shifted(S, k))]

FinalsSoFar(A, B, k, S) ==
  Shifted(B.final, k) \cup (IF S \cap B.final # {} THEN A.final ELSE {})

LEMMA EntryMovesOfBoth ==
  ASSUME NEW A, NEW M, NEW S, NEW R
  PROVE  /\ EntryMoves(A, M, S \cup R) = EntryMoves(A, M, S) \cup EntryMoves(A, M, R)
         /\ EntryMoves(A, M, {}) = {}
BY DEF EntryMoves

LEMMA MovesFromEntry ==
  ASSUME NEW A, IsNfa(A), NEW B, IsNfa(B), NEW k, k = num_of_states(A),
         NEW S \in SUBSET B.initial, NEW s \in B.initial,
         NEW D, D = Connected(A, B, k, S).delta
  PROVE  UNION {A.final \X {m[2]} \X {m[3]} : m \in {d \in D : d[1] = s + k}}
           = EntryMoves(A, Moved(B, k), Shifted({s}, k))
<1>1. PICK M : M = Moved(B, k)
  OBVIOUS
<1>2. /\ k \in Nat /\ IsWithinStates(M, M.states) /\ A.states \cap M.states = {}
  BY <1>1, MovedFacts
<1>3. M.delta = Renumbered(B.delta, k) /\ M.initial = Shifted(B.initial, k)
  BY <1>1 DEF Moved
<1>4. IsWithinStates(A, A.states)
  BY NfaFacts
<1>5. D = A.delta \cup M.delta \cup EntryMoves(A, M, Shifted(S, k))
  BY <1>1, <1>3 DEF Connected
<1>6. s + k \in M.initial /\ s + k \in M.states /\ s + k \notin A.states
  <2>1. s + k \in M.initial
    BY <1>3 DEF Shifted
  <2>2. QED
    BY <1>2, <2>1 DEF IsWithinStates
<1>7. PICK x : x = s + k
  OBVIOUS
<1>8. Shifted({s}, k) = {x}
  BY <1>7 DEF Shifted
<1>9. \A d : d \in D /\ d[1] = x <=> d \in M.delta /\ d[1] = x
  <2> TAKE d
  <2>1. d \in A.delta => d[1] # x
    BY <1>4, <1>6, <1>7 DEF IsWithinStates
  <2>2. d \in EntryMoves(A, M, Shifted(S, k)) => d[1] # x
    BY <1>4, <1>6, <1>7 DEF EntryMoves, IsWithinStates
  <2>3. QED
    BY <1>5, <2>1, <2>2
<1>10. ASSUME NEW e \in EntryMoves(A, M, {x})
       PROVE  \E m \in {d \in D : d[1] = x} : e \in A.final \X {m[2]} \X {m[3]}
  <2>1. e \in A.final \X Nat \X Nat /\ <<x, e[2], e[3]>> \in M.delta
    BY <1>10 DEF EntryMoves
  <2>2. PICK m : m = <<x, e[2], e[3]>>
    OBVIOUS
  <2>3. m \in {d \in D : d[1] = x}
    BY <1>9, <2>1, <2>2
  <2>4. e = <<e[1], e[2], e[3]>> /\ e[1] \in A.final /\ m[2] = e[2] /\ m[3] = e[3]
    BY <2>1, <2>2
  <2>5. e \in A.final \X {m[2]} \X {m[3]}
    BY <2>4
  <2>6. QED
    BY <2>3, <2>5
<1>11. ASSUME NEW m \in {d \in D : d[1] = x}, NEW e \in A.final \X {m[2]} \X {m[3]}
       PROVE  e \in EntryMoves(A, M, {x})
  <2>1. m \in M.delta /\ m[1] = x
    BY <1>9
  <2>2. m = <<m[1], m[2], m[3]>> /\ m[2] \in Nat /\ m[3] \in Nat
    BY <1>2, <2>1 DEF IsWithinStates
  <2>3. e \in A.final \X Nat \X Nat /\ e[2] = m[2] /\ e[3] = m[3]
    BY <2>2
  <2>4. <<x, e[2], e[3]>> \in M.delta
    BY <2>1, <2>2, <2>3
  <2>5. QED
    BY <2>3, <2>4 DEF EntryMoves
<1>12. UNION {A.final \X {m[2]} \X {m[3]} : m \in {d \in D : d[1] = x}} = EntryMoves(A, M, {x})
  <2>1. PICK R : R = {d \in D : d[1] = x}
    OBVIOUS
  <2>2. PICK E : E = EntryMoves(A, M, {x})
    OBVIOUS
  <2>3. \A e : e \in E <=> \E m \in R : e \in A.final \X {m[2]} \X {m[3]}
    BY <1>10, <1>11, <2>1, <2>2
  <2>4. \A e : e \in UNION {A.final \X {m[2]} \X {m[3]} : m \in R}
                <=> \E m \in R : e \in A.final \X {m[2]} \X {m[3]}
    OBVIOUS
  <2>5. UNION {A.final \X {m[2]} \X {m[3]} : m \in R} = E
    BY <2>3, <2>4
  <2>6. QED
    BY <2>1, <2>2, <2>5
<1>13. QED
  BY <1>1, <1>7, <1>8, <1>12

(* One more initial state.                                                  *)
Entering(C, x) ==
  [C EXCEPT !.delta = @ \cup UNION {C.final \X {m[2]} \X {m[3]} : m \in {d \in @ : d[1] = x}}]

LEMMA OneMoreEntry ==
  ASSUME NEW A, IsNfa(A), NEW B, IsNfa(B), NEW k, k = num_of_states(A),
         NEW S \in SUBSET B.initial, NEW s \in B.initial, NEW C, C = Connected(A, B, k, S)
  PROVE  /\ Entering(C, s + k) = Connected(A, B, k, S \cup {s})
         /\ FinalsSoFar(A, B, k, S) \cup (IF s \in B.final THEN A.final ELSE {})
              = FinalsSoFar(A, B, k, S \cup {s})
<1>1. PICK D : D = C.delta
  OBVIOUS
<1>2. /\ C = [states |-> C.states, initial |-> C.initial, final |-> C.final, delta |-> C.delta]
      /\ C.states = BothStates(A, B) /\ C.initial = A.initial /\ C.final = A.final
      /\ D = A.delta \cup Renumbered(B.delta, k) \cup EntryMoves(A, Moved(B, k), Shifted(S, k))
  BY <1>1 DEF Connected
<1>3. PICK E : E = UNION {A.final \X {m[2]} \X {m[3]} : m \in {d \in D : d[1] = s + k}}
  OBVIOUS
<1>4. E = EntryMoves(A, Moved(B, k), Shifted({s}, k))
  BY <1>1, <1>3, MovesFromEntry
<1>5. Shifted(S \cup {s}, k) = Shifted(S, k) \cup Shifted({s}, k)
  BY DEF Shifted
<1>6. EntryMoves(A, Moved(B, k), Shifted(S \cup {s}, k))
        = EntryMoves(A, Moved(B, k), Shifted(S, k)) \cup E
  <2>1. PICK M : M = Moved(B, k)
    OBVIOUS
  <2>2. PICK P : P = Shifted(S, k)
    OBVIOUS
  <2>3. PICK R : R = Shifted({s}, k)
    OBVIOUS
  <2>4. EntryMoves(A, M, P \cup R) = EntryMoves(A, M, P) \cup EntryMoves(A, M, R)
    BY EntryMovesOfBoth
  <2>5. QED
    BY <1>4, <1>5, <2>1, <2>2, <2>3, <2>4
<1>7. [C EXCEPT !.delta = D \cup E] = Connected(A, B, k, S \cup {s})
  <2>1. PICK F : F = D \cup E
    OBVIOUS
  <2>2. F = A.delta \cup Renumbered(B.delta, k) \cup EntryMoves(A, Moved(B, k), Shifted(S \cup {s}, k))
    BY <1>2, <1>6, <2>1
  <2>3. C = [states |-> BothStates(A, B), initial |-> A.initial, final |-> A.final, delta |-> D]
    BY <1>1, <1>2
  <2>4. [C EXCEPT !.delta = F]
          = [states |-> BothStates(A, B), initial |-> A.initial, final |-> A.final, delta |-> F]
    BY <2>3, ReplacedMoves
  <2>5. QED
    BY <2>1, <2>2, <2>4 DEF Connected
<1>8. Entering(C, s + k) = [C EXCEPT !.delta = D \cup E]
  BY <1>1, <1>2, <1>3 DEF Entering
<1>9. FinalsSoFar(A, B, k, S) \cup (IF s \in B.final THEN A.final ELSE {})
        = FinalsSoFar(A, B, k, S \cup {s})
  BY DEF FinalsSoFar
<1>10. QED
  BY <1>7, <1>8, <1>9

LEMMA AllEntries ==
  ASSUME NEW A, NEW B, NEW k
  PROVE  [Connected(A, B, k, B.initial) EXCEPT !.final = FinalsSoFar(A, B, k, B.initial)]
           = ConcatenatedObject(A, B, k)
BY DEF Connected, FinalsSoFar, ConcatenatedObject

LEMMA NoEntryYet ==
  ASSUME NEW A, IsNfa(A), NEW B, IsNfa(B), NEW k, k = num_of_states(A)
  PROVE  /\ WithStates(A, 0 .. k + num_of_states(B) - 1, A.delta \cup Renumbered(B.delta, k))
              = Connected(A, B, k, {})
         /\ FinalsSoFar(A, B, k, {}) = Shifted(B.final, k)
<1>1. A = [states |-> A.states, initial |-> A.initial, final |-> A.final, delta |-> A.delta]
  BY DEF IsNfa
<1>2. EntryMoves(A, Moved(B, k), Shifted({}, k)) = {}
  BY EntryMovesOfBoth DEF Shifted
<1>3. PICK st : st = 0 .. k + num_of_states(B) - 1
  OBVIOUS
<1>4. PICK del : del = A.delta \cup Renumbered(B.delta, k)
  OBVIOUS
<1>5. WithStates(A, st, del)
        = [states |-> st, initial |-> A.initial, final |-> A.final, delta |-> del]
  <2>1. PICK X : X = A
    OBVIOUS
  <2>2. PICK st0, ini, fin, del0 :
          st0 = A.states /\ ini = A.initial /\ fin = A.final /\ del0 = A.delta
    OBVIOUS
  <2>3. X = [states |-> st0, initial |-> ini, final |-> fin, delta |-> del0]
    BY <1>1, <2>1, <2>2
  <2>4. WithStates(X, st, del) = [states |-> st, initial |-> ini, final |-> fin, delta |-> del]
    BY <2>3, ReplacedStates
  <2>5. QED
    BY <2>1, <2>2, <2>4
<1>7. Connected(A, B, k, {})
        = [states |-> st, initial |-> A.initial, final |-> A.final, delta |-> del]
  BY <1>2, <1>3, <1>4 DEF Connected, BothStates
<1>8. FinalsSoFar(A, B, k, {}) = Shifted(B.final, k)
  BY DEF FinalsSoFar
<1>9. QED
  BY <1>3, <1>4, <1>5, <1>7, <1>8

------------------------------------------------------------------------------
(* The states of a call of concatenate: the objects, by their names.        *)
Names == {"result", "base"}
ObjectsNamed == objects = [o \in Names |-> objects[o]]

Halfway(A, B) ==
  /\ IsNfa(A) /\ IsNfa(B) /\ this \in Names /\ aut \in Names
  /\ n = num_of_states(A) /\ aut_initial = B.initial /\ aut_final = B.final
  /\ left \subseteq B.initial
  /\ objects[this] = Connected(A, B, n, B.initial \ left)
  /\ new_fin = FinalsSoFar(A, B, n, B.initial \ left)

(* Objects other than the one that is changed keep what they hold.          *)
OnlyChanges(o) == \A x \in Names : x # o => objects'[x] = objects[x]

LEMMA AppendBegins ==
  ASSUME AppendDelta, ObjectsNamed, this \in Names, aut \in Names,
         IsNfa(objects[this]), IsNfa(objects[aut])
  PROVE  /\ \A A, B : A = objects[this] /\ B = objects[aut] => Halfway(A, B)'
         /\ ObjectsNamed' /\ OnlyChanges(this)
<1>1. PICK A : A = objects[this]
  OBVIOUS
<1>2. PICK B : B = objects[aut]
  OBVIOUS
<1>3. PICK k : k = num_of_states(A)
  OBVIOUS
<1>4. /\ n' = k /\ aut_initial' = B.initial /\ aut_final' = B.final /\ left' = B.initial
      /\ new_fin' = Shifted(B.final, k) /\ this' = this /\ aut' = aut
  BY <1>1, <1>2, <1>3 DEF AppendDelta
<1>5. PICK C : C = WithStates(A, 0 .. k + num_of_states(B) - 1, A.delta \cup Renumbered(B.delta, k))
  OBVIOUS
<1>6. objects' = [objects EXCEPT ![this] = C]
  <2>1. objects' = [objects EXCEPT
          ![this].states = 0 .. n' + num_of_states(objects[aut]) - 1,
          ![this].delta = @ \cup Renumbered(objects[aut].delta, n')]
    BY DEF AppendDelta
  <2>2. QED
    BY <1>1, <1>2, <1>4, <1>5, <2>1 DEF ObjectsNamed, WithStates
<1>7. objects'[this] = C /\ ObjectsNamed' /\ OnlyChanges(this)
  BY <1>6 DEF ObjectsNamed, OnlyChanges
<1>8. C = Connected(A, B, k, {}) /\ FinalsSoFar(A, B, k, {}) = Shifted(B.final, k)
  <2>1. IsNfa(A) /\ IsNfa(B)
    BY <1>1, <1>2
  <2>2. QED
    BY <1>3, <1>5, <2>1, NoEntryYet
<1>9. B.initial \ left' = {}
  BY <1>4
<1>10. Halfway(A, B)'
  BY <1>1, <1>2, <1>3, <1>4, <1>7, <1>8, <1>9 DEF Halfway
<1>11. QED
  BY <1>1, <1>2, <1>7, <1>10

LEMMA ConnectKeeps ==
  ASSUME ObjectsNamed, NEW A, NEW B, Halfway(A, B), NEW ini \in left, Connect(ini)
  PROVE  Halfway(A, B)' /\ ObjectsNamed' /\ OnlyChanges(this)
<1>1. PICK C : C = objects[this]
  OBVIOUS
<1>2. PICK k : k = n
  OBVIOUS
<1>3. PICK S : S = B.initial \ left
  OBVIOUS
<1>4. /\ IsNfa(A) /\ IsNfa(B) /\ this \in Names /\ aut \in Names /\ k = num_of_states(A)
      /\ aut_initial = B.initial /\ aut_final = B.final /\ left \subseteq B.initial
      /\ S \in SUBSET B.initial /\ ini \in B.initial
      /\ C = Connected(A, B, k, S) /\ new_fin = FinalsSoFar(A, B, k, S)
  BY <1>1, <1>2, <1>3 DEF Halfway
<1>5. C.final = A.final
  BY <1>4 DEF Connected
<1>6. PICK D : D = Entering(C, ini + k)
  OBVIOUS
<1>7. /\ D = Connected(A, B, k, S \cup {ini})
      /\ FinalsSoFar(A, B, k, S) \cup (IF ini \in B.final THEN A.final ELSE {})
           = FinalsSoFar(A, B, k, S \cup {ini})
  BY <1>4, <1>6, OneMoreEntry
<1>8. objects' = [objects EXCEPT ![this] = D]
  BY <1>1, <1>2, <1>6 DEF Connect, Entering
<1>9. objects'[this] = D /\ ObjectsNamed' /\ OnlyChanges(this)
  BY <1>4, <1>8 DEF ObjectsNamed, OnlyChanges
<1>10. /\ n' = k /\ aut_initial' = B.initial /\ aut_final' = B.final /\ left' = left \ {ini}
       /\ this' = this /\ aut' = aut
       /\ new_fin' = FinalsSoFar(A, B, k, S) \cup (IF ini \in B.final THEN A.final ELSE {})
  BY <1>1, <1>2, <1>4, <1>5 DEF Connect
<1>11. B.initial \ left' = S \cup {ini}
  BY <1>3, <1>4, <1>10
<1>12. Halfway(A, B)'
  BY <1>4, <1>7, <1>9, <1>10, <1>11 DEF Halfway
<1>13. QED
  BY <1>9, <1>12

LEMMA ReturnAnswers ==
  ASSUME ObjectsNamed, NEW A, NEW B, Halfway(A, B), Return, EPSILON \in Nat
  PROVE  /\ IsNfa(objects'[this]) /\ IsProductOf(objects'[this], A, B)
         /\ ObjectsNamed' /\ OnlyChanges(this)
<1>1. PICK C : C = objects[this]
  OBVIOUS
<1>2. PICK k : k = n
  OBVIOUS
<1>3. left = {} /\ objects' = [objects EXCEPT ![this] = [C EXCEPT !.final = new_fin]]
  BY <1>1 DEF Return
<1>4. B.initial \ left = B.initial
  BY <1>3
<1>5. /\ IsNfa(A) /\ IsNfa(B) /\ this \in Names /\ k = num_of_states(A)
      /\ C = Connected(A, B, k, B.initial) /\ new_fin = FinalsSoFar(A, B, k, B.initial)
  BY <1>1, <1>2, <1>4 DEF Halfway
<1>6. PICK D : D = ConcatenatedObject(A, B, k)
  OBVIOUS
<1>7. [C EXCEPT !.final = new_fin] = D
  BY <1>5, <1>6, AllEntries
<1>8. objects'[this] = D /\ ObjectsNamed' /\ OnlyChanges(this)
  BY <1>3, <1>5, <1>7 DEF ObjectsNamed, OnlyChanges
<1>9. IsNfa(D) /\ IsProductOf(D, A, B)
  BY <1>5, <1>6, ConcatenatedIsProduct
<1>10. QED
  BY <1>8, <1>9

------------------------------------------------------------------------------
(* remove_epsilon: an entry has no state that is not silently reached, and  *)
(* a state that has moves is in its own, with the targets of its epsilons.  *)
Targets(A, q) == {m[3] : m \in {k \in A.delta : k[1] = q /\ k[2] = EPSILON}}
HasMoves(A, q) == \E m \in A.delta : m[1] = q

EntriesRight(A, E) ==
  /\ E \in [A.states -> SUBSET A.states]
  /\ \A q \in A.states : E[q] \subseteq SilentClosures(A)[q]
  /\ \A q \in A.states : HasMoves(A, q) => q \in E[q] /\ Targets(A, q) \subseteq E[q]

(* An entry that the entries of the targets add nothing to.                 *)
Settled(A, E, q) == \A t \in Targets(A, q) : E[t] \subseteq E[q]

LEMMA SilentTargets ==
  ASSUME NEW A, IsNfa(A), NEW q \in A.states
  PROVE  /\ Targets(A, q) \subseteq A.states
         /\ \A t : t \in Targets(A, q) <=> <<q, EPSILON, t>> \in A.delta
<1>1. \A m \in A.delta : m = <<m[1], m[2], m[3]>> /\ m[3] \in A.states
  BY NfaFacts DEF IsWithinStates
<1>2. ASSUME NEW t \in Targets(A, q) PROVE <<q, EPSILON, t>> \in A.delta /\ t \in A.states
  <2>1. PICK m \in A.delta : m[1] = q /\ m[2] = EPSILON /\ t = m[3]
    BY DEF Targets
  <2>2. QED
    BY <1>1, <2>1
<1>3. ASSUME NEW t, <<q, EPSILON, t>> \in A.delta PROVE t \in Targets(A, q)
  <2>1. PICK m : m = <<q, EPSILON, t>>
    OBVIOUS
  <2>2. m \in A.delta /\ m[1] = q /\ m[2] = EPSILON /\ m[3] = t
    BY <1>3, <2>1
  <2>3. QED
    BY <2>2 DEF Targets
<1>4. QED
  BY <1>2, <1>3

LEMMA TargetsInClosure ==
  ASSUME NEW A, IsNfa(A), NEW q \in A.states, NEW t \in Targets(A, q)
  PROVE  t \in A.states /\ t \in SilentClosures(A)[q]
         /\ SilentClosures(A)[t] \subseteq SilentClosures(A)[q]
<1>1. t \in A.states /\ <<q, EPSILON, t>> \in A.delta
  BY SilentTargets
<1>2. t \in SilentClosures(A)[q]
  BY <1>1, ClosureOfState
<1>3. QED
  BY <1>1, <1>2, ClosureIsTransitive

(* The first entries.                                                       *)
LEMMA FirstEntries ==
  ASSUME NEW A, IsNfa(A), NEW E,
         E = [q \in A.states |-> IF HasMoves(A, q) THEN {q} \cup Targets(A, q) ELSE {}]
  PROVE  EntriesRight(A, E)
<1>1. ASSUME NEW q \in A.states
      PROVE  /\ E[q] \in SUBSET A.states /\ E[q] \subseteq SilentClosures(A)[q]
             /\ HasMoves(A, q) => q \in E[q] /\ Targets(A, q) \subseteq E[q]
  <2>1. E[q] = IF HasMoves(A, q) THEN {q} \cup Targets(A, q) ELSE {}
    OBVIOUS
  <2>2. Targets(A, q) \subseteq A.states /\ Targets(A, q) \subseteq SilentClosures(A)[q]
    BY TargetsInClosure
  <2>3. q \in SilentClosures(A)[q]
    BY ClosureOfState
  <2>4. QED
    BY <2>1, <2>2, <2>3
<1>2. E \in [A.states -> SUBSET A.states]
  <2>1. DOMAIN E = A.states /\ E = [q \in A.states |-> E[q]]
    OBVIOUS
  <2>2. QED
    BY <1>1, <2>1
<1>3. QED
  BY <1>1, <1>2 DEF EntriesRight

(* An entry takes the entries of its targets.                               *)
LEMMA EntryTakes ==
  ASSUME NEW A, IsNfa(A), NEW E, EntriesRight(A, E), NEW c \in A.states, NEW F,
         F = [E EXCEPT ![c] = @ \cup UNION {E[t] : t \in Targets(A, c)}]
  PROVE  /\ EntriesRight(A, F)
         /\ F = E => Settled(A, E, c)
<1>1. /\ E \in [A.states -> SUBSET A.states]
      /\ \A q \in A.states : E[q] \subseteq SilentClosures(A)[q]
      /\ \A q \in A.states : HasMoves(A, q) => q \in E[q] /\ Targets(A, q) \subseteq E[q]
  BY DEF EntriesRight
<1>2. PICK U : U = UNION {E[t] : t \in Targets(A, c)}
  OBVIOUS
<1>3. \A x : x \in U <=> \E t \in Targets(A, c) : x \in E[t]
  BY <1>2
<1>4. U \subseteq A.states /\ U \subseteq SilentClosures(A)[c]
  <2> SUFFICES ASSUME NEW x \in U PROVE x \in A.states /\ x \in SilentClosures(A)[c]
    OBVIOUS
  <2>1. PICK t \in Targets(A, c) : x \in E[t]
    BY <1>3
  <2>2. t \in A.states /\ SilentClosures(A)[t] \subseteq SilentClosures(A)[c]
    BY TargetsInClosure
  <2>3. QED
    BY <1>1, <2>1, <2>2
<1>5. F = [E EXCEPT ![c] = E[c] \cup U]
  BY <1>2
<1>6. /\ F \in [A.states -> SUBSET A.states]
      /\ \A q \in A.states : F[q] = IF q = c THEN E[c] \cup U ELSE E[q]
  <2>1. PICK Q : Q = A.states
    OBVIOUS
  <2>2. PICK V : V = E[c] \cup U
    OBVIOUS
  <2>3. PICK W : W = SUBSET Q
    OBVIOUS
  <2>4. E \in [Q -> W] /\ c \in Q /\ V \in W /\ F = [E EXCEPT ![c] = V]
    BY <1>1, <1>4, <1>5, <2>1, <2>2, <2>3
  <2>5. F \in [Q -> W] /\ \A q \in Q : F[q] = IF q = c THEN V ELSE E[q]
    BY ONLY <2>4
  <2>6. QED
    BY <2>1, <2>2, <2>3, <2>5
<1>7. EntriesRight(A, F)
  <2>1. ASSUME NEW q \in A.states PROVE F[q] \subseteq SilentClosures(A)[q] /\ E[q] \subseteq F[q]
    BY <1>1, <1>4, <1>6
  <2>2. QED
    BY <1>1, <1>6, <2>1 DEF EntriesRight
<1>8. ASSUME F = E PROVE Settled(A, E, c)
  <2>1. E[c] = E[c] \cup U
    BY <1>6, <1>8
  <2>2. QED
    BY <1>3, <2>1 DEF Settled
<1>9. QED
  BY <1>7, <1>8

(* When no entry takes anything any more, they are the closures.            *)
LEMMA SettledEntries ==
  ASSUME NEW A, IsNfa(A), NEW E, EntriesRight(A, E), \A q \in A.states : Settled(A, E, q),
         NEW q \in A.states, NEW r \in SilentClosures(A)[q]
  PROVE  r \in A.states /\ (r = q \/ r \in E[q])
<1>1. r \in A.states
  BY ClosureOfState
<1>2. PICK K : K = {x \in A.states : x # r /\ r \notin E[x]}
  OBVIOUS
<1>3. ASSUME NEW p \in A.states, NEW t \in A.states, p \in K, <<p, EPSILON, t>> \in A.delta
      PROVE  t \in K
  <2>1. t \in Targets(A, p)
    BY <1>3, SilentTargets
  <2>2. HasMoves(A, p)
    <3>1. PICK m : m = <<p, EPSILON, t>>
      OBVIOUS
    <3>2. m \in A.delta /\ m[1] = p
      BY <1>3, <3>1
    <3>3. QED
      BY <3>2 DEF HasMoves
  <2>3. t \in E[p] /\ E[t] \subseteq E[p]
    BY <2>1, <2>2 DEF EntriesRight, Settled
  <2>4. QED
    BY <1>2, <1>3, <2>3
<1>4. ASSUME q \in K PROVE SilentClosures(A)[q] \subseteq K
  <2>1. K \in SUBSET A.states
    BY <1>2
  <2>2. QED
    BY <1>3, <1>4, <2>1, ClosureOfState
<1>5. q \notin K
  BY <1>2, <1>4
<1>6. QED
  BY <1>1, <1>2, <1>5

(* The automaton that is rebuilt from the closures.                         *)
RebuiltMoves(A, E) ==
  {<<p[1], p[2][2], p[2][3]>> :
     p \in {c \in A.states \X A.delta : c[2][1] \in E[c[1]] /\ c[2][2] # EPSILON}}
RebuiltFinals(A, E) == A.final \cup {q \in A.states : E[q] \cap A.final # {}}

LEMMA RebuiltIsWithoutSilence ==
  ASSUME NEW A, IsNfa(A), NEW E, EntriesRight(A, E), \A q \in A.states : Settled(A, E, q), NEW C,
         C = [states |-> A.states, initial |-> A.initial,
              final |-> RebuiltFinals(A, E), delta |-> RebuiltMoves(A, E)]
  PROVE  /\ IsNfa(C) /\ IsWithoutSilence(A, C)
         /\ \A m \in C.delta : m[2] # EPSILON
<1>1. /\ \A m \in A.delta : /\ m = <<m[1], m[2], m[3]>> /\ m[1] \in A.states /\ m[2] \in Nat
                            /\ m[3] \in A.states
      /\ A.final \subseteq A.states /\ A.initial \subseteq A.states
  BY NfaFacts DEF IsWithinStates
<1>2. /\ E \in [A.states -> SUBSET A.states]
      /\ \A q \in A.states : E[q] \subseteq SilentClosures(A)[q]
      /\ \A q \in A.states : HasMoves(A, q) => q \in E[q]
  BY DEF EntriesRight
<1>3. \A q \in A.states : \A r \in SilentClosures(A)[q] : r \in A.states /\ (r = q \/ r \in E[q])
  BY SettledEntries
<1>4. C.delta = RebuiltMoves(A, E) /\ C.final = RebuiltFinals(A, E) /\ C.initial = A.initial
      /\ C.states = A.states
  OBVIOUS
<1>5. ASSUME NEW x \in RebuiltMoves(A, E)
      PROVE  \E p \in A.states : \E m \in A.delta :
               m[1] \in E[p] /\ m[2] # EPSILON /\ x = <<p, m[2], m[3]>>
  BY DEF RebuiltMoves
<1>6. ASSUME NEW p \in A.states, NEW m \in A.delta, m[1] \in E[p], m[2] # EPSILON
      PROVE  <<p, m[2], m[3]>> \in RebuiltMoves(A, E)
  <2>1. PICK c : c = <<p, m>>
    OBVIOUS
  <2>2. c \in A.states \X A.delta /\ c[1] = p /\ c[2] = m
    BY <2>1
  <2>3. c \in {d \in A.states \X A.delta : d[2][1] \in E[d[1]] /\ d[2][2] # EPSILON}
    BY <1>6, <2>2
  <2>4. <<c[1], c[2][2], c[2][3]>> \in RebuiltMoves(A, E)
    BY <2>3 DEF RebuiltMoves
  <2>5. QED
    BY <2>2, <2>4
<1>7. ASSUME NEW x \in C.delta
      PROVE  x \in A.states \X Nat \X A.states /\ x[2] # EPSILON
  <2>1. PICK p \in A.states, m \in A.delta :
          m[1] \in E[p] /\ m[2] # EPSILON /\ x = <<p, m[2], m[3]>>
    BY <1>4, <1>5
  <2>2. QED
    BY <1>1, <2>1
<1>8. ASSUME NEW p \in A.states, NEW q \in A.states, NEW a \in Nat
      PROVE  <<p, a, q>> \in C.delta
               <=> a # EPSILON /\ \E r \in SilentClosures(A)[p] : <<r, a, q>> \in A.delta
  <2>1. ASSUME <<p, a, q>> \in C.delta
        PROVE  a # EPSILON /\ \E r \in SilentClosures(A)[p] : <<r, a, q>> \in A.delta
    <3>1. PICK b \in A.states, m \in A.delta :
            m[1] \in E[b] /\ m[2] # EPSILON /\ <<p, a, q>> = <<b, m[2], m[3]>>
      BY <1>4, <1>5, <2>1
    <3>2. b = p /\ a = m[2] /\ q = m[3]
      BY <3>1
    <3>3. m[1] \in SilentClosures(A)[p] /\ <<m[1], a, q>> \in A.delta
      BY <1>1, <1>2, <3>1, <3>2
    <3>4. QED
      BY <3>1, <3>2, <3>3
  <2>2. ASSUME a # EPSILON, NEW r \in SilentClosures(A)[p], <<r, a, q>> \in A.delta
        PROVE  <<p, a, q>> \in C.delta
    <3>1. PICK m : m = <<r, a, q>>
      OBVIOUS
    <3>2. m \in A.delta /\ m[1] = r /\ m[2] = a /\ m[3] = q
      BY <2>2, <3>1
    <3>3. r \in E[p]
      <4>1. r = p \/ r \in E[p]
        BY <1>3
      <4>2. ASSUME r = p PROVE HasMoves(A, p)
        BY <3>2, <4>2 DEF HasMoves
      <4>3. QED
        BY <1>2, <4>1, <4>2
    <3>4. QED
      BY <1>4, <1>6, <2>2, <3>2, <3>3
  <2>3. QED
    BY <2>1, <2>2
<1>9. C.final = {q \in A.states : SilentClosures(A)[q] \cap A.final # {}}
  <2>1. ASSUME NEW q \in A.states
        PROVE  q \in RebuiltFinals(A, E) <=> SilentClosures(A)[q] \cap A.final # {}
    <3>1. q \in SilentClosures(A)[q]
      BY ClosureOfState
    <3>2. QED
      BY <1>2, <1>3, <3>1 DEF RebuiltFinals
  <2>2. RebuiltFinals(A, E) \subseteq A.states
    BY <1>1 DEF RebuiltFinals
  <2>3. QED
    BY <1>4, <2>1, <2>2
<1>10. IsWithoutSilence(A, C)
  BY <1>4, <1>7, <1>8, <1>9 DEF IsWithoutSilence
<1>11. IsNfa(C)
  <2>1. C.final \subseteq A.states /\ C.delta \subseteq A.states \X Nat \X A.states
    BY <1>7, <1>9
  <2>2. IsFiniteSet(A.states) /\ A.states = 0 .. num_of_states(A) - 1
    BY NfaFacts
  <2>3. num_of_states(C) = num_of_states(A)
    BY <1>4 DEF num_of_states
  <2>4. C = [states |-> C.states, initial |-> C.initial, final |-> C.final, delta |-> C.delta]
    BY <1>4
  <2>5. IsAutomaton(C, Nat)
    BY <1>1, <1>4, <2>1 DEF IsAutomaton
  <2>6. QED
    BY <1>4, <2>2, <2>3, <2>4, <2>5 DEF IsNfa
<1>12. QED
  BY <1>7, <1>10, <1>11

------------------------------------------------------------------------------
(* What the result of a job has to spell.                                   *)
Meant(k, X) ==
  /\ k.op \in {"concatenate", "concatenate_eps"} => IsProductOf(X, k.lhs, k.rhs)
  /\ k.op = "concatenate itself" => IsProductOf(X, k.lhs, k.lhs)
  /\ k.op = "power" => IsPowerOf(X, k.lhs, k.power)
  /\ k.op \in {"remove_epsilon", "given", "unite itself"} => IsSameAs(X, k.lhs)
  /\ k.op = "unite" => IsUnionOf(X, k.lhs, k.rhs)

LEMMA MeantBySame ==
  ASSUME NEW k, NEW X, NEW Y, Meant(k, X), IsSameAs(Y, X)
  PROVE  Meant(k, Y)
<1>1. \A w : IsWord(w) => \A j, l \in Places(w) : Spells(Y, w, j, l) <=> Spells(X, w, j, l)
  BY DEF IsSameAs
<1>2. \A A, B : IsProductOf(X, A, B) => IsProductOf(Y, A, B)
  BY <1>1 DEF IsProductOf
<1>3. \A A, N : IsPowerOf(X, A, N) => IsPowerOf(Y, A, N)
  BY <1>1 DEF IsPowerOf
<1>4. \A A : IsSameAs(X, A) => IsSameAs(Y, A)
  BY <1>1 DEF IsSameAs
<1>5. \A A, B : IsUnionOf(X, A, B) => IsUnionOf(Y, A, B)
  BY <1>1 DEF IsUnionOf
<1>6. QED
  BY <1>2, <1>3, <1>4, <1>5 DEF Meant

(* Operations after which no epsilon is left.                               *)
SilentOperations == {"concatenate_eps", "remove_epsilon"}

(* An automaton that spells the power b of A.                               *)
HoldsPower(X, A, b) == IsNfa(X) /\ IsPowerOf(X, A, b)

(* A call of concatenate at work on an object, whose argument is another    *)
(* or the same.                                                             *)
Calling(A, B) ==
  \/ at = "append" /\ this \in Names /\ aut \in Names /\ objects[this] = A /\ objects[aut] = B
     /\ IsNfa(A) /\ IsNfa(B)
  \/ at = "connect" /\ Halfway(A, B)

------------------------------------------------------------------------------
(* The stages of an operation.                                              *)
Second(k) == IF k.op = "concatenate itself" THEN k.lhs ELSE k.rhs

InConcatenation ==
  /\ job.op \in {"concatenate", "concatenate itself"}
  /\ this = "result" /\ return_to = "done" /\ Calling(job.lhs, Second(job))

(* The result has the power r of the base and the base the power b, which   *)
(* is what is left of the power that was asked for.                         *)
PowerBefore(r, b) ==
  /\ at = "multiply" /\ r + b * power = job.power
  /\ HoldsPower(objects["result"], job.lhs, r) /\ HoldsPower(objects["base"], job.lhs, b)

MultiplyingResult(r, b) ==
  /\ power % 2 = 1 /\ r + b * power = job.power
  /\ this = "result" /\ aut = "base" /\ return_to = "square"
  /\ \E X, Y : /\ HoldsPower(X, job.lhs, r) /\ HoldsPower(Y, job.lhs, b)
               /\ objects["base"] = Y /\ Calling(X, Y)

PowerBetween(r, b) ==
  /\ at = "square" /\ r + b * (2 * (power \div 2)) = job.power
  /\ HoldsPower(objects["result"], job.lhs, r) /\ HoldsPower(objects["base"], job.lhs, b)

SquaringBase(r, b) ==
  /\ r + (2 * b) * power = job.power
  /\ this = "base" /\ aut = "base" /\ return_to = "multiply"
  /\ HoldsPower(objects["result"], job.lhs, r)
  /\ \E X : HoldsPower(X, job.lhs, b) /\ Calling(X, X)

InPower ==
  /\ job.op = "power" /\ power \in Nat
  /\ \E r, b \in Nat : \/ PowerBefore(r, b) \/ MultiplyingResult(r, b)
                       \/ PowerBetween(r, b) \/ SquaringBase(r, b)

(* remove_epsilon: in a pass that has changed nothing yet, the entries that *)
(* have been looked at are settled.                                         *)
ClosingRight(A) ==
  /\ closing \in Nat /\ changed \in BOOLEAN /\ EntriesRight(A, epsilon_closure)
  /\ ~ changed => \A q \in A.states : q < closing => Settled(A, epsilon_closure, q)

InRemoval ==
  /\ job.op \in SilentOperations
  /\ IsNfa(nfa) /\ Meant(job, nfa)
  /\ \/ at = "remove epsilon"
     \/ at = "close" /\ ClosingRight(nfa)
     \/ /\ at = "rebuild" /\ EntriesRight(nfa, epsilon_closure)
        /\ \A q \in nfa.states : Settled(nfa, epsilon_closure, q)

AtEnd ==
  /\ at = "done" /\ IsNfa(nfa) /\ Meant(job, nfa)
  /\ job.op \in SilentOperations => \A m \in nfa.delta : m[2] # EPSILON

CombineInv ==
  /\ job \in Jobs /\ ObjectsNamed
  /\ InConcatenation \/ InPower \/ InRemoval \/ AtEnd

------------------------------------------------------------------------------
LEMMA JobFacts ==
  ASSUME job \in Jobs
  PROVE  /\ job.op \in Operations /\ job.power \in Nat /\ IsNfa(job.lhs) /\ IsNfa(job.rhs)
         /\ job.op = "concatenate_eps" => epsilon = EPSILON
         /\ EPSILON \in Nat
BY JobsAssumption

LEMMA SameAsItself ==
  ASSUME NEW A
  PROVE  IsSameAs(A, A)
BY DEF IsSameAs

LEMMA NoAutomatonIsProduct ==
  ASSUME NEW A, NEW B, Trivial(A) \/ Trivial(B)
  PROVE  IsNfa(NoAutomaton) /\ IsProductOf(NoAutomaton, A, B)
<1>1. Trivial(NoAutomaton)
  BY DEF Trivial, NoAutomaton
<1>2. IsProductOf(NoAutomaton, A, B)
  <2> SUFFICES ASSUME NEW w, IsWord(w), NEW j \in Places(w), NEW l \in Places(w)
               PROVE  Spells(NoAutomaton, w, j, l) <=> SpellsBoth(A, B, w, j, l)
    BY DEF IsProductOf
  <2>1. ~ Spells(NoAutomaton, w, j, l)
    BY <1>1, TrivialSpellsNothing
  <2>2. \A k \in Places(w) : ~ (Spells(A, w, j, k) /\ Spells(B, w, k, l))
    BY TrivialSpellsNothing
  <2>3. QED
    BY <2>1, <2>2 DEF SpellsBoth
<1>3. IsNfa(NoAutomaton)
  <2>1. Cardinality({}) = 0 /\ IsFiniteSet({})
    BY FS_EmptySet
  <2>2. num_of_states(NoAutomaton) = 0 /\ NoAutomaton.states = {}
    BY <2>1 DEF num_of_states, NoAutomaton
  <2>3. 0 .. 0 - 1 = {}
    OBVIOUS
  <2>4. IsAutomaton(NoAutomaton, Nat)
    BY DEF IsAutomaton, NoAutomaton
  <2>5. NoAutomaton = [states |-> NoAutomaton.states, initial |-> NoAutomaton.initial,
                       final |-> NoAutomaton.final, delta |-> NoAutomaton.delta]
    BY DEF NoAutomaton
  <2>6. QED
    BY <2>1, <2>2, <2>3, <2>4, <2>5 DEF IsNfa
<1>4. QED
  BY <1>2, <1>3

LEMMA CombineBegins ==
  ASSUME CombineInit
  PROVE  CombineInv
<1>1. /\ job \in Jobs /\ this = "result" /\ return_to = "done" /\ power = job.power
      /\ aut = (IF job.op = "concatenate itself" THEN "result" ELSE "base") /\ at = Begin
  BY DEF CombineInit
<1>2. /\ job.op \in Operations /\ job.power \in Nat /\ IsNfa(job.lhs) /\ IsNfa(job.rhs)
      /\ job.op = "concatenate_eps" => epsilon = EPSILON
      /\ EPSILON \in Nat
  BY <1>1, JobFacts
<1>3. PICK R : R = CASE job.op = "power" -> EmptyString
                     [] job.op = "concatenate_eps" ->
                          IF Trivial(job.lhs) \/ Trivial(job.rhs) THEN NoAutomaton
                          ELSE JoinedByEpsilon(job.lhs, job.rhs)
                     [] job.op = "unite" -> United(job.lhs, job.rhs)
                     [] OTHER -> job.lhs
  OBVIOUS
<1>4. PICK B : B = IF job.op = "power" THEN job.lhs ELSE job.rhs
  OBVIOUS
<1>5. objects = [result |-> R, base |-> B]
  BY <1>3, <1>4 DEF CombineInit
<1>6. ObjectsNamed /\ nfa = R /\ objects["result"] = R /\ objects["base"] = B
  BY <1>5 DEF ObjectsNamed, Names, nfa
<1>7. CASE job.op = "concatenate"
  <2>1. R = job.lhs /\ B = job.rhs /\ at = "append" /\ aut = "base" /\ Second(job) = job.rhs
    BY <1>1, <1>3, <1>4, <1>7 DEF Begin, Second
  <2>2. Calling(job.lhs, Second(job))
    BY <1>1, <1>2, <1>6, <2>1 DEF Calling, Names
  <2>3. QED
    BY <1>1, <1>6, <1>7, <2>2 DEF CombineInv, InConcatenation
<1>8. CASE job.op = "concatenate itself"
  <2>1. R = job.lhs /\ at = "append" /\ aut = "result" /\ Second(job) = job.lhs
    BY <1>1, <1>3, <1>8 DEF Begin, Second
  <2>2. Calling(job.lhs, Second(job))
    BY <1>1, <1>2, <1>6, <2>1 DEF Calling, Names
  <2>3. QED
    BY <1>1, <1>6, <1>8, <2>2 DEF CombineInv, InConcatenation
<1>9. CASE job.op = "power"
  <2>1. R = EmptyString /\ B = job.lhs /\ at = (IF job.power = 0 THEN "done" ELSE "multiply")
    BY <1>1, <1>3, <1>4, <1>9 DEF Begin
  <2>2. HoldsPower(R, job.lhs, 0) /\ HoldsPower(B, job.lhs, 1)
    BY <1>2, <2>1, EmptyStringIsPowerZero, IsPowerOne DEF HoldsPower
  <2>3. CASE job.power = 0
    <3>1. IsNfa(R) /\ IsPowerOf(R, job.lhs, job.power)
      BY <2>2, <2>3 DEF HoldsPower
    <3>2. Meant(job, nfa)
      BY <1>6, <1>9, <3>1 DEF Meant
    <3>3. AtEnd
      BY <1>6, <1>9, <2>1, <2>3, <3>1, <3>2 DEF AtEnd, SilentOperations
    <3>4. QED
      BY <1>1, <1>6, <3>3 DEF CombineInv
  <2>4. CASE job.power # 0
    <3>1. 0 + 1 * power = job.power
      <4>1. PICK N : N = job.power
        OBVIOUS
      <4>2. N \in Nat /\ power = N
        BY <1>1, <1>2, <4>1
      <4>3. 0 + 1 * N = N
        BY <4>2
      <4>4. QED
        BY <4>1, <4>2, <4>3
    <3>2. PowerBefore(0, 1)
      BY <1>6, <2>1, <2>2, <2>4, <3>1 DEF PowerBefore
    <3>3. InPower
      BY <1>1, <1>2, <1>9, <3>2 DEF InPower
    <3>4. QED
      BY <1>1, <1>6, <3>3 DEF CombineInv
  <2>5. QED
    BY <2>3, <2>4
<1>10. CASE job.op = "concatenate_eps"
  <2>1. CASE Trivial(job.lhs) \/ Trivial(job.rhs)
    <3>1. R = NoAutomaton /\ at = "done"
      BY <1>1, <1>3, <1>10, <2>1 DEF Begin
    <3>2. IsNfa(R) /\ IsProductOf(R, job.lhs, job.rhs)
      BY <2>1, <3>1, NoAutomatonIsProduct
    <3>3. Meant(job, nfa)
      BY <1>6, <1>10, <3>2 DEF Meant
    <3>4. R.delta = {}
      BY <3>1 DEF NoAutomaton
    <3>5. AtEnd
      BY <1>6, <3>1, <3>2, <3>3, <3>4 DEF AtEnd
    <3>6. QED
      BY <1>1, <1>6, <3>5 DEF CombineInv
  <2>2. CASE ~ (Trivial(job.lhs) \/ Trivial(job.rhs))
    <3>1. R = JoinedByEpsilon(job.lhs, job.rhs) /\ at = "remove epsilon"
      BY <1>1, <1>3, <1>10, <2>2 DEF Begin
    <3>2. IsNfa(R) /\ IsProductOf(R, job.lhs, job.rhs)
      BY <1>2, <1>10, <3>1, JoinedIsProduct
    <3>3. Meant(job, nfa)
      BY <1>6, <1>10, <3>2 DEF Meant
    <3>4. InRemoval
      BY <1>6, <1>10, <3>1, <3>2, <3>3 DEF InRemoval, SilentOperations
    <3>5. QED
      BY <1>1, <1>6, <3>4 DEF CombineInv
  <2>3. QED
    BY <2>1, <2>2
<1>11. CASE job.op = "remove_epsilon"
  <2>1. R = job.lhs /\ at = "remove epsilon"
    BY <1>1, <1>3, <1>11 DEF Begin
  <2>2. Meant(job, nfa) /\ IsNfa(nfa)
    BY <1>2, <1>6, <1>11, <2>1, SameAsItself DEF Meant
  <2>3. InRemoval
    BY <1>11, <2>1, <2>2 DEF InRemoval, SilentOperations
  <2>4. QED
    BY <1>1, <1>6, <2>3 DEF CombineInv
<1>12. CASE job.op = "unite"
  <2>1. R = United(job.lhs, job.rhs) /\ at = "done"
    BY <1>1, <1>3, <1>12 DEF Begin
  <2>2. IsNfa(R) /\ IsUnionOf(R, job.lhs, job.rhs)
    BY <1>2, <2>1, UnitedIsUnion
  <2>3. Meant(job, nfa)
    BY <1>6, <1>12, <2>2 DEF Meant
  <2>4. AtEnd
    BY <1>6, <1>12, <2>1, <2>2, <2>3 DEF AtEnd, SilentOperations
  <2>5. QED
    BY <1>1, <1>6, <2>4 DEF CombineInv
<1>13. CASE job.op \in {"unite itself", "given"}
  <2>1. R = job.lhs /\ at = "done"
    BY <1>1, <1>3, <1>13 DEF Begin
  <2>2. Meant(job, nfa) /\ IsNfa(nfa)
    BY <1>2, <1>6, <1>13, <2>1, SameAsItself DEF Meant
  <2>3. AtEnd
    BY <1>13, <2>1, <2>2 DEF AtEnd, SilentOperations
  <2>4. QED
    BY <1>1, <1>6, <2>3 DEF CombineInv
<1>14. QED
  BY <1>2, <1>7, <1>8, <1>9, <1>10, <1>11, <1>12, <1>13 DEF Operations

------------------------------------------------------------------------------
(* A step of a call of concatenate.                                         *)
CallerKept ==
  /\ job' = job /\ this' = this /\ aut' = aut /\ return_to' = return_to /\ power' = power

CallStep == AppendDelta \/ \E ini \in left : Connect(ini)

LEMMA CallGoesOn ==
  ASSUME ObjectsNamed, NEW A, NEW B, Calling(A, B), CallStep
  PROVE  Calling(A, B)' /\ ObjectsNamed' /\ OnlyChanges(this) /\ CallerKept
<1>1. CASE AppendDelta
  <2>1. /\ this \in Names /\ aut \in Names /\ objects[this] = A /\ objects[aut] = B
        /\ IsNfa(A) /\ IsNfa(B)
    BY <1>1 DEF Calling, AppendDelta
  <2>2. IsNfa(objects[this]) /\ IsNfa(objects[aut])
    BY <2>1
  <2>3. Halfway(A, B)' /\ ObjectsNamed' /\ OnlyChanges(this)
    BY <1>1, <2>1, <2>2, AppendBegins
  <2>4. at' = "connect" /\ CallerKept
    BY <1>1 DEF AppendDelta, CallerKept
  <2>5. QED
    BY <2>3, <2>4 DEF Calling
<1>2. CASE \E ini \in left : Connect(ini)
  <2>1. PICK ini \in left : Connect(ini)
    BY <1>2
  <2>2. at = "connect" /\ at' = "connect" /\ CallerKept
    BY <2>1 DEF Connect, CallerKept
  <2>3. Halfway(A, B)
    BY <2>2 DEF Calling
  <2>4. Halfway(A, B)' /\ ObjectsNamed' /\ OnlyChanges(this)
    BY <2>1, <2>3, ConnectKeeps
  <2>5. QED
    BY <2>2, <2>4 DEF Calling
<1>3. QED
  BY <1>1, <1>2 DEF CallStep

LEMMA CallReturns ==
  ASSUME ObjectsNamed, NEW A, NEW B, Calling(A, B), Return, EPSILON \in Nat
  PROVE  /\ IsNfa(objects'[this]) /\ IsProductOf(objects'[this], A, B)
         /\ ObjectsNamed' /\ OnlyChanges(this) /\ CallerKept /\ at' = return_to
<1>1. at = "connect" /\ at' = return_to /\ CallerKept
  BY DEF Return, CallerKept, callvars
<1>2. Halfway(A, B)
  BY <1>1 DEF Calling
<1>3. QED
  BY <1>1, <1>2, ReturnAnswers

LEMMA ConcatenationKeeps ==
  ASSUME CombineInv, InConcatenation, CallStep \/ Return
  PROVE  CombineInv'
<1>1. /\ job \in Jobs /\ ObjectsNamed /\ EPSILON \in Nat
  BY JobFacts DEF CombineInv
<1>2. PICK k : k = job
  OBVIOUS
<1>3. /\ k.op \in {"concatenate", "concatenate itself"} /\ this = "result" /\ return_to = "done"
      /\ Calling(k.lhs, Second(k))
  BY <1>2 DEF InConcatenation
<1>4. CASE CallStep
  <2>1. Calling(k.lhs, Second(k))' /\ ObjectsNamed' /\ CallerKept
    BY <1>1, <1>3, <1>4, CallGoesOn
  <2>2. job' = k /\ this' = "result" /\ return_to' = "done"
    BY <1>2, <1>3, <2>1 DEF CallerKept
  <2>3. InConcatenation'
    BY <1>3, <2>1, <2>2 DEF InConcatenation
  <2>4. QED
    BY <1>1, <1>2, <2>1, <2>2, <2>3 DEF CombineInv
<1>5. CASE Return
  <2>1. /\ IsNfa(objects'[this]) /\ IsProductOf(objects'[this], k.lhs, Second(k))
        /\ ObjectsNamed' /\ CallerKept /\ at' = "done"
    BY <1>1, <1>3, <1>5, CallReturns
  <2>2. job' = k /\ nfa' = objects'[this]
    BY <1>2, <1>3, <2>1 DEF CallerKept, nfa
  <2>3. PICK X : X = nfa'
    OBVIOUS
  <2>4. IsNfa(X) /\ IsProductOf(X, k.lhs, Second(k))
    BY <2>1, <2>2, <2>3
  <2>5. Meant(k, X)
    BY <1>3, <2>4 DEF Meant, Second
  <2>6. AtEnd'
    BY <1>3, <2>1, <2>2, <2>3, <2>4, <2>5 DEF AtEnd, SilentOperations
  <2>7. QED
    BY <1>1, <1>2, <2>1, <2>2, <2>6 DEF CombineInv
<1>6. QED
  BY <1>4, <1>5

------------------------------------------------------------------------------
(* The sums of the squaring.                                                *)
LEMMA HalvesOfPower ==
  ASSUME NEW p \in Nat
  PROVE  /\ p \div 2 \in Nat
         /\ p % 2 = 1 => p = 2 * (p \div 2) + 1
         /\ p % 2 # 1 => p = 2 * (p \div 2)
OBVIOUS

LEMMA OddPower ==
  ASSUME NEW p \in Nat, NEW r \in Nat, NEW b \in Nat, NEW N \in Nat, p % 2 = 1, r + b * p = N
  PROVE  (r + b) + b * (2 * (p \div 2)) = N
<1>1. PICK q \in Nat : q = p \div 2 /\ p = 2 * q + 1
  BY HalvesOfPower
<1>2. PICK d \in Nat : d = 2 * q
  BY <1>1
<1>3. b * (d + 1) = b * d + b
  OBVIOUS
<1>4. PICK z \in Nat : z = b * d
  OBVIOUS
<1>5. p = d + 1
  BY <1>1, <1>2
<1>6. r + (z + b) = N
  BY <1>3, <1>4, <1>5
<1>7. (r + b) + z = N
  BY <1>6
<1>8. QED
  BY <1>1, <1>2, <1>4, <1>7

LEMMA EvenPower ==
  ASSUME NEW p \in Nat, NEW r \in Nat, NEW b \in Nat, NEW N \in Nat, p % 2 # 1, r + b * p = N
  PROVE  r + b * (2 * (p \div 2)) = N
<1>1. p = 2 * (p \div 2)
  BY HalvesOfPower
<1>2. QED
  BY <1>1

LEMMA SquaredPower ==
  ASSUME NEW q \in Nat, NEW r \in Nat, NEW b \in Nat, NEW N \in Nat, r + b * (2 * q) = N
  PROVE  /\ r + (2 * b) * q = N /\ 2 * b = b + b
         /\ q = 0 => r = N
<1>1. b * (2 * q) = (2 * b) * q
  OBVIOUS
<1>2. q = 0 => b * (2 * q) = 0
  OBVIOUS
<1>3. QED
  BY <1>1, <1>2

LEMMA HoldsPowerInNat ==
  ASSUME NEW X, NEW Y, NEW Z, NEW A, NEW a \in Nat, NEW b \in Nat,
         HoldsPower(X, A, a), HoldsPower(Y, A, b), IsNfa(Z), IsProductOf(Z, X, Y)
  PROVE  HoldsPower(Z, A, a + b)
BY PowersMultiply DEF HoldsPower

LEMMA MultiplyKeeps ==
  ASSUME CombineInv, InPower, Multiply
  PROVE  CombineInv'
<1>1. job \in Jobs /\ ObjectsNamed /\ job.power \in Nat
  BY JobFacts DEF CombineInv
<1>2. PICK k : k = job
  OBVIOUS
<1>3. PICK p \in Nat : p = power
  BY DEF InPower
<1>4. k.op = "power" /\ \E r, b \in Nat : PowerBefore(r, b)
  BY <1>2 DEF InPower, PowerBefore, MultiplyingResult, PowerBetween, SquaringBase, Calling,
              Multiply
<1>5. PICK r \in Nat, b \in Nat : PowerBefore(r, b)
  BY <1>4
<1>6. PICK X : X = objects["result"]
  OBVIOUS
<1>7. PICK Y : Y = objects["base"]
  OBVIOUS
<1>8. /\ r + b * p = k.power /\ HoldsPower(X, k.lhs, r) /\ HoldsPower(Y, k.lhs, b)
  BY <1>2, <1>3, <1>5, <1>6, <1>7 DEF PowerBefore
<1>9. /\ job' = k /\ power' = p /\ objects' = objects /\ ObjectsNamed'
      /\ objects'["result"] = X /\ objects'["base"] = Y
      /\ this' = "result" /\ aut' = "base" /\ return_to' = "square"
      /\ at' = IF p % 2 = 1 THEN "append" ELSE "square"
  BY <1>1, <1>2, <1>3, <1>6, <1>7 DEF Multiply, ObjectsNamed
<1>10. CASE p % 2 = 1
  <2>1. IsNfa(X) /\ IsNfa(Y)
    BY <1>8 DEF HoldsPower
  <2>2. Calling(X, Y)'
    BY <1>9, <1>10, <2>1 DEF Calling, Names
  <2>3. MultiplyingResult(r, b)'
    BY <1>8, <1>9, <1>10, <2>2 DEF MultiplyingResult
  <2>4. InPower'
    BY <1>4, <1>9, <2>3 DEF InPower
  <2>5. QED
    BY <1>1, <1>2, <1>9, <2>4 DEF CombineInv
<1>11. CASE p % 2 # 1
  <2>1. r + b * (2 * (p \div 2)) = k.power
    BY <1>1, <1>2, <1>8, <1>11, EvenPower
  <2>2. PowerBetween(r, b)'
    BY <1>8, <1>9, <1>11, <2>1 DEF PowerBetween
  <2>3. InPower'
    BY <1>4, <1>9, <2>2 DEF InPower
  <2>4. QED
    BY <1>1, <1>2, <1>9, <2>3 DEF CombineInv
<1>12. QED
  BY <1>10, <1>11

LEMMA SquareKeeps ==
  ASSUME CombineInv, InPower, Square
  PROVE  CombineInv'
<1>1. job \in Jobs /\ ObjectsNamed /\ job.power \in Nat
  BY JobFacts DEF CombineInv
<1>2. PICK k : k = job
  OBVIOUS
<1>3. PICK p \in Nat : p = power
  BY DEF InPower
<1>4. k.op = "power" /\ \E r, b \in Nat : PowerBetween(r, b)
  BY <1>2 DEF InPower, PowerBefore, MultiplyingResult, PowerBetween, SquaringBase, Calling,
              Square
<1>5. PICK r \in Nat, b \in Nat : PowerBetween(r, b)
  BY <1>4
<1>6. PICK X : X = objects["result"]
  OBVIOUS
<1>7. PICK Y : Y = objects["base"]
  OBVIOUS
<1>8. PICK q \in Nat : q = p \div 2
  BY HalvesOfPower
<1>9. /\ r + b * (2 * q) = k.power /\ HoldsPower(X, k.lhs, r) /\ HoldsPower(Y, k.lhs, b)
  BY <1>2, <1>3, <1>5, <1>6, <1>7, <1>8 DEF PowerBetween
<1>10. r + (2 * b) * q = k.power /\ (q = 0 => r = k.power)
  BY <1>1, <1>2, <1>9, SquaredPower
<1>11. /\ job' = k /\ power' = q /\ objects' = objects /\ ObjectsNamed'
       /\ objects'["result"] = X /\ objects'["base"] = Y
       /\ this' = "base" /\ aut' = "base" /\ return_to' = "multiply"
       /\ at' = IF q # 0 THEN "append" ELSE "done"
  BY <1>1, <1>2, <1>3, <1>6, <1>7, <1>8 DEF Square, ObjectsNamed
<1>12. CASE q # 0
  <2>1. IsNfa(Y)
    BY <1>9 DEF HoldsPower
  <2>2. Calling(Y, Y)'
    BY <1>11, <1>12, <2>1 DEF Calling, Names
  <2>3. SquaringBase(r, b)'
    BY <1>9, <1>10, <1>11, <2>2 DEF SquaringBase
  <2>4. InPower'
    BY <1>4, <1>11, <2>3 DEF InPower
  <2>5. QED
    BY <1>1, <1>2, <1>11, <2>4 DEF CombineInv
<1>13. CASE q = 0
  <2>1. IsNfa(X) /\ IsPowerOf(X, k.lhs, k.power)
    BY <1>9, <1>10, <1>13 DEF HoldsPower
  <2>2. Meant(k, X)
    BY <1>4, <2>1 DEF Meant
  <2>3. nfa' = X
    BY <1>11 DEF nfa
  <2>4. AtEnd'
    BY <1>4, <1>11, <1>13, <2>1, <2>2, <2>3 DEF AtEnd, SilentOperations
  <2>5. QED
    BY <1>1, <1>2, <1>11, <2>4 DEF CombineInv
<1>14. QED
  BY <1>12, <1>13

LEMMA PowerCallKeeps ==
  ASSUME CombineInv, InPower, CallStep \/ Return
  PROVE  CombineInv'
<1>1. job \in Jobs /\ ObjectsNamed /\ job.power \in Nat /\ EPSILON \in Nat
  BY JobFacts DEF CombineInv
<1>2. PICK k : k = job
  OBVIOUS
<1>3. PICK p \in Nat : p = power
  BY DEF InPower
<1>4. k.op = "power" /\ at \in {"append", "connect"}
  BY <1>2 DEF InPower, CallStep, AppendDelta, Connect, Return
<1>5. \E r, b \in Nat : MultiplyingResult(r, b) \/ SquaringBase(r, b)
  BY <1>4 DEF InPower, PowerBefore, PowerBetween
<1>6. PICK r \in Nat, b \in Nat : MultiplyingResult(r, b) \/ SquaringBase(r, b)
  BY <1>5
<1>7. CASE MultiplyingResult(r, b)
  <2>1. /\ p % 2 = 1 /\ r + b * p = k.power
        /\ this = "result" /\ aut = "base" /\ return_to = "square"
    BY <1>2, <1>3, <1>7 DEF MultiplyingResult
  <2>2. PICK X, Y : /\ HoldsPower(X, k.lhs, r) /\ HoldsPower(Y, k.lhs, b)
                    /\ objects["base"] = Y /\ Calling(X, Y)
    BY <1>2, <1>7 DEF MultiplyingResult
  <2>3. CASE CallStep
    <3>1. Calling(X, Y)' /\ ObjectsNamed' /\ OnlyChanges(this) /\ CallerKept
      BY <1>1, <2>2, <2>3, CallGoesOn
    <3>2. /\ job' = k /\ power' = p /\ this' = "result" /\ aut' = "base" /\ return_to' = "square"
          /\ objects'["base"] = Y
      BY <1>2, <1>3, <2>1, <2>2, <3>1 DEF CallerKept, OnlyChanges, Names
    <3>3. MultiplyingResult(r, b)'
      BY <2>1, <2>2, <3>1, <3>2 DEF MultiplyingResult
    <3>4. InPower'
      BY <1>4, <3>2, <3>3 DEF InPower
    <3>5. QED
      BY <1>1, <1>2, <3>1, <3>2, <3>4 DEF CombineInv
  <2>4. CASE Return
    <3>1. /\ IsNfa(objects'[this]) /\ IsProductOf(objects'[this], X, Y)
          /\ ObjectsNamed' /\ OnlyChanges(this) /\ CallerKept /\ at' = return_to
      BY <1>1, <2>2, <2>4, CallReturns
    <3>2. PICK Z : Z = objects'["result"]
      OBVIOUS
    <3>3. /\ job' = k /\ power' = p /\ at' = "square" /\ objects'["base"] = Y
          /\ IsNfa(Z) /\ IsProductOf(Z, X, Y)
      BY <1>2, <1>3, <2>1, <2>2, <3>1, <3>2 DEF CallerKept, OnlyChanges, Names
    <3>4. HoldsPower(Z, k.lhs, r + b)
      BY <2>2, <3>3, HoldsPowerInNat
    <3>5. (r + b) + b * (2 * (p \div 2)) = k.power
      BY <1>1, <1>2, <2>1, OddPower
    <3>6. PICK s \in Nat : s = r + b
      OBVIOUS
    <3>7. PowerBetween(s, b)'
      BY <2>2, <3>2, <3>3, <3>4, <3>5, <3>6 DEF PowerBetween
    <3>8. InPower'
      BY <1>4, <3>3, <3>6, <3>7 DEF InPower
    <3>9. QED
      BY <1>1, <1>2, <3>1, <3>3, <3>8 DEF CombineInv
  <2>5. QED
    BY <2>3, <2>4
<1>8. CASE SquaringBase(r, b)
  <2>1. /\ r + (2 * b) * p = k.power
        /\ this = "base" /\ aut = "base" /\ return_to = "multiply"
    BY <1>2, <1>3, <1>8 DEF SquaringBase
  <2>2. PICK X : HoldsPower(X, k.lhs, b) /\ Calling(X, X)
    BY <1>2, <1>8 DEF SquaringBase
  <2>3. PICK R : R = objects["result"]
    OBVIOUS
  <2>4. HoldsPower(R, k.lhs, r)
    BY <1>2, <1>8, <2>3 DEF SquaringBase
  <2>5. CASE CallStep
    <3>1. Calling(X, X)' /\ ObjectsNamed' /\ OnlyChanges(this) /\ CallerKept
      BY <1>1, <2>2, <2>5, CallGoesOn
    <3>2. /\ job' = k /\ power' = p /\ this' = "base" /\ aut' = "base" /\ return_to' = "multiply"
          /\ objects'["result"] = R
      BY <1>2, <1>3, <2>1, <2>3, <3>1 DEF CallerKept, OnlyChanges, Names
    <3>3. SquaringBase(r, b)'
      BY <2>1, <2>2, <2>4, <3>1, <3>2 DEF SquaringBase
    <3>4. InPower'
      BY <1>4, <3>2, <3>3 DEF InPower
    <3>5. QED
      BY <1>1, <1>2, <3>1, <3>2, <3>4 DEF CombineInv
  <2>6. CASE Return
    <3>1. /\ IsNfa(objects'[this]) /\ IsProductOf(objects'[this], X, X)
          /\ ObjectsNamed' /\ OnlyChanges(this) /\ CallerKept /\ at' = return_to
      BY <1>1, <2>2, <2>6, CallReturns
    <3>2. PICK Z : Z = objects'["base"]
      OBVIOUS
    <3>3. /\ job' = k /\ power' = p /\ at' = "multiply" /\ objects'["result"] = R
          /\ IsNfa(Z) /\ IsProductOf(Z, X, X)
      BY <1>2, <1>3, <2>1, <2>3, <3>1, <3>2 DEF CallerKept, OnlyChanges, Names
    <3>4. HoldsPower(Z, k.lhs, b + b)
      BY <2>2, <3>3, HoldsPowerInNat
    <3>5. PICK d \in Nat : d = 2 * b /\ d = b + b
      OBVIOUS
    <3>6. PowerBefore(r, d)'
      BY <2>1, <2>4, <3>2, <3>3, <3>4, <3>5 DEF PowerBefore
    <3>7. InPower'
      BY <1>4, <3>3, <3>5, <3>6 DEF InPower
    <3>8. QED
      BY <1>1, <1>2, <3>1, <3>3, <3>7 DEF CombineInv
  <2>7. QED
    BY <2>5, <2>6
<1>9. QED
  BY <1>6, <1>7, <1>8

------------------------------------------------------------------------------
(* The steps of remove_epsilon.                                             *)
StillRemoving == job' = job /\ objects' = objects

LEMMA RemovalGoesOn ==
  ASSUME CombineInv, InRemoval, StillRemoving,
         \/ at' = "close" /\ ClosingRight(nfa)'
         \/ /\ at' = "rebuild" /\ EntriesRight(nfa, epsilon_closure)'
            /\ (\A q \in nfa.states : Settled(nfa, epsilon_closure, q))'
  PROVE  CombineInv'
<1>1. PICK A : A = nfa
  OBVIOUS
<1>2. PICK k : k = job
  OBVIOUS
<1>3. k \in Jobs /\ k.op \in SilentOperations /\ IsNfa(A) /\ Meant(k, A) /\ ObjectsNamed
  BY <1>1, <1>2 DEF CombineInv, InRemoval
<1>4. nfa' = A /\ job' = k /\ ObjectsNamed'
  BY <1>1, <1>2, <1>3 DEF StillRemoving, nfa, ObjectsNamed
<1>5. IsNfa(nfa') /\ Meant(job', nfa')
  BY <1>3, <1>4
<1>6. InRemoval'
  BY <1>3, <1>4, <1>5 DEF InRemoval
<1>7. QED
  BY <1>3, <1>4, <1>6 DEF CombineInv

LEMMA StartClosureKeeps ==
  ASSUME CombineInv, InRemoval, StartClosure
  PROVE  CombineInv'
<1>1. PICK A : A = nfa
  OBVIOUS
<1>2. IsNfa(A)
  BY <1>1 DEF InRemoval
<1>3. PICK E : E = [q \in A.states |-> IF HasMoves(A, q) THEN {q} \cup Targets(A, q) ELSE {}]
  OBVIOUS
<1>4. EntriesRight(A, E)
  BY <1>2, <1>3, FirstEntries
<1>5. /\ epsilon_closure' = E /\ closing' = 0 /\ changed' = FALSE /\ at' = "close"
      /\ StillRemoving /\ nfa' = A
  BY <1>1, <1>3 DEF StartClosure, StillRemoving, EpsilonTargets, HasMoves, Targets, nfa
<1>6. \A q \in A.states : ~ (q < 0)
  BY <1>2, NfaFacts
<1>7. ClosingRight(nfa)'
  BY <1>4, <1>5, <1>6 DEF ClosingRight
<1>8. QED
  BY <1>5, <1>7, RemovalGoesOn

LEMMA CloseKeeps ==
  ASSUME CombineInv, InRemoval, Close
  PROVE  CombineInv'
<1>1. PICK A : A = nfa
  OBVIOUS
<1>2. PICK E : E = epsilon_closure
  OBVIOUS
<1>3. PICK c : c = closing
  OBVIOUS
<1>4. PICK F : F = [E EXCEPT ![c] = @ \cup UNION {E[t] : t \in Targets(A, c)}]
  OBVIOUS
<1>5. at = "close" /\ c \in A.states
  BY <1>1, <1>3 DEF Close
<1>6. ClosingRight(nfa)
  BY <1>5 DEF InRemoval
<1>7. /\ c \in Nat /\ changed \in BOOLEAN /\ EntriesRight(A, E) /\ IsNfa(A)
      /\ ~ changed => \A q \in A.states : q < c => Settled(A, E, q)
  BY <1>1, <1>2, <1>3, <1>6 DEF ClosingRight, InRemoval
<1>8. EntriesRight(A, F) /\ (F = E => Settled(A, E, c))
  BY <1>4, <1>5, <1>7, EntryTakes
<1>9. epsilon_closure' = F /\ closing' = c + 1 /\ at' = "close"
  BY <1>1, <1>2, <1>3, <1>4, <1>5 DEF Close, EpsilonTargets, Targets, nfa
<1>10. StillRemoving /\ nfa' = A
  BY <1>1 DEF Close, StillRemoving, nfa
<1>11. changed' = (changed \/ epsilon_closure' # epsilon_closure)
  BY DEF Close
<1>12. changed' \in BOOLEAN
  BY <1>11
<1>13. ASSUME ~ changed' PROVE ~ changed /\ F = E
  BY <1>2, <1>7, <1>9, <1>11, <1>13
<1>14. ASSUME ~ changed', NEW q \in A.states, q < c + 1 PROVE Settled(A, F, q)
  <2>1. ~ changed /\ F = E /\ Settled(A, E, c)
    BY <1>8, <1>13, <1>14
  <2>2. q \in Nat
    BY <1>7, NfaFacts
  <2>3. q < c \/ q = c
    BY <1>7, <1>14, <2>2
  <2>4. QED
    BY <1>7, <2>1, <2>3
<1>15. ClosingRight(nfa)'
  <2>1. c + 1 \in Nat
    BY <1>7
  <2>2. closing' \in Nat /\ EntriesRight(nfa', epsilon_closure')
    BY <1>8, <1>9, <1>10, <2>1
  <2>3. ~ changed' => \A q \in nfa'.states : q < closing' => Settled(nfa', epsilon_closure', q)
    BY <1>9, <1>10, <1>14
  <2>4. QED
    BY <1>12, <2>2, <2>3 DEF ClosingRight
<1>16. QED
  BY <1>9, <1>10, <1>15, RemovalGoesOn

LEMMA EndOfPassKeeps ==
  ASSUME CombineInv, InRemoval, EndOfPass
  PROVE  CombineInv'
<1>1. PICK A : A = nfa
  OBVIOUS
<1>2. PICK E : E = epsilon_closure
  OBVIOUS
<1>3. at = "close" /\ closing \notin A.states
  BY <1>1 DEF EndOfPass
<1>4. ClosingRight(nfa)
  BY <1>3 DEF InRemoval
<1>5. /\ closing \in Nat /\ changed \in BOOLEAN /\ EntriesRight(A, E) /\ IsNfa(A)
      /\ ~ changed => \A q \in A.states : q < closing => Settled(A, E, q)
  BY <1>1, <1>2, <1>4 DEF ClosingRight, InRemoval
<1>6. /\ epsilon_closure' = E /\ closing' = 0 /\ changed' = FALSE
      /\ at' = (IF changed THEN "close" ELSE "rebuild") /\ StillRemoving /\ nfa' = A
  BY <1>1, <1>2 DEF EndOfPass, StillRemoving, nfa
<1>7. CASE changed
  <2>1. \A q \in A.states : ~ (q < 0)
    BY <1>5, NfaFacts
  <2>2. ClosingRight(nfa)'
    BY <1>5, <1>6, <2>1 DEF ClosingRight
  <2>3. at' = "close"
    BY <1>6, <1>7
  <2>4. QED
    BY <1>6, <2>2, <2>3, RemovalGoesOn
<1>8. CASE ~ changed
  <2>1. PICK N \in Nat : N = num_of_states(A) /\ A.states = 0 .. N - 1
    BY <1>5, NfaFacts
  <2>2. PICK c \in Nat : c = closing
    BY <1>5
  <2>3. c >= N
    BY <1>3, <2>1, <2>2
  <2>4. \A q \in A.states : q < closing
    BY <2>1, <2>2, <2>3
  <2>5. \A q \in A.states : Settled(A, E, q)
    BY <1>5, <1>8, <2>4
  <2>6. EntriesRight(nfa, epsilon_closure)' /\ (\A q \in nfa.states : Settled(nfa, epsilon_closure, q))'
    BY <1>5, <1>6, <2>5
  <2>7. at' = "rebuild"
    BY <1>6, <1>8
  <2>8. QED
    BY <1>6, <2>6, <2>7, RemovalGoesOn
<1>9. QED
  BY <1>5, <1>7, <1>8

LEMMA RebuildKeeps ==
  ASSUME CombineInv, InRemoval, Rebuild
  PROVE  CombineInv'
<1>1. PICK A : A = nfa
  OBVIOUS
<1>2. PICK E : E = epsilon_closure
  OBVIOUS
<1>3. PICK k : k = job
  OBVIOUS
<1>4. at = "rebuild"
  BY DEF Rebuild
<1>5. /\ k \in Jobs /\ k.op \in SilentOperations /\ IsNfa(A) /\ Meant(k, A) /\ ObjectsNamed
      /\ EntriesRight(A, E) /\ \A q \in A.states : Settled(A, E, q)
      /\ EPSILON \in Nat
  BY <1>1, <1>2, <1>3, <1>4, JobFacts DEF CombineInv, InRemoval
<1>6. PICK C : C = WithFinals(A, RebuiltFinals(A, E), RebuiltMoves(A, E))
  OBVIOUS
<1>7. C = [states |-> A.states, initial |-> A.initial,
           final |-> RebuiltFinals(A, E), delta |-> RebuiltMoves(A, E)]
  <2>1. PICK X : X = A
    OBVIOUS
  <2>2. PICK st, ini, fin, del :
          st = A.states /\ ini = A.initial /\ fin = A.final /\ del = A.delta
    OBVIOUS
  <2>3. X = [states |-> st, initial |-> ini, final |-> fin, delta |-> del]
    BY <1>5, <2>1, <2>2 DEF IsNfa
  <2>4. PICK F : F = RebuiltFinals(A, E)
    OBVIOUS
  <2>5. PICK D : D = RebuiltMoves(A, E)
    OBVIOUS
  <2>6. WithFinals(X, F, D) = [states |-> st, initial |-> ini, final |-> F, delta |-> D]
    BY <2>3, ReplacedBoth
  <2>7. QED
    BY <1>6, <2>1, <2>2, <2>4, <2>5, <2>6
<1>8. /\ IsNfa(C) /\ IsWithoutSilence(A, C) /\ \A m \in C.delta : m[2] # EPSILON
  BY <1>5, <1>7, RebuiltIsWithoutSilence
<1>9. objects' = [objects EXCEPT !["result"] = C]
  <2>1. PICK F : F = RebuiltFinals(A, E)
    OBVIOUS
  <2>2. PICK D : D = RebuiltMoves(A, E)
    OBVIOUS
  <2>3. objects' = [objects EXCEPT !["result"].final = F, !["result"].delta = D]
    BY <1>1, <1>2, <2>1, <2>2 DEF Rebuild, RebuiltFinals, RebuiltMoves, nfa
  <2>4. QED
    BY <1>1, <1>5, <1>6, <2>1, <2>2, <2>3 DEF ObjectsNamed, Names, WithFinals, nfa
<1>10. ObjectsNamed' /\ nfa' = C /\ job' = k /\ at' = "done"
  BY <1>3, <1>5, <1>9 DEF ObjectsNamed, Names, nfa, Rebuild
<1>11. IsSameAs(C, A)
  BY <1>5, <1>8, SpelledWithoutSilence DEF IsSameAs
<1>12. Meant(k, C)
  BY <1>5, <1>11, MeantBySame
<1>13. AtEnd'
  BY <1>8, <1>10, <1>12 DEF AtEnd
<1>14. QED
  BY <1>5, <1>10, <1>13 DEF CombineInv

------------------------------------------------------------------------------
LEMMA CombineKeeps ==
  ASSUME CombineInv, [CombineNext]_combinevars
  PROVE  CombineInv'
<1>1. CASE AppendDelta \/ (\E ini \in left : Connect(ini)) \/ Return
  <2>1. at \in {"append", "connect"} /\ (CallStep \/ Return)
    BY <1>1 DEF AppendDelta, Connect, Return, CallStep
  <2>2. InConcatenation \/ InPower
    BY <2>1 DEF CombineInv, InRemoval, AtEnd
  <2>3. QED
    BY <2>1, <2>2, ConcatenationKeeps, PowerCallKeeps
<1>2. CASE Multiply \/ Square
  <2>1. at \in {"multiply", "square"}
    BY <1>2 DEF Multiply, Square
  <2>2. InPower
    BY <2>1 DEF CombineInv, InRemoval, AtEnd, InConcatenation, Calling
  <2>3. QED
    BY <1>2, <2>2, MultiplyKeeps, SquareKeeps
<1>3. CASE StartClosure \/ Close \/ EndOfPass \/ Rebuild
  <2>1. at \in {"remove epsilon", "close", "rebuild"}
    BY <1>3 DEF StartClosure, Close, EndOfPass, Rebuild
  <2>2. InRemoval
    BY <2>1 DEF CombineInv, InPower, AtEnd, InConcatenation, Calling, PowerBefore,
                MultiplyingResult, PowerBetween, SquaringBase
  <2>3. QED
    BY <1>3, <2>2, StartClosureKeeps, CloseKeeps, EndOfPassKeeps, RebuildKeeps
<1>4. CASE UNCHANGED combinevars
  <2>1. /\ job' = job /\ objects' = objects /\ this' = this /\ aut' = aut /\ n' = n
        /\ aut_initial' = aut_initial /\ aut_final' = aut_final /\ new_fin' = new_fin
        /\ left' = left /\ power' = power /\ epsilon_closure' = epsilon_closure
        /\ closing' = closing /\ changed' = changed /\ at' = at /\ return_to' = return_to
    BY <1>4 DEF combinevars, callvars, closurevars
  <2>2. ObjectsNamed <=> ObjectsNamed'
    BY <2>1 DEF ObjectsNamed
  <2>3. \A A, B : Calling(A, B) => Calling(A, B)'
    BY <2>1 DEF Calling, Halfway
  <2>4. InConcatenation => InConcatenation'
    BY <2>1, <2>3 DEF InConcatenation
  <2>5. ASSUME NEW r \in Nat, NEW b \in Nat
        PROVE  /\ PowerBefore(r, b) => PowerBefore(r, b)'
               /\ PowerBetween(r, b) => PowerBetween(r, b)'
               /\ MultiplyingResult(r, b) => MultiplyingResult(r, b)'
               /\ SquaringBase(r, b) => SquaringBase(r, b)'
    BY <2>1, <2>3 DEF PowerBefore, PowerBetween, MultiplyingResult, SquaringBase
  <2>6. InPower => InPower'
    BY <2>1, <2>5 DEF InPower
  <2>7. nfa' = nfa
    BY <2>1 DEF nfa
  <2>8. ClosingRight(nfa) => ClosingRight(nfa)'
    BY <2>1, <2>7 DEF ClosingRight
  <2>9. InRemoval => InRemoval'
    BY <2>1, <2>7, <2>8 DEF InRemoval
  <2>10. AtEnd => AtEnd'
    BY <2>1, <2>7 DEF AtEnd
  <2>11. QED
    BY <2>1, <2>2, <2>4, <2>6, <2>9, <2>10 DEF CombineInv
<1>5. QED
  BY <1>1, <1>2, <1>3, <1>4 DEF CombineNext

(* What the objects spell at every stage of an operation.                   *)
THEOREM CombineIsRight == CombineSpec => []CombineInv
<1>1. CombineInit => CombineInv
  BY CombineBegins
<1>2. CombineInv /\ [CombineNext]_combinevars => CombineInv'
  BY CombineKeeps
<1>3. QED
  BY <1>1, <1>2, PTL DEF CombineSpec

------------------------------------------------------------------------------
LEMMA DoneIsAtEnd ==
  ASSUME CombineInv, at = "done"
  PROVE  job \in Jobs /\ AtEnd
BY DEF CombineInv, InConcatenation, InPower, InRemoval, Calling, PowerBefore, MultiplyingResult,
       PowerBetween, SquaringBase

LEMMA LanguageIsUpTo ==
  ASSUME NEW T, T = Symbols, NEW A
  PROVE  Language(A) = LanguageUpTo(A, T)
BY DEF Language, LanguageUpTo, Words

LEMMA SymbolsOfMoves ==
  ASSUME NEW L, NEW R, IsNfa(L), IsNfa(R), NEW T,
         T = {m[2] : m \in L.delta \cup R.delta} \ {EPSILON}
  PROVE  \A t \in T : t \in Nat
<1>1. /\ L.delta \subseteq L.states \X Nat \X L.states
      /\ R.delta \subseteq R.states \X Nat \X R.states
  BY NfaFacts DEF IsWithinStates
<1>2. \A m \in L.delta \cup R.delta : m[2] \in Nat
  BY <1>1
<1>3. QED
  BY <1>2

LEMMA SymbolsOfJob ==
  ASSUME job \in Jobs, NEW T, T = Symbols
  PROVE  \A t \in T : t \in Nat
<1>1. IsNfa(job.lhs) /\ IsNfa(job.rhs)
  BY JobFacts
<1>2. QED
  BY <1>1, SymbolsOfMoves DEF Symbols

LEMMA RightLanguage ==
  ASSUME CombineInv
  PROVE  CombinedLanguage
<1> SUFFICES ASSUME at = "done"
             PROVE  LET L == Language(job.lhs)
                        M == Language(job.rhs)
                    IN /\ Language(objects["result"]) =
                            CASE job.op \in {"concatenate", "concatenate_eps"} -> Concatenated(L, M)
                              [] job.op = "concatenate itself" -> Concatenated(L, L)
                              [] job.op = "power" -> Power(L)
                              [] job.op \in {"remove_epsilon", "given"} -> L
                              [] job.op = "unite" -> L \cup M
                              [] job.op = "unite itself" -> L
                       /\ job.op \in {"concatenate_eps", "remove_epsilon"} =>
                            \A m \in objects["result"].delta : m[2] # EPSILON
  BY DEF CombinedLanguage
<1>1. job \in Jobs /\ AtEnd
  BY DoneIsAtEnd
<1>2. /\ job.op \in Operations /\ job.power \in Nat /\ IsNfa(job.lhs) /\ IsNfa(job.rhs)
      /\ EPSILON \in Nat
  BY <1>1, JobFacts
<1>3. PICK T : T = Symbols
  OBVIOUS
<1>4. T \in SUBSET Nat
  <2>1. \A t \in T : t \in Nat
    BY <1>1, <1>3, SymbolsOfJob
  <2>2. QED
    BY <2>1
<1>5. PICK X : X = objects["result"]
  OBVIOUS
<1>6. PICK A : A = job.lhs
  OBVIOUS
<1>7. PICK B : B = job.rhs
  OBVIOUS
<1>8. PICK k : k = job
  OBVIOUS
<1>9. /\ IsNfa(X) /\ IsNfa(A) /\ IsNfa(B) /\ Meant(k, X) /\ k.lhs = A /\ k.rhs = B
      /\ k.op \in SilentOperations => \A m \in X.delta : m[2] # EPSILON
  BY <1>1, <1>2, <1>5, <1>6, <1>7, <1>8 DEF AtEnd, nfa
<1>10. IsNfa(X) /\ IsNfa(A) /\ IsNfa(B) /\ EPSILON \in Nat /\ job.power \in Nat
  BY <1>2, <1>9
<1>20. /\ Language(job.lhs) = LanguageUpTo(A, T) /\ Language(job.rhs) = LanguageUpTo(B, T)
       /\ Language(objects["result"]) = LanguageUpTo(X, T)
  BY <1>3, <1>5, <1>6, <1>7, LanguageIsUpTo
<1>11. ASSUME k.op \in {"concatenate", "concatenate_eps"}
       PROVE  LanguageUpTo(X, T) = Concatenated(LanguageUpTo(A, T), LanguageUpTo(B, T))
  <2>1. IsProductOf(X, A, B)
    BY <1>9, <1>11 DEF Meant
  <2>2. QED
    BY <1>4, <1>10, <2>1, LanguageOfProduct
<1>12. ASSUME k.op = "concatenate itself"
       PROVE  LanguageUpTo(X, T) = Concatenated(LanguageUpTo(A, T), LanguageUpTo(A, T))
  <2>1. IsProductOf(X, A, A)
    BY <1>9, <1>12 DEF Meant
  <2>2. QED
    BY <1>4, <1>10, <2>1, LanguageOfProduct
<1>13. ASSUME k.op = "power"
       PROVE  LanguageUpTo(X, T) = Power(LanguageUpTo(A, T))
  <2>1. IsPowerOf(X, A, job.power)
    BY <1>8, <1>9, <1>13 DEF Meant
  <2>2. QED
    BY <1>4, <1>10, <2>1, LanguageOfPower
<1>14. ASSUME k.op \in {"remove_epsilon", "given", "unite itself"}
       PROVE  LanguageUpTo(X, T) = LanguageUpTo(A, T)
  <2>1. IsSameAs(X, A)
    BY <1>9, <1>14 DEF Meant
  <2>2. QED
    BY <1>4, <1>10, <2>1, LanguageOfSame
<1>15. ASSUME k.op = "unite"
       PROVE  LanguageUpTo(X, T) = LanguageUpTo(A, T) \cup LanguageUpTo(B, T)
  <2>1. IsUnionOf(X, A, B)
    BY <1>9, <1>15 DEF Meant
  <2>2. QED
    BY <1>4, <1>10, <2>1, LanguageOfUnion
<1>16. PICK L : L = LanguageUpTo(A, T)
  OBVIOUS
<1>17. PICK M : M = LanguageUpTo(B, T)
  OBVIOUS
<1>18. LanguageUpTo(X, T) =
         CASE k.op \in {"concatenate", "concatenate_eps"} -> Concatenated(L, M)
           [] k.op = "concatenate itself" -> Concatenated(L, L)
           [] k.op = "power" -> Power(L)
           [] k.op \in {"remove_epsilon", "given"} -> L
           [] k.op = "unite" -> L \cup M
           [] k.op = "unite itself" -> L
  BY <1>2, <1>8, <1>11, <1>12, <1>13, <1>14, <1>15, <1>16, <1>17 DEF Operations
<1>19. QED
  BY <1>5, <1>8, <1>9, <1>20, <1>16, <1>17, <1>18 DEF SilentOperations

(* The language of the result is the one the name of the operation says,    *)
(* for any jobs and over words of up to four symbols, as the run has it;    *)
(* and when epsilons are to be removed, none is left.                       *)
THEOREM CombinationsAreAlwaysRight == CombineSpec => []CombinedLanguage
<1>1. CombineInv => CombinedLanguage
  BY RightLanguage
<1>2. QED
  BY <1>1, CombineIsRight, PTL

------------------------------------------------------------------------------
(* The same for words of any length: a word is cut into parts that the      *)
(* arguments accept.                                                        *)
Reads(A, w) == Accepts(Silenced(A), w)
ReadsBoth(A, B, w) == \E k \in 0 .. Len(w) : Reads(A, SubSeq(w, 1, k)) /\ Reads(B, SubSeq(w, k + 1, Len(w)))
ReadsPower(A, N, w) ==
  \E c \in [0 .. N -> 0 .. Len(w)] :
    /\ c[0] = 0 /\ c[N] = Len(w) /\ \A x, y \in 0 .. N : x <= y => c[x] <= c[y]
    /\ \A x \in 1 .. N : Reads(A, SubSeq(w, c[x - 1] + 1, c[x]))

ReadsAsMeant(k, X, w) ==
  Reads(X, w) <=>
    CASE k.op \in {"concatenate", "concatenate_eps"} -> ReadsBoth(k.lhs, k.rhs, w)
      [] k.op = "concatenate itself" -> ReadsBoth(k.lhs, k.lhs, w)
      [] k.op = "power" -> ReadsPower(k.lhs, k.power, w)
      [] k.op \in {"remove_epsilon", "given", "unite itself"} -> Reads(k.lhs, w)
      [] k.op = "unite" -> Reads(k.lhs, w) \/ Reads(k.rhs, w)

CombinedWords == at = "done" => \A w \in Seq(Nat) : ReadsAsMeant(job, objects["result"], w)

LEMMA BothAreRead ==
  ASSUME NEW A, IsNfa(A), NEW B, IsNfa(B), EPSILON \in Nat, NEW w, IsWord(w)
  PROVE  SpellsBoth(A, B, w, 0, Len(w)) <=> ReadsBoth(A, B, w)
<1>1. 0 \in Places(w) /\ Len(w) \in Places(w) /\ Places(w) = 0 .. Len(w) /\ Len(w) \in Nat
  BY WordPlaces DEF Places
<1>2. ASSUME NEW k \in Places(w)
      PROVE  /\ Spells(A, w, 0, k) <=> Reads(A, SubSeq(w, 1, k))
             /\ Spells(B, w, k, Len(w)) <=> Reads(B, SubSeq(w, k + 1, Len(w)))
  <2>1. PICK l \in Nat : l = Len(w)
    BY <1>1
  <2>2. 0 <= k /\ k <= l /\ 0 + 1 = 1 /\ k \in Nat /\ l \in Places(w)
    BY <1>1, <2>1
  <2>3. Spells(A, w, 0, k) <=> Accepts(Silenced(A), SubSeq(w, 0 + 1, k))
    BY <1>1, <2>2, SpelledIsAccepted
  <2>4. Spells(B, w, k, l) <=> Accepts(Silenced(B), SubSeq(w, k + 1, l))
    BY <1>1, <2>2, SpelledIsAccepted
  <2>5. QED
    BY <2>1, <2>2, <2>3, <2>4 DEF Reads
<1>3. QED
  BY <1>1, <1>2 DEF SpellsBoth, ReadsBoth

LEMMA PowerIsRead ==
  ASSUME NEW A, IsNfa(A), EPSILON \in Nat, NEW w, IsWord(w), NEW N \in Nat
  PROVE  SpellsPower(A, N, w, 0, Len(w)) <=> ReadsPower(A, N, w)
<1>1. Places(w) = 0 .. Len(w)
  BY DEF Places
<1>2. ASSUME NEW c \in [0 .. N -> Places(w)], \A x, y \in 0 .. N : x <= y => c[x] <= c[y],
             NEW x \in 1 .. N
      PROVE  Spells(A, w, c[x - 1], c[x]) <=> Reads(A, SubSeq(w, c[x - 1] + 1, c[x]))
  <2>1. x - 1 \in 0 .. N /\ x \in 0 .. N /\ x - 1 <= x
    OBVIOUS
  <2>2. PICK j : j = c[x - 1]
    OBVIOUS
  <2>3. PICK l : l = c[x]
    OBVIOUS
  <2>4. j \in Places(w) /\ l \in Places(w) /\ j <= l
    BY <1>2, <2>1, <2>2, <2>3
  <2>5. Spells(A, w, j, l) <=> Accepts(Silenced(A), SubSeq(w, j + 1, l))
    BY <2>4, SpelledIsAccepted
  <2>6. QED
    BY <2>2, <2>3, <2>5 DEF Reads
<1>3. ASSUME SpellsPower(A, N, w, 0, Len(w)) PROVE ReadsPower(A, N, w)
  <2>1. PICK c : IsCut(A, N, w, 0, Len(w), c)
    BY <1>3 DEF SpellsPower
  <2>2. /\ c \in [0 .. N -> Places(w)] /\ c[0] = 0 /\ c[N] = Len(w)
        /\ \A x, y \in 0 .. N : x <= y => c[x] <= c[y]
        /\ \A x \in 1 .. N : Spells(A, w, c[x - 1], c[x])
    BY <2>1 DEF IsCut
  <2>3. \A x \in 1 .. N : Reads(A, SubSeq(w, c[x - 1] + 1, c[x]))
    BY <1>2, <2>2
  <2>4. QED
    BY <1>1, <2>2, <2>3 DEF ReadsPower
<1>4. ASSUME ReadsPower(A, N, w) PROVE SpellsPower(A, N, w, 0, Len(w))
  <2>1. PICK c \in [0 .. N -> 0 .. Len(w)] :
          /\ c[0] = 0 /\ c[N] = Len(w) /\ \A x, y \in 0 .. N : x <= y => c[x] <= c[y]
          /\ \A x \in 1 .. N : Reads(A, SubSeq(w, c[x - 1] + 1, c[x]))
    BY <1>4 DEF ReadsPower
  <2>2. c \in [0 .. N -> Places(w)]
    BY <1>1, <2>1
  <2>3. \A x \in 1 .. N : Spells(A, w, c[x - 1], c[x])
    BY <1>2, <2>1, <2>2
  <2>4. IsCut(A, N, w, 0, Len(w), c)
    BY <2>1, <2>2, <2>3 DEF IsCut
  <2>5. QED
    BY <2>4 DEF SpellsPower
<1>5. QED
  BY <1>3, <1>4

LEMMA RightWords ==
  ASSUME CombineInv
  PROVE  CombinedWords
<1> SUFFICES ASSUME at = "done", NEW w \in Seq(Nat)
             PROVE  ReadsAsMeant(job, objects["result"], w)
  BY DEF CombinedWords
<1>1. job \in Jobs /\ AtEnd
  BY DoneIsAtEnd
<1>2. PICK X : X = objects["result"]
  OBVIOUS
<1>3. PICK k : k = job
  OBVIOUS
<1>4. /\ k.op \in Operations /\ k.power \in Nat /\ IsNfa(k.lhs) /\ IsNfa(k.rhs) /\ EPSILON \in Nat
      /\ IsNfa(X) /\ Meant(k, X)
  BY <1>1, <1>2, <1>3, JobFacts DEF AtEnd, nfa
<1>5. IsWord(w) /\ 0 \in Places(w) /\ Len(w) \in Places(w)
  BY WordPlaces DEF IsWord
<1>6. \A A : IsNfa(A) => (Spells(A, w, 0, Len(w)) <=> Reads(A, w))
  BY <1>4, <1>5, AcceptedIsSpelled DEF Reads
<1>7. ASSUME k.op \in {"concatenate", "concatenate_eps"}
      PROVE  Reads(X, w) <=> ReadsBoth(k.lhs, k.rhs, w)
  <2>1. IsProductOf(X, k.lhs, k.rhs)
    BY <1>4, <1>7 DEF Meant
  <2>2. Spells(X, w, 0, Len(w)) <=> SpellsBoth(k.lhs, k.rhs, w, 0, Len(w))
    BY <1>5, <2>1 DEF IsProductOf
  <2>3. QED
    BY <1>4, <1>5, <1>6, <2>2, BothAreRead
<1>8. ASSUME k.op = "concatenate itself"
      PROVE  Reads(X, w) <=> ReadsBoth(k.lhs, k.lhs, w)
  <2>1. IsProductOf(X, k.lhs, k.lhs)
    BY <1>4, <1>8 DEF Meant
  <2>2. Spells(X, w, 0, Len(w)) <=> SpellsBoth(k.lhs, k.lhs, w, 0, Len(w))
    BY <1>5, <2>1 DEF IsProductOf
  <2>3. QED
    BY <1>4, <1>5, <1>6, <2>2, BothAreRead
<1>9. ASSUME k.op = "power"
      PROVE  Reads(X, w) <=> ReadsPower(k.lhs, k.power, w)
  <2>1. IsPowerOf(X, k.lhs, k.power)
    BY <1>4, <1>9 DEF Meant
  <2>2. Spells(X, w, 0, Len(w)) <=> SpellsPower(k.lhs, k.power, w, 0, Len(w))
    BY <1>5, <2>1 DEF IsPowerOf
  <2>3. QED
    BY <1>4, <1>5, <1>6, <2>2, PowerIsRead
<1>10. ASSUME k.op \in {"remove_epsilon", "given", "unite itself"}
       PROVE  Reads(X, w) <=> Reads(k.lhs, w)
  <2>1. IsSameAs(X, k.lhs)
    BY <1>4, <1>10 DEF Meant
  <2>2. QED
    BY <1>4, <1>5, <1>6, <2>1 DEF IsSameAs
<1>11. ASSUME k.op = "unite"
       PROVE  Reads(X, w) <=> Reads(k.lhs, w) \/ Reads(k.rhs, w)
  <2>1. IsUnionOf(X, k.lhs, k.rhs)
    BY <1>4, <1>11 DEF Meant
  <2>2. QED
    BY <1>4, <1>5, <1>6, <2>1 DEF IsUnionOf
<1>12. ReadsAsMeant(k, X, w)
  BY <1>4, <1>7, <1>8, <1>9, <1>10, <1>11 DEF ReadsAsMeant, Operations
<1>13. QED
  BY <1>2, <1>3, <1>12

(* A word of any length is accepted by the result exactly if it is cut into *)
(* words of the arguments, as many as the operation joins, or is a word of  *)
(* one of them: concatenate, also of an object with itself, the n-th power, *)
(* concatenate_eps, remove_epsilon and unite_nondet_with.                   *)
THEOREM CombinedWordsAreAlwaysRight == CombineSpec => []CombinedWords
<1>1. CombineInv => CombinedWords
  BY RightWords
<1>2. QED
  BY <1>1, CombineIsRight, PTL

==============================================================================
