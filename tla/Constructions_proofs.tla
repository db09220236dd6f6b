------------------------- MODULE Constructions_proofs -------------------------
(***************************************************************************)
(* Proofs about SyncIterators, for any number of ordered vectors of any    *)
(* length, and about NaiveInclusion: the subset construction, the product  *)
(* that walks with those iterators, and the complement, for any automata.  *)
(***************************************************************************)
EXTENDS SyncIterators, NaiveInclusion, Automata_proofs

(***************************************************************************)
(* What of a vector lies before and behind a position.                     *)
(***************************************************************************)
PassedIn(v, p) == {v[n] : n \in 1 .. p - 1}
AheadIn(v, p) == {v[n] : n \in p .. Len(v)}

(* Moving over one element adds it to what was passed.                      *)
LEMMA PassOne ==
  ASSUME NEW v \in Seq(Nat), Ascends(v), NEW p \in 1 .. Len(v)
  PROVE  /\ PassedIn(v, p + 1) = PassedIn(v, p) \cup {v[p]}
         /\ AheadIn(v, p + 1) \subseteq AheadIn(v, p) /\ v[p] \in AheadIn(v, p)
         /\ \A w \in AheadIn(v, p) : v[p] <= w /\ (w = v[p] \/ w \in AheadIn(v, p + 1))
         /\ \A w \in AheadIn(v, p + 1) : v[p] < w
         /\ v[p] \in Nat /\ v[p] \in ToSet(v) /\ p + 1 \in 1 .. Len(v) + 1
<1>1. /\ \A n : n \in 1 .. (p + 1) - 1 <=> n \in 1 .. p - 1 \/ n = p
      /\ \A n : n \in p .. Len(v) <=> n \in p + 1 .. Len(v) \/ n = p
  OBVIOUS
<1>2. PassedIn(v, p + 1) = PassedIn(v, p) \cup {v[p]}
  <2>1. \A w : w \in PassedIn(v, p + 1) <=> \E n \in 1 .. (p + 1) - 1 : w = v[n]
    BY DEF PassedIn
  <2>2. \A w : w \in PassedIn(v, p) <=> \E n \in 1 .. p - 1 : w = v[n]
    BY DEF PassedIn
  <2>3. QED
    BY <1>1, <2>1, <2>2
<1>3. AheadIn(v, p + 1) \subseteq AheadIn(v, p) /\ v[p] \in AheadIn(v, p)
  BY <1>1 DEF AheadIn
<1>4. v[p] \in Nat /\ v[p] \in ToSet(v)
  BY ElementOfSeq DEF ToSet
<1>5. ASSUME NEW w \in AheadIn(v, p + 1) PROVE v[p] < w
  <2>1. PICK n \in p + 1 .. Len(v) : w = v[n]
    BY DEF AheadIn
  <2>2. n \in 1 .. Len(v) /\ p < n
    OBVIOUS
  <2>3. QED
    BY <2>1, <2>2 DEF Ascends
<1>6. ASSUME NEW w \in AheadIn(v, p)
      PROVE  v[p] <= w /\ (w = v[p] \/ w \in AheadIn(v, p + 1))
  <2>1. PICK n \in p .. Len(v) : w = v[n]
    BY DEF AheadIn
  <2>2. CASE n = p
    BY <1>4, <2>1, <2>2
  <2>3. CASE n # p
    <3>1. w \in AheadIn(v, p + 1)
      BY <1>1, <2>1, <2>3 DEF AheadIn
    <3>2. w \in Nat /\ v[p] < w
      BY <1>5, <2>1, <3>1, ElementOfSeq
    <3>3. QED
      BY <1>4, <3>1, <3>2
  <2>4. QED
    BY <2>2, <2>3
<1>7. QED
  BY <1>2, <1>3, <1>4, <1>5, <1>6

(* Of an ordered vector, each value is passed or ahead.                     *)
LEMMA PassedOrAhead ==
  ASSUME NEW v \in Seq(Nat), NEW p \in 1 .. Len(v) + 1
  PROVE  /\ ToSet(v) = PassedIn(v, p) \cup AheadIn(v, p)
         /\ ToSet(v) \subseteq Nat
         /\ p > Len(v) => AheadIn(v, p) = {}
         /\ p = 1 => PassedIn(v, p) = {}
<1>1. \A n : n \in 1 .. Len(v) <=> n \in 1 .. p - 1 \/ n \in p .. Len(v)
  OBVIOUS
<1>2. ToSet(v) \subseteq Nat
  BY ElementOfSeq DEF ToSet
<1>3. ToSet(v) = PassedIn(v, p) \cup AheadIn(v, p)
  <2>1. \A w : w \in ToSet(v) <=> \E n \in 1 .. Len(v) : w = v[n]
    BY DEF ToSet
  <2>2. \A w : w \in PassedIn(v, p) <=> \E n \in 1 .. p - 1 : w = v[n]
    BY DEF PassedIn
  <2>3. \A w : w \in AheadIn(v, p) <=> \E n \in p .. Len(v) : w = v[n]
    BY DEF AheadIn
  <2>4. QED
    BY <1>1, <2>1, <2>2, <2>3
<1>4. QED
  BY <1>2, <1>3 DEF AheadIn, PassedIn

(* What is found grows at its end.                                          *)
LEMMA FoundGrows ==
  ASSUME NEW s \in Seq(Nat), Ascends(s), NEW x \in Nat, \A w \in ToSet(s) : w < x,
         NEW t, t = Append(s, x)
  PROVE  /\ t \in Seq(Nat) /\ Ascends(t) /\ t # << >> /\ Last(t) = x
         /\ Len(t) = Len(s) + 1 /\ t[Len(s) + 1] = x
         /\ \A n \in 1 .. Len(s) : t[n] = s[n]
         /\ ToSet(t) = ToSet(s) \cup {x}
<1>1. PICK k \in Nat : k = Len(s)
  OBVIOUS
<1>2. /\ t \in Seq(Nat) /\ Len(t) = k + 1 /\ t[k + 1] = x
      /\ \A n \in 1 .. k : t[n] = s[n]
  BY <1>1, AppendProperties
<1>3. \A n : n \in 1 .. k + 1 <=> n \in 1 .. k \/ n = k + 1
  OBVIOUS
<1>4. ToSet(t) = ToSet(s) \cup {x}
  <2>1. \A w : w \in ToSet(t) <=> \E n \in 1 .. k + 1 : w = t[n]
    BY <1>2 DEF ToSet
  <2>2. \A w : w \in ToSet(s) <=> \E n \in 1 .. k : w = s[n]
    BY <1>1 DEF ToSet
  <2>3. QED
    BY <1>2, <1>3, <2>1, <2>2
<1>5. Ascends(t)
  <2>1. SUFFICES ASSUME NEW m \in 1 .. k + 1, NEW n \in 1 .. k + 1, m < n PROVE t[m] < t[n]
    BY <1>2 DEF Ascends
  <2>2. m \in 1 .. k
    BY <2>1
  <2>3. CASE n = k + 1
    BY <1>1, <1>2, <2>2, <2>3 DEF ToSet
  <2>4. CASE n # k + 1
    <3>1. n \in 1 .. k
      BY <2>4
    <3>2. QED
      BY <1>1, <1>2, <2>1, <2>2, <3>1 DEF Ascends
  <2>5. QED
    BY <2>3, <2>4
<1>6. t # << >> /\ Last(t) = x
  BY <1>2 DEF Last
<1>7. QED
  BY <1>1, <1>2, <1>4, <1>5, <1>6

(* The last vector takes the place of the one that is dropped.              *)
WithoutOne(s, j) == Front(IF j = Len(s) THEN s ELSE [s EXCEPT ![j] = Last(s)])

IsWithoutOne(t, s, j) ==
  /\ Len(t) = Len(s) - 1
  /\ \A k \in 1 .. Len(s) - 1 : t[k] = s[IF k = j THEN Len(s) ELSE k]

(* A sequence without one of its elements.                                  *)
LEMMA DropOne ==
  ASSUME NEW D, NEW s \in Seq(D), NEW j \in 1 .. Len(s), NEW t,
         t = WithoutOne(s, j)
  PROVE  t \in Seq(D) /\ IsWithoutOne(t, s, j)
<1> USE DEF WithoutOne, IsWithoutOne
<1>1. PICK u : u = IF j = Len(s) THEN s ELSE [s EXCEPT ![j] = Last(s)]
  OBVIOUS
<1>2. Last(s) \in D /\ Last(s) = s[Len(s)]
  BY ElementOfSeq DEF Last
<1>3. /\ u \in Seq(D) /\ Len(u) = Len(s)
      /\ \A k \in 1 .. Len(s) - 1 : u[k] = s[IF k = j THEN Len(s) ELSE k]
  <2>1. CASE j = Len(s)
    BY <1>1, <2>1
  <2>2. CASE j # Len(s)
    <3>1. u = [s EXCEPT ![j] = Last(s)]
      BY <1>1, <2>2
    <3>2. u \in Seq(D) /\ Len(u) = Len(s) /\ \A k \in 1 .. Len(s) : u[k] = IF k = j THEN Last(s) ELSE s[k]
      BY <1>2, <3>1, ExceptSeq
    <3>3. QED
      BY <1>2, <3>2
  <2>3. QED
    BY <2>1, <2>2
<1>4. t = SubSeq(u, 1, Len(u) - 1)
  BY <1>1 DEF Front
<1>5. Len(s) - 1 \in Nat /\ Len(s) \in Nat
  BY LenProperties
<1>6. PICK k \in Nat : k = Len(s) - 1 /\ k = Len(u) - 1
  <2>1. Len(s) - 1 = Len(u) - 1
    BY <1>3
  <2>2. QED
    BY <1>5, <2>1
<1>7. \A n \in 1 .. k : u[n] \in D
  BY <1>3, <1>6, ElementOfSeq
<1>8. /\ SubSeq(u, 1, k) \in Seq(D)
      /\ Len(SubSeq(u, 1, k)) = k
      /\ \A n \in 1 .. k : SubSeq(u, 1, k)[n] = u[n]
  <2>1. 1 \in Int /\ k \in Int
    OBVIOUS
  <2>2. /\ SubSeq(u, 1, k) \in Seq(D)
        /\ Len(SubSeq(u, 1, k)) = IF 1 <= k THEN k - 1 + 1 ELSE 0
        /\ \A n \in 1 .. k - 1 + 1 : SubSeq(u, 1, k)[n] = u[1 + n - 1]
    BY <1>7, <2>1, SubSeqProperties
  <2>3. (IF 1 <= k THEN k - 1 + 1 ELSE 0) = k /\ k - 1 + 1 = k
    OBVIOUS
  <2>4. \A n \in 1 .. k : 1 + n - 1 = n
    OBVIOUS
  <2>5. QED
    BY <2>2, <2>3, <2>4
<1>9. /\ t \in Seq(D) /\ Len(t) = k
      /\ \A n \in 1 .. k : t[n] = u[n]
  <2>1. t = SubSeq(u, 1, k)
    BY <1>4, <1>6
  <2>2. QED
    BY <1>6, <1>8, <2>1
<1>10. QED
  <2>1. \A n \in 1 .. k : t[n] = s[IF n = j THEN Len(s) ELSE n]
    <3>1. \A n \in 1 .. k : u[n] = s[IF n = j THEN Len(s) ELSE n]
      <4>1. k = Len(s) - 1
        BY <1>6
      <4>2. QED
        BY ONLY <1>3, <4>1
    <3>2. QED
      BY <1>9, <3>1
  <2>2. QED
    BY <1>6, <1>9, <2>1

OneToOne(s) == \A m, n \in 1 .. Len(s) : s[m] = s[n] => m = n

IsOneLonger(t, s, x) ==
  /\ Len(t) = Len(s) + 1 /\ t[Len(s) + 1] = x
  /\ \A n \in 1 .. Len(s) : t[n] = s[n]
  /\ \A n \in 1 .. Len(t) : n = Len(s) + 1 \/ n \in 1 .. Len(s)
  /\ ToSet(t) = ToSet(s) \cup {x}
  /\ OneToOne(s) /\ x \notin ToSet(s) => OneToOne(t)

(* A sequence with one more element.                                        *)
LEMMA AppendOne ==
  ASSUME NEW D, NEW s \in Seq(D), NEW x \in D, NEW t, t = Append(s, x)
  PROVE  t \in Seq(D) /\ IsOneLonger(t, s, x)
<1> USE DEF IsOneLonger
<1>1. PICK k \in Nat : k = Len(s)
  BY LenProperties
<1>2. /\ t \in Seq(D) /\ Len(t) = k + 1 /\ t[k + 1] = x
      /\ \A n \in 1 .. k : t[n] = s[n]
  BY <1>1, AppendProperties
<1>3. \A n : n \in 1 .. k + 1 <=> n \in 1 .. k \/ n = k + 1
  OBVIOUS
<1>4. /\ \A w : w \in ToSet(s) <=> \E n \in 1 .. k : w = s[n]
      /\ \A w : w \in ToSet(t) <=> \E n \in 1 .. k + 1 : w = t[n]
  BY <1>1, <1>2, LenProperties DEF ToSet
<1>5. ToSet(t) = ToSet(s) \cup {x}
  BY <1>2, <1>3, <1>4
<1>6. OneToOne(s) /\ x \notin ToSet(s) => OneToOne(t)
  <2>1. SUFFICES ASSUME OneToOne(s), x \notin ToSet(s) PROVE OneToOne(t)
    OBVIOUS
  <2>2. \A n \in 1 .. k : s[n] # x
    BY <1>4, <2>1
  <2>3. \A m, n \in 1 .. k : s[m] = s[n] => m = n
    BY <1>1, <2>1 DEF OneToOne
  <2>4. QED
    BY <1>2, <1>3, <2>2, <2>3 DEF OneToOne
<1>7. QED
  BY <1>1, <1>2, <1>3, <1>5, <1>6

(* Leaving one out keeps a sequence free of repetitions.                    *)
LEMMA DropOneToOne ==
  ASSUME NEW D, NEW s \in Seq(D), OneToOne(s), NEW j \in 1 .. Len(s), NEW t,
         t = WithoutOne(s, j)
  PROVE  OneToOne(t) /\ ToSet(t) = ToSet(s) \ {s[j]}
<1>1. PICK l \in Nat : l = Len(s)
  BY LenProperties
<1>2. /\ t \in Seq(D) /\ Len(t) = l - 1
      /\ \A k \in 1 .. l - 1 : t[k] = s[IF k = j THEN l ELSE k]
  <2>1. t \in Seq(D) /\ IsWithoutOne(t, s, j)
    BY DropOne
  <2>2. QED
    BY <1>1, <2>1 DEF IsWithoutOne
<1>3. \A m, n \in 1 .. l : s[m] = s[n] => m = n
  BY <1>1 DEF OneToOne
<1>4. \A k \in 1 .. l - 1 : (IF k = j THEN l ELSE k) \in 1 .. l /\ (IF k = j THEN l ELSE k) # j
  BY <1>1
<1>5. OneToOne(t)
  <2>1. SUFFICES ASSUME NEW m \in 1 .. l - 1, NEW n \in 1 .. l - 1, t[m] = t[n] PROVE m = n
    BY <1>2 DEF OneToOne
  <2>2. (IF m = j THEN l ELSE m) = (IF n = j THEN l ELSE n)
    BY <1>2, <1>3, <1>4, <2>1
  <2>3. QED
    BY <2>2
<1>6. /\ \A w : w \in ToSet(s) <=> \E n \in 1 .. l : w = s[n]
      /\ \A w : w \in ToSet(t) <=> \E n \in 1 .. l - 1 : w = t[n]
  BY <1>1, <1>2, LenProperties DEF ToSet
<1>7. ToSet(t) \subseteq ToSet(s) \ {s[j]}
  <2>1. ASSUME NEW k \in 1 .. l - 1 PROVE t[k] \in ToSet(s) /\ t[k] # s[j]
    <3>1. t[k] = s[IF k = j THEN l ELSE k]
      BY <1>2
    <3>2. QED
      BY <1>1, <1>3, <1>4, <1>6, <3>1
  <2>2. \A w \in ToSet(t) : \E k \in 1 .. l - 1 : w = t[k]
    BY <1>6
  <2>3. QED
    BY <2>1, <2>2
<1>8. ToSet(s) \ {s[j]} \subseteq ToSet(t)
  <2>1. SUFFICES ASSUME NEW k \in 1 .. l, s[k] # s[j] PROVE s[k] \in ToSet(t)
    BY <1>6
  <2>2. CASE k = l
    <3>1. j \in 1 .. l - 1
      BY <1>1, <2>1, <2>2
    <3>2. t[j] = s[k]
      BY <1>2, <2>2, <3>1
    <3>3. QED
      BY <1>6, <3>1, <3>2
  <2>3. CASE k # l
    <3>1. k \in 1 .. l - 1 /\ k # j
      BY <2>1, <2>3
    <3>2. t[k] = s[k]
      BY <1>2, <3>1
    <3>3. QED
      BY <1>6, <3>1, <3>2
  <2>4. QED
    BY <2>2, <2>3
<1>9. QED
  BY <1>5, <1>7, <1>8

------------------------------------------------------------------------------
(***************************************************************************)
(* The inductive invariant.                                                *)
(***************************************************************************)
PassedBy(k) == PassedIn(vectors[k], position[k])
AheadOf(k) == AheadIn(vectors[k], position[k])

(* Both iterators.                                                          *)
WalkTypes ==
  /\ input \in Inputs
  /\ vectors \in Seq(Seq(Nat)) /\ position \in Seq(Nat) /\ Len(position) = Len(vectors)
  /\ \A k \in 1 .. Len(vectors) :
       Ascends(vectors[k]) /\ position[k] \in 1 .. Len(vectors[k]) + 1
  /\ currently_synchronized \in Seq(Seq(Nat))
  /\ i \in Nat /\ result \in BOOLEAN /\ synchronized \in BOOLEAN
  /\ found \in Seq(Nat) /\ Ascends(found)
  /\ pushed \in 0 .. Len(input.vectors)
  /\ ~AllPushed => at = "idle" /\ result /\ found = << >> /\ currently_synchronized = << >>

(* Universal: the values of all vectors that were passed are found.         *)
Together ==
  /\ Len(vectors) = pushed
  /\ \A k \in 1 .. Len(vectors) : vectors[k] = input.vectors[k]
  /\ ToSet(found) \subseteq InAll

PassedFound == \A k \in 1 .. Len(vectors) : \A v \in PassedBy(k) : v \in InAll => v \in ToSet(found)

FoundBehind == \A k \in 1 .. Len(vectors) : \A v \in AheadOf(k) : \A w \in ToSet(found) : w <= v

StandsOnFound ==
  IF synchronized
    THEN at = "idle" /\ found # << >>
         /\ \A k \in 1 .. Len(vectors) : ~Ended(k) /\ Value(k) = Last(found)
    ELSE vectors # << >> => \A v \in AheadOf(1) : \A w \in ToSet(found) : w < v

SomeEnded == at = "idle" /\ ~result => vectors = << >> \/ \E k \in 1 .. Len(vectors) : Ended(k)

InFor ==
  at = "for" => /\ i \in 2 .. Len(vectors) + 1
                /\ \A k \in 1 .. i - 1 : ~Ended(k) /\ Value(k) = Value(1)

InWhile ==
  at = "while" => /\ i \in 2 .. Len(vectors)
                  /\ ~Ended(i) /\ \A k \in 1 .. i - 1 : ~Ended(k)
                  /\ \/ Value(i) > Value(1)
                     \/ \A k \in 1 .. i - 1 : Value(k) = Value(1)

UniversalInv ==
  /\ at \in {"idle", "for", "while"}
  /\ Together /\ PassedFound /\ FoundBehind /\ StandsOnFound
  /\ SomeEnded /\ InFor /\ InWhile

(***************************************************************************)
(* Facts that hold throughout.                                             *)
(***************************************************************************)
LEMMA GivenFacts ==
  ASSUME input \in Inputs
  PROVE  /\ kind \in {"universal", "existential", "synchronize_with"}
         /\ input.vectors \in Seq(Seq(Nat)) /\ Len(input.vectors) \in Nat
         /\ \A k \in Indices : /\ input.vectors[k] \in Seq(Nat) /\ Ascends(input.vectors[k])
                               /\ Held(k) \subseteq Nat
         /\ InAny \subseteq Nat /\ InAll \subseteq InAny
         /\ kind = "universal" => Len(input.vectors) <= 2 \/ input.memory = "above"
<1>1. /\ kind \in {"universal", "existential", "synchronize_with"}
      /\ input.vectors \in Seq(Seq(Nat))
      /\ \A k \in Indices : Ascends(input.vectors[k])
      /\ kind = "universal" => Len(input.vectors) <= 2 \/ input.memory = "above"
  BY InputsAssumption DEF kind, Indices
<1>2. ASSUME NEW k \in Indices
      PROVE  input.vectors[k] \in Seq(Nat) /\ Held(k) \subseteq Nat
  <2>1. input.vectors[k] \in Seq(Nat)
    BY <1>1, ElementOfSeq DEF Indices
  <2>2. QED
    BY <2>1, ElementOfSeq DEF Held, ToSet
<1>3. InAny \subseteq Nat /\ InAll \subseteq InAny
  BY <1>2 DEF InAny, InAll
<1>4. QED
  BY <1>1, <1>2, <1>3, LenProperties

(* What lies ahead of a position is not below where it stands.              *)
LEMMA StandingFacts ==
  ASSUME WalkTypes, NEW k \in 1 .. Len(vectors)
  PROVE  /\ vectors[k] \in Seq(Nat) /\ Ascends(vectors[k])
         /\ Len(vectors) \in Nat /\ Len(vectors[k]) \in Nat
         /\ position[k] \in 1 .. Len(vectors[k]) + 1 /\ position[k] \in Nat
         /\ ToSet(vectors[k]) = PassedBy(k) \cup AheadOf(k) /\ ToSet(vectors[k]) \subseteq Nat
         /\ Ended(k) => AheadOf(k) = {}
         /\ ~Ended(k) => /\ position[k] \in 1 .. Len(vectors[k])
                         /\ Value(k) \in AheadOf(k) /\ Value(k) \in Nat
                         /\ \A v \in AheadOf(k) : Value(k) <= v
<1>1. /\ vectors[k] \in Seq(Nat) /\ Ascends(vectors[k])
      /\ position[k] \in 1 .. Len(vectors[k]) + 1 /\ Len(vectors) \in Nat
  BY ElementOfSeq, LenProperties DEF WalkTypes
<1>2. Len(vectors[k]) \in Nat
  BY <1>1, LenProperties
<1>3. position[k] \in Nat /\ (~Ended(k) => position[k] \in 1 .. Len(vectors[k]))
  BY <1>1, <1>2 DEF Ended
<1>4. /\ ToSet(vectors[k]) = PassedBy(k) \cup AheadOf(k) /\ ToSet(vectors[k]) \subseteq Nat
      /\ Ended(k) => AheadOf(k) = {}
  BY <1>1, PassedOrAhead DEF PassedBy, AheadOf, Ended
<1>5. ASSUME ~Ended(k)
      PROVE  /\ Value(k) \in AheadOf(k) /\ Value(k) \in Nat
             /\ \A v \in AheadOf(k) : Value(k) <= v
  BY <1>1, <1>3, <1>5, PassOne DEF AheadOf, Value
<1>6. QED
  BY <1>1, <1>2, <1>3, <1>4, <1>5

(* One vector moves on, the others stay.                                    *)
MovesOn(k) ==
  /\ vectors' = vectors
  /\ position' = [position EXCEPT ![k] = position[k] + 1]

LEMMA OneChanged ==
  ASSUME NEW s \in Seq(Nat), NEW k \in 1 .. Len(s), NEW v \in Nat,
         NEW t, t = [s EXCEPT ![k] = v]
  PROVE  /\ t \in Seq(Nat) /\ Len(t) = Len(s)
         /\ \A m \in 1 .. Len(s) : t[m] = IF m = k THEN v ELSE s[m]
BY ExceptSeq

(* What a move of one position over one element changes.                    *)
LEMMA MovedOn ==
  ASSUME WalkTypes, NEW k \in 1 .. Len(vectors), ~Ended(k), MovesOn(k)
  PROVE  /\ position' \in Seq(Nat) /\ Len(position') = Len(vectors)
         /\ \A m \in 1 .. Len(vectors) : position'[m] \in 1 .. Len(vectors[m]) + 1
         /\ \A m \in 1 .. Len(vectors) : position'[m] = IF m = k THEN position[k] + 1
                                                                  ELSE position[m]
         /\ PassedBy(k)' = PassedBy(k) \cup {Value(k)}
         /\ AheadOf(k)' \subseteq AheadOf(k)
         /\ \A v \in AheadOf(k) : v = Value(k) \/ v \in AheadOf(k)'
         /\ \A v \in AheadOf(k)' : Value(k) < v
         /\ \A m \in 1 .. Len(vectors) : m # k =>
              /\ PassedBy(m)' = PassedBy(m) /\ AheadOf(m)' = AheadOf(m)
              /\ (Ended(m)' <=> Ended(m)) /\ Value(m)' = Value(m)
         /\ (Ended(k)' <=> position[k] + 1 > Len(vectors[k]))
<1>1. /\ vectors[k] \in Seq(Nat) /\ Ascends(vectors[k])
      /\ position[k] \in 1 .. Len(vectors[k]) /\ position[k] \in Nat
      /\ position[k] + 1 \in Nat /\ position[k] + 1 \in 1 .. Len(vectors[k]) + 1
  BY StandingFacts
<1>2. /\ position \in Seq(Nat) /\ Len(position) = Len(vectors) /\ vectors' = vectors
      /\ position' = [position EXCEPT ![k] = position[k] + 1]
  BY DEF WalkTypes, MovesOn
<1>3. /\ position' \in Seq(Nat) /\ Len(position') = Len(vectors)
      /\ \A m \in 1 .. Len(vectors) : position'[m] = IF m = k THEN position[k] + 1
                                                               ELSE position[m]
  <2>1. PICK s, t, v : s = position /\ t = position' /\ v = position[k] + 1
    OBVIOUS
  <2>2. s \in Seq(Nat) /\ k \in 1 .. Len(s) /\ v \in Nat /\ t = [s EXCEPT ![k] = v]
    BY <1>1, <1>2, <2>1
  <2>3. t \in Seq(Nat) /\ Len(t) = Len(s) /\ \A m \in 1 .. Len(s) : t[m] = IF m = k THEN v ELSE s[m]
    BY <2>2, OneChanged
  <2>4. QED
    BY <1>2, <2>1, <2>3
<1>4. \A m \in 1 .. Len(vectors) : position'[m] \in 1 .. Len(vectors[m]) + 1
  <2>1. \A m \in 1 .. Len(vectors) : position[m] \in 1 .. Len(vectors[m]) + 1
    BY DEF WalkTypes
  <2>2. QED
    BY <1>1, <1>3, <2>1
<1>5. /\ PassedBy(k)' = PassedBy(k) \cup {Value(k)}
      /\ AheadOf(k)' \subseteq AheadOf(k)
      /\ \A v \in AheadOf(k) : v = Value(k) \/ v \in AheadOf(k)'
      /\ \A v \in AheadOf(k)' : Value(k) < v
  <2>1. /\ PassedBy(k)' = PassedIn(vectors[k], position[k] + 1)
        /\ AheadOf(k)' = AheadIn(vectors[k], position[k] + 1)
    BY <1>2, <1>3 DEF PassedBy, AheadOf
  <2>2. QED
    BY <1>1, <2>1, PassOne DEF PassedBy, AheadOf, Value
<1>6. \A m \in 1 .. Len(vectors) : m # k =>
        /\ PassedBy(m)' = PassedBy(m) /\ AheadOf(m)' = AheadOf(m)
        /\ (Ended(m)' <=> Ended(m)) /\ Value(m)' = Value(m)
  BY <1>2, <1>3 DEF PassedBy, AheadOf, Ended, Value
<1>7. (Ended(k)' <=> position[k] + 1 > Len(vectors[k]))
  BY <1>2, <1>3 DEF Ended
<1>8. QED
  BY <1>3, <1>4, <1>5, <1>6, <1>7

(* The universal iterator has all vectors once it is advanced.              *)
LEMMA UniversalFacts ==
  ASSUME WalkTypes, UniversalInv, AllPushed
  PROVE  /\ Indices = 1 .. Len(vectors) /\ Len(vectors) \in Nat
         /\ \A k \in 1 .. Len(vectors) : Held(k) = PassedBy(k) \cup AheadOf(k)
         /\ \A v \in InAll : \A k \in 1 .. Len(vectors) : v \in PassedBy(k) \/ v \in AheadOf(k)
<1>1. Indices = 1 .. Len(vectors) /\ Len(vectors) \in Nat
  BY LenProperties DEF UniversalInv, Together, AllPushed, Indices, WalkTypes
<1>2. \A k \in 1 .. Len(vectors) : Held(k) = PassedBy(k) \cup AheadOf(k)
  BY StandingFacts DEF Held, UniversalInv, Together
<1>3. QED
  BY <1>1, <1>2 DEF InAll

(* A vector passes a value that is found or that not all vectors hold.      *)
LEMMA Passing ==
  ASSUME WalkTypes, UniversalInv, NEW k \in 1 .. Len(vectors), ~Ended(k), MovesOn(k),
         Value(k) \in InAll => Value(k) \in ToSet(found),
         UNCHANGED <<input, pushed, found>>
  PROVE  /\ Together' /\ PassedFound' /\ FoundBehind'
         /\ position' \in Seq(Nat) /\ Len(position') = Len(vectors')
         /\ \A m \in 1 .. Len(vectors') :
              Ascends(vectors[m]') /\ position'[m] \in 1 .. Len(vectors'[m]) + 1
<1>1. vectors' = vectors
  BY DEF MovesOn
<1>2. Together'
  <2>1. InAll' = InAll
    BY DEF InAll, InAny, Indices, Held
  <2>2. QED
    BY <1>1, <2>1 DEF Together, UniversalInv
<1>3. PassedFound' /\ FoundBehind'
  <2>1. InAll' = InAll
    BY DEF InAll, InAny, Indices, Held
  <2>2. ASSUME NEW m \in 1 .. Len(vectors)
        PROVE  /\ AheadOf(m)' \subseteq AheadOf(m)
               /\ \A v \in PassedBy(m)' : v \in InAll => v \in ToSet(found)
    BY MovedOn DEF UniversalInv, PassedFound
  <2>3. PassedFound'
    BY <1>1, <2>1, <2>2 DEF PassedFound
  <2>4. FoundBehind'
    BY <1>1, <2>2 DEF FoundBehind, UniversalInv
  <2>5. QED
    BY <2>3, <2>4
<1>4. QED
  BY <1>1, <1>2, <1>3, MovedOn, StandingFacts

------------------------------------------------------------------------------
(***************************************************************************)
(* The universal iterator: every step keeps what both parts say.           *)
(***************************************************************************)
(* The step of the universal iterator keeps what both parts say.            *)
UniversalStep == WalkTypes' /\ UniversalInv'

(* The types that hold of a step that keeps the vectors.                    *)
LEMMA TypesKept ==
  ASSUME WalkTypes, AllPushed, UNCHANGED <<input, pushed, found>>, vectors' = vectors,
         position' \in Seq(Nat), Len(position') = Len(vectors),
         \A m \in 1 .. Len(vectors) : position'[m] \in 1 .. Len(vectors[m]) + 1,
         currently_synchronized' \in Seq(Seq(Nat)),
         i' \in Nat, result' \in BOOLEAN, synchronized' \in BOOLEAN
  PROVE  WalkTypes'
<1>1. \A m \in 1 .. Len(vectors) : Ascends(vectors'[m])
  BY DEF WalkTypes
<1>2. AllPushed'
  BY DEF AllPushed
<1>3. QED
  BY <1>1, <1>2 DEF WalkTypes

(* The position reaches the wanted value: on to the next one.               *)
LEMMA NextVectorStep ==
  ASSUME WalkTypes, UniversalInv, NextVector
  PROVE  UniversalStep
<1> USE DEF NextVector, AsBefore
<1>1. /\ AllPushed /\ AllPushed' /\ synchronized = FALSE
      /\ i \in 2 .. Len(vectors) + 1
      /\ \A k \in 1 .. i - 1 : ~Ended(k) /\ Value(k) = Value(1)
  BY DEF WalkTypes, UniversalInv, StandsOnFound, InFor, AllPushed
<1>2. Len(vectors) \in Nat /\ i \in Nat /\ Len(vectors) >= 1
  BY <1>1, LenProperties DEF WalkTypes
<1>3. /\ \A k \in 1 .. Len(vectors) : /\ (Ended(k)' <=> Ended(k)) /\ Value(k)' = Value(k)
                                      /\ PassedBy(k)' = PassedBy(k) /\ AheadOf(k)' = AheadOf(k)
      /\ InAll' = InAll
  BY DEF Ended, Value, PassedBy, AheadOf, InAll, InAny, Indices, Held
<1>4. CASE i > Len(vectors)
  <2>1. i = Len(vectors) + 1
    BY <1>1, <1>2, <1>4
  <2>2. \A k \in 1 .. Len(vectors) : ~Ended(k) /\ Value(k) = Value(1) /\ Value(k) \in AheadOf(k)
    BY <1>1, <1>2, <2>1, StandingFacts
  <2>3. Value(1) \in InAll /\ Value(1) \in Nat /\ 1 \in 1 .. Len(vectors)
    <3>1. 1 \in 1 .. Len(vectors)
      BY <1>2
    <3>2. Value(1) \in Nat
      BY <2>2, <3>1, StandingFacts
    <3>3. \A k \in Indices : Value(1) \in Held(k)
      BY <1>1, <2>2, UniversalFacts
    <3>4. 1 \in Indices
      BY <1>1, <3>1, UniversalFacts
    <3>5. QED
      BY <3>1, <3>2, <3>3, <3>4 DEF InAll, InAny
  <2>4. \A w \in ToSet(found) : w < Value(1)
    BY <1>1, <2>2, <2>3 DEF UniversalInv, StandsOnFound
  <2>5. /\ found' \in Seq(Nat) /\ Ascends(found') /\ found' # << >> /\ Last(found') = Value(1)
        /\ ToSet(found') = ToSet(found) \cup {Value(1)}
    <3>1. found' = Append(found, Value(1)) /\ found \in Seq(Nat) /\ Ascends(found)
      BY <1>4 DEF WalkTypes
    <3>2. PICK s : s = found
      OBVIOUS
    <3>3. PICK x : x = Value(1)
      OBVIOUS
    <3>4. PICK t : t = found'
      OBVIOUS
    <3>5. s \in Seq(Nat) /\ Ascends(s) /\ x \in Nat /\ (\A w \in ToSet(s) : w < x) /\ t = Append(s, x)
      BY <2>3, <2>4, <3>1, <3>2, <3>3, <3>4
    <3>6. /\ t \in Seq(Nat) /\ Ascends(t) /\ t # << >> /\ Last(t) = x
          /\ ToSet(t) = ToSet(s) \cup {x}
      BY <3>5, FoundGrows
    <3>7. QED
      BY <3>2, <3>3, <3>4, <3>6
  <2>6. /\ synchronized' = TRUE /\ at' = "idle" /\ result' = TRUE
        /\ UNCHANGED <<input, pushed, vectors, position, i, currently_synchronized>>
    BY <1>4 DEF Return
  <2>7. WalkTypes'
    BY <1>1, <2>5, <2>6 DEF WalkTypes
  <2>8. Together'
    BY <1>3, <2>3, <2>5, <2>6 DEF Together, UniversalInv
  <2>9. PassedFound'
    BY <1>3, <2>5, <2>6 DEF PassedFound, UniversalInv
  <2>10. FoundBehind'
    <3>1. ASSUME NEW k \in 1 .. Len(vectors), NEW v \in AheadOf(k) PROVE Value(1) <= v
      BY <2>2, StandingFacts
    <3>2. QED
      BY <1>3, <2>5, <2>6, <3>1 DEF FoundBehind, UniversalInv
  <2>11. StandsOnFound'
    BY <1>3, <2>2, <2>5, <2>6 DEF StandsOnFound
  <2>12. QED
    BY <2>6, <2>7, <2>8, <2>9, <2>10, <2>11
    DEF UniversalStep, UniversalInv, SomeEnded, InFor, InWhile
<1>5. CASE ~(i > Len(vectors))
  <2>1. i \in 2 .. Len(vectors) /\ i \in 1 .. Len(vectors)
    BY <1>1, <1>2, <1>5
  <2>2. UNCHANGED <<input, pushed, vectors, position, i, synchronized, found, currently_synchronized>>
    BY <1>5
  <2>3. WalkTypes' /\ at' \in {"idle", "while"}
    BY <1>1, <1>5, <2>2 DEF WalkTypes, Return
  <2>4. Together' /\ PassedFound' /\ FoundBehind' /\ StandsOnFound'
    BY <1>1, <1>2, <1>3, <2>2 DEF UniversalInv, Together, PassedFound, FoundBehind, StandsOnFound
  <2>5. SomeEnded' /\ InFor' /\ InWhile'
    <3>1. CASE Ended(i)
      BY <1>3, <1>5, <2>1, <2>2, <3>1 DEF Return, SomeEnded, InFor, InWhile
    <3>2. CASE ~Ended(i)
      <4>1. \A k \in 1 .. i - 1 : k \in 1 .. Len(vectors)
        BY <1>2, <2>1
      <4>2. at' = "while"
        BY <1>5, <3>2
      <4>3. /\ ~Ended(i)' /\ \A k \in 1 .. i - 1 : ~Ended(k)' /\ Value(k)' = Value(1)'
        BY <1>1, <1>2, <1>3, <2>1, <3>2, <4>1
      <4>4. QED
        BY <2>1, <2>2, <4>2, <4>3 DEF SomeEnded, InFor, InWhile
    <3>3. QED
      BY <3>1, <3>2
  <2>6. QED
    BY <2>3, <2>4, <2>5 DEF UniversalStep, UniversalInv
<1>6. QED
  BY <1>4, <1>5

(* The scan of the positions comes to its end.                              *)
LEMMA ReachedStep ==
  ASSUME WalkTypes, UniversalInv, Reached
  PROVE  UniversalStep
<1> USE DEF Reached, AsBefore
<1>1. /\ AllPushed /\ AllPushed' /\ i \in 2 .. Len(vectors) /\ ~Ended(i)
      /\ \A k \in 1 .. i - 1 : ~Ended(k)
      /\ Value(i) > Value(1) \/ \A k \in 1 .. i - 1 : Value(k) = Value(1)
  BY DEF WalkTypes, UniversalInv, InWhile, AllPushed
<1>2. /\ Len(vectors) \in Nat /\ i \in Nat /\ 1 \in 1 .. i - 1 /\ 1 \in 1 .. Len(vectors)
      /\ i \in 1 .. Len(vectors)
  <2>1. Len(vectors) \in Nat
    BY LenProperties DEF WalkTypes
  <2>2. i \in 2 .. Len(vectors)
    BY <1>1
  <2>3. QED
    BY ONLY <2>1, <2>2
<1>3. /\ \A k \in 1 .. Len(vectors) : /\ (Ended(k)' <=> Ended(k)) /\ Value(k)' = Value(k)
                                      /\ PassedBy(k)' = PassedBy(k) /\ AheadOf(k)' = AheadOf(k)
      /\ InAll' = InAll
  BY DEF Ended, Value, PassedBy, AheadOf, InAll, InAny, Indices, Held
<1>4. \A k \in 1 .. i : ~Ended(k) /\ Value(k) = Value(1)
  <2>1. Value(1) \in Nat /\ ~(Value(i) > Value(1))
    BY <1>1, <1>2, StandingFacts
  <2>2. \A k \in 1 .. i : k = i \/ k \in 1 .. i - 1
    BY <1>2
  <2>3. QED
    BY <1>1, <2>1, <2>2
<1>5. WalkTypes'
  <2>1. i' \in Nat
    BY <1>2
  <2>2. QED
    BY <1>1, <2>1, TypesKept DEF WalkTypes
<1>6. Together' /\ PassedFound' /\ FoundBehind' /\ StandsOnFound'
  BY <1>1, <1>2, <1>3 DEF UniversalInv, Together, PassedFound, FoundBehind, StandsOnFound
<1>7. InFor'
  <2>1. i' \in 2 .. Len(vectors) + 1 /\ i' - 1 = i
    BY <1>1, <1>2
  <2>2. \A k \in 1 .. i : k \in 1 .. Len(vectors)
    BY <1>1, <1>2
  <2>3. \A k \in 1 .. i : ~Ended(k)' /\ Value(k)' = Value(1)'
    BY <1>2, <1>3, <1>4, <2>2
  <2>4. QED
    BY <2>1, <2>3 DEF InFor
<1>8. QED
  BY <1>5, <1>6, <1>7 DEF UniversalStep, UniversalInv, SomeEnded, InWhile

(* The walk stays where it is or begins again.                              *)
LEMMA FollowStep ==
  ASSUME WalkTypes, UniversalInv, Follow
  PROVE  UniversalStep
<1> USE DEF AsBefore
<1>1. /\ AllPushed /\ i \in 2 .. Len(vectors) /\ ~Ended(i)
      /\ \A k \in 1 .. i - 1 : ~Ended(k)
      /\ Value(i) > Value(1) \/ \A k \in 1 .. i - 1 : Value(k) = Value(1)
      /\ at = "while" /\ synchronized = FALSE
  BY DEF WalkTypes, UniversalInv, InWhile, AllPushed, Follow, StandsOnFound
<1>2. /\ Len(vectors) \in Nat /\ i \in Nat /\ 1 \in 1 .. i - 1 /\ 1 \in 1 .. Len(vectors)
      /\ i \in 1 .. Len(vectors) /\ i # 1
  <2>1. Len(vectors) \in Nat
    BY LenProperties DEF WalkTypes
  <2>2. i \in 2 .. Len(vectors)
    BY <1>1
  <2>3. QED
    BY ONLY <2>1, <2>2
<1>3. /\ MovesOn(i) /\ UNCHANGED <<input, pushed, found, synchronized, currently_synchronized>>
      /\ \/ at' = "idle" /\ result' = FALSE /\ i' = i /\ position[i] + 1 > Len(vectors[i])
         \/ /\ at' = "for" /\ i' = 2 /\ result' = result
            /\ ~(position[i] + 1 > Len(vectors[i]))
         \/ /\ at' = at /\ i' = i /\ result' = result
            /\ ~(position[i] + 1 > Len(vectors[i]))
  BY DEF Follow, Increment, MovesOn, Return
<1>4. Value(i) < Value(1) /\ Value(1) \in Nat /\ Value(i) \in Nat
  BY <1>1, <1>2, StandingFacts DEF Follow
<1>5. \A k \in 1 .. i - 1 : Value(k) = Value(1)
  BY <1>1, <1>4
<1>6. Value(i) \in InAll => Value(i) \in ToSet(found)
  <2>1. SUFFICES ASSUME Value(i) \in InAll PROVE Value(i) \in ToSet(found)
    OBVIOUS
  <2>2. Value(i) \in PassedBy(1)
    <3>1. Value(i) \in PassedBy(1) \/ Value(i) \in AheadOf(1)
      BY <1>1, <1>2, <2>1, UniversalFacts
    <3>2. \A v \in AheadOf(1) : Value(1) <= v
      BY <1>1, <1>2, StandingFacts
    <3>3. QED
      BY <1>4, <3>1, <3>2
  <2>3. QED
    BY <1>2, <2>1, <2>2 DEF UniversalInv, PassedFound
<1>7. /\ Together' /\ PassedFound' /\ FoundBehind'
      /\ position' \in Seq(Nat) /\ Len(position') = Len(vectors') /\ vectors' = vectors
      /\ \A m \in 1 .. Len(vectors') :
           Ascends(vectors[m]') /\ position'[m] \in 1 .. Len(vectors'[m]) + 1
  BY <1>1, <1>2, <1>3, <1>6, Passing DEF MovesOn
<1>8. WalkTypes'
  <2>1. i' \in Nat /\ result' \in BOOLEAN /\ synchronized' \in BOOLEAN
    <3>1. i' = i \/ i' = 2
      BY <1>3
    <3>2. i' \in Nat
      BY <1>2, <3>1
    <3>3. synchronized' = synchronized /\ (result' = FALSE \/ result' = result)
      BY <1>3
    <3>4. QED
      BY <3>2, <3>3 DEF WalkTypes
  <2>2. QED
    BY <1>1, <1>3, <1>7, <2>1, TypesKept DEF WalkTypes
<1>9. /\ \A m \in 1 .. Len(vectors) : m # i =>
           AheadOf(m)' = AheadOf(m) /\ (Ended(m)' <=> Ended(m)) /\ Value(m)' = Value(m)
      /\ position'[i] = position[i] + 1
  <2>1. PICK k \in 1 .. Len(vectors) : k = i
    BY <1>2
  <2>2. ~Ended(k) /\ MovesOn(k)
    BY <1>1, <1>3, <2>1
  <2>3. /\ \A m \in 1 .. Len(vectors) : m # k =>
             AheadOf(m)' = AheadOf(m) /\ (Ended(m)' <=> Ended(m)) /\ Value(m)' = Value(m)
        /\ position'[k] = position[k] + 1
    BY <2>2, MovedOn
  <2>4. QED
    BY <2>1, <2>3
<1>10. \A k \in 1 .. i - 1 : k \in 1 .. Len(vectors) /\ ~Ended(k)' /\ Value(k)' = Value(1)'
  BY <1>1, <1>2, <1>5, <1>9
<1>11. StandsOnFound'
  BY <1>1, <1>2, <1>3, <1>7, <1>9 DEF StandsOnFound, UniversalInv
<1>12. at' \in {"idle", "for", "while"} /\ SomeEnded' /\ InFor' /\ InWhile'
  <2>1. CASE at' = "idle" /\ result' = FALSE /\ i' = i /\ position[i] + 1 > Len(vectors[i])
    <3>1. position'[i] > Len(vectors'[i])
      BY <1>7, <1>9, <2>1
    <3>2. \E k \in 1 .. Len(vectors') : position'[k] > Len(vectors'[k])
      BY <1>2, <1>7, <3>1
    <3>3. QED
      BY <2>1, <3>2 DEF SomeEnded, InFor, InWhile, Ended
  <2>2. CASE /\ at' = "for" /\ i' = 2 /\ result' = result
             /\ ~(position[i] + 1 > Len(vectors[i]))
    <3>1. ~Ended(1)' /\ (\A k \in 1 .. 2 - 1 : k = 1) /\ 2 \in 2 .. Len(vectors) + 1
      BY <1>2, <1>10
    <3>2. QED
      BY <1>7, <2>2, <3>1 DEF SomeEnded, InFor, InWhile
  <2>3. CASE /\ at' = at /\ i' = i /\ result' = result
             /\ ~(position[i] + 1 > Len(vectors[i]))
    <3>1. ~Ended(i)'
      BY <1>7, <1>9, <2>3 DEF Ended
    <3>2. QED
      BY <1>1, <1>7, <1>10, <2>3, <3>1 DEF SomeEnded, InFor, InWhile
  <2>4. QED
    BY <1>3, <2>1, <2>2, <2>3
<1>13. QED
  BY <1>7, <1>8, <1>11, <1>12 DEF UniversalStep, UniversalInv

(* A position stands beyond the wanted value: it becomes wanted.            *)
LEMMA LeadStep ==
  ASSUME WalkTypes, UniversalInv, kind = "universal", Lead
  PROVE  UniversalStep
<1> USE DEF AsBefore
<1>1. /\ AllPushed /\ i \in 2 .. Len(vectors) /\ ~Ended(i)
      /\ \A k \in 1 .. i - 1 : ~Ended(k)
      /\ at = "while" /\ synchronized = FALSE
  BY DEF WalkTypes, UniversalInv, InWhile, AllPushed, Lead, StandsOnFound
<1>2. /\ Len(vectors) \in Nat /\ i \in Nat /\ 1 \in 1 .. i - 1 /\ 1 \in 1 .. Len(vectors)
      /\ i \in 1 .. Len(vectors) /\ i # 1 /\ ~Ended(1)
  <2>1. Len(vectors) \in Nat
    BY LenProperties DEF WalkTypes
  <2>2. i \in 2 .. Len(vectors)
    BY <1>1
  <2>3. /\ i \in Nat /\ 1 \in 1 .. i - 1 /\ 1 \in 1 .. Len(vectors)
        /\ i \in 1 .. Len(vectors) /\ i # 1
    BY ONLY <2>1, <2>2
  <2>4. QED
    BY <1>1, <2>1, <2>3
<1>3. /\ MovesOn(1) /\ UNCHANGED <<input, pushed, found, synchronized, currently_synchronized>>
      /\ \/ at' = "idle" /\ result' = FALSE /\ i' = i /\ position[1] + 1 > Len(vectors[1])
         \/ /\ at' = "for" /\ i' = 2 /\ result' = result
            /\ ~(position[1] + 1 > Len(vectors[1]))
         \/ /\ at' = at /\ i' = i /\ result' = result
            /\ ~(position[1] + 1 > Len(vectors[1]))
            /\ ~(ValueAfter(1) >= Value(i)) \/ ~IteratorAbove(position')
  BY DEF Lead, Increment, MovesOn, Return
<1>4. Value(i) > Value(1) /\ Value(1) \in Nat /\ Value(i) \in Nat
  BY <1>1, <1>2, StandingFacts DEF Lead
<1>5. Value(1) \in InAll => Value(1) \in ToSet(found)
  <2>1. SUFFICES ASSUME Value(1) \in InAll PROVE Value(1) \in ToSet(found)
    OBVIOUS
  <2>2. Value(1) \in PassedBy(i)
    <3>1. Value(1) \in PassedBy(i) \/ Value(1) \in AheadOf(i)
      BY <1>1, <1>2, <2>1, UniversalFacts
    <3>2. \A v \in AheadOf(i) : Value(i) <= v
      BY <1>1, <1>2, StandingFacts
    <3>3. QED
      BY <1>4, <3>1, <3>2
  <2>3. QED
    BY <1>2, <2>1, <2>2 DEF UniversalInv, PassedFound
<1>6. /\ Together' /\ PassedFound' /\ FoundBehind'
      /\ position' \in Seq(Nat) /\ Len(position') = Len(vectors') /\ vectors' = vectors
      /\ \A m \in 1 .. Len(vectors') :
           Ascends(vectors[m]') /\ position'[m] \in 1 .. Len(vectors'[m]) + 1
  BY <1>1, <1>2, <1>3, <1>5, Passing DEF MovesOn
<1>7. WalkTypes'
  <2>1. i' \in Nat /\ result' \in BOOLEAN /\ synchronized' \in BOOLEAN
    <3>1. i' = i \/ i' = 2
      BY <1>3
    <3>2. i' \in Nat
      BY <1>2, <3>1
    <3>3. synchronized' = synchronized /\ (result' = FALSE \/ result' = result)
      BY <1>3
    <3>4. QED
      BY <3>2, <3>3 DEF WalkTypes
  <2>2. QED
    BY <1>1, <1>3, <1>6, <2>1, TypesKept DEF WalkTypes
<1>8. /\ \A m \in 1 .. Len(vectors) : m # 1 =>
           AheadOf(m)' = AheadOf(m) /\ (Ended(m)' <=> Ended(m)) /\ Value(m)' = Value(m)
      /\ AheadOf(1)' \subseteq AheadOf(1)
      /\ (Ended(1)' <=> position[1] + 1 > Len(vectors[1]))
      /\ position'[1] = position[1] + 1
  BY <1>1, <1>2, <1>3, MovedOn
<1>9. StandsOnFound'
  BY <1>1, <1>2, <1>3, <1>6, <1>8 DEF StandsOnFound, UniversalInv
<1>10. at' \in {"idle", "for", "while"} /\ SomeEnded' /\ InFor' /\ InWhile'
  <2>1. CASE at' = "idle" /\ result' = FALSE /\ i' = i /\ position[1] + 1 > Len(vectors[1])
    BY <1>2, <1>6, <1>8, <2>1 DEF SomeEnded, InFor, InWhile
  <2>2. CASE /\ at' = "for" /\ i' = 2 /\ result' = result
             /\ ~(position[1] + 1 > Len(vectors[1]))
    <3>1. ~Ended(1)' /\ (\A k \in 1 .. 2 - 1 : k = 1) /\ 2 \in 2 .. Len(vectors) + 1
      <4>1. ~Ended(1)'
        BY <1>2, <1>8, <2>2
      <4>2. (\A k \in 1 .. 2 - 1 : k = 1) /\ 2 \in 2 .. Len(vectors) + 1
        BY <1>2
      <4>3. QED
        BY <4>1, <4>2
    <3>2. QED
      BY <1>6, <2>2, <3>1 DEF SomeEnded, InFor, InWhile
  <2>3. CASE /\ at' = at /\ i' = i /\ result' = result
             /\ ~(position[1] + 1 > Len(vectors[1]))
             /\ ~(ValueAfter(1) >= Value(i)) \/ ~IteratorAbove(position')
    <3>1. ~Ended(1)' /\ ~Ended(i)' /\ \A k \in 1 .. i - 1 : ~Ended(k)'
      <4>1. \A k \in 1 .. i - 1 : k \in 1 .. Len(vectors)
        BY <1>1, <1>2
      <4>2. QED
        BY <1>1, <1>2, <1>8, <2>3, <4>1
    <3>2. Value(i)' > Value(1)' \/ \A k \in 1 .. i - 1 : Value(k)' = Value(1)'
      <4>1. CASE ~(ValueAfter(1) >= Value(i))
        <5>1. Value(1)' = ValueAfter(1) /\ Value(i)' = Value(i)
          <6>1. Value(1)' = vectors'[1][position'[1]]
            BY DEF Value
          <6>2. Value(1)' = ValueAfter(1)
            BY <1>6, <1>8, <6>1 DEF ValueAfter
          <6>3. PICK k \in 1 .. Len(vectors) : k = i /\ k # 1
            BY <1>2
          <6>4. Value(k)' = Value(k)
            BY <1>8, <6>3
          <6>5. QED
            BY <2>3, <6>2, <6>3, <6>4
        <5>2. Value(1)' \in Nat
          <6>1. vectors[1] \in Seq(Nat) /\ position[1] \in Nat /\ Len(vectors[1]) \in Nat
            BY <1>2, StandingFacts
          <6>2. position[1] + 1 \in 1 .. Len(vectors[1])
            BY <2>3, <6>1
          <6>3. ValueAfter(1) \in Nat
            BY <6>1, <6>2, ElementOfSeq DEF ValueAfter
          <6>4. QED
            BY <5>1, <6>3
        <5>3. QED
          BY <1>4, <4>1, <5>1, <5>2
      <4>2. CASE ~IteratorAbove(position')
        <5>1. Len(input.vectors) <= 2
          BY <4>2, GivenFacts DEF IteratorAbove, WalkTypes
        <5>2. Len(vectors) <= 2
          BY <1>1, <5>1 DEF AllPushed, UniversalInv, Together
        <5>3. i = 2
          BY <1>1, <1>2, <5>2
        <5>4. QED
          BY <5>3
      <4>3. QED
        BY <2>3, <4>1, <4>2
    <3>3. QED
      BY <1>1, <1>6, <2>3, <3>1, <3>2 DEF SomeEnded, InFor, InWhile
  <2>4. QED
    BY <1>3, <2>1, <2>2, <2>3
<1>11. QED
  BY <1>6, <1>7, <1>9, <1>10 DEF UniversalStep, UniversalInv

(* A call of advance begins.                                                *)
LEMMA BeginUniversalStep ==
  ASSUME WalkTypes, UniversalInv, BeginUniversal
  PROVE  UniversalStep
<1> USE DEF AsBefore
<1>1. /\ AllPushed /\ AllPushed' /\ at = "idle"
      /\ UNCHANGED <<input, pushed, vectors, found, currently_synchronized>>
  BY DEF BeginUniversal, MayCall, AllPushed
<1>2. Len(vectors) \in Nat
  BY LenProperties DEF WalkTypes
<1>3. CASE vectors = << >>
  <2>1. /\ at' = "idle" /\ result' = FALSE /\ UNCHANGED <<position, synchronized, i>>
    BY <1>3 DEF BeginUniversal, Return
  <2>2. WalkTypes'
    BY <1>1, <2>1 DEF WalkTypes
  <2>3. Len(vectors) = 0 /\ \A k : ~(k \in 1 .. Len(vectors))
    BY <1>3
  <2>4. InAll' = InAll /\ vectors' = vectors
    BY <1>1 DEF InAll, InAny, Indices, Held
  <2>5. QED
    BY <1>1, <1>3, <2>1, <2>2, <2>3, <2>4
    DEF UniversalStep, UniversalInv, Together, PassedFound, FoundBehind, StandsOnFound,
        SomeEnded, InFor, InWhile
<1>4. CASE vectors # << >>
  <2>1. 1 \in 1 .. Len(vectors)
    BY <1>2, <1>4, EmptySeq DEF WalkTypes
  <2>2. PICK first : first = IF synchronized THEN position[1] + 1 ELSE position[1]
    OBVIOUS
  <2>3. /\ position' = [position EXCEPT ![1] = first] /\ synchronized' = FALSE
        /\ IF first > Len(vectors[1]) THEN at' = "idle" /\ result' = FALSE /\ i' = i
                                      ELSE at' = "for" /\ i' = 2 /\ result' = result
    BY <1>4, <2>2 DEF BeginUniversal, Return
  <2>4. /\ Together' /\ PassedFound' /\ FoundBehind'
        /\ position' \in Seq(Nat) /\ Len(position') = Len(vectors') /\ vectors' = vectors
        /\ \A m \in 1 .. Len(vectors') :
             Ascends(vectors[m]') /\ position'[m] \in 1 .. Len(vectors'[m]) + 1
        /\ (Ended(1)' <=> first > Len(vectors[1]))
        /\ \A v \in AheadOf(1)' : \A w \in ToSet(found) : w < v
    <3>1. CASE synchronized
      <4>1. ~Ended(1) /\ Value(1) = Last(found) /\ found # << >>
        BY <2>1, <3>1 DEF UniversalInv, StandsOnFound
      <4>2. MovesOn(1)
        BY <1>1, <2>2, <2>3, <3>1 DEF MovesOn
      <4>3. Value(1) \in ToSet(found) /\ \A w \in ToSet(found) : w <= Value(1) /\ w \in Nat
        <5>1. found \in Seq(Nat) /\ Ascends(found)
          BY DEF WalkTypes
        <5>2. Len(found) \in Nat \ {0} /\ Last(found) = found[Len(found)]
          BY <4>1, <5>1, EmptySeq DEF Last
        <5>3. Value(1) \in ToSet(found)
          BY <4>1, <5>2 DEF ToSet
        <5>4. ASSUME NEW w \in ToSet(found) PROVE w <= Value(1) /\ w \in Nat
          <6>1. PICK n \in 1 .. Len(found) : w = found[n]
            BY DEF ToSet
          <6>2. found[n] \in Nat /\ found[Len(found)] \in Nat
            BY <5>1, <5>2, ElementOfSeq
          <6>3. QED
            BY <4>1, <5>1, <5>2, <6>1, <6>2 DEF Ascends
        <5>5. QED
          BY <5>3, <5>4
      <4>4. /\ Together' /\ PassedFound' /\ FoundBehind'
            /\ position' \in Seq(Nat) /\ Len(position') = Len(vectors')
            /\ \A m \in 1 .. Len(vectors') :
                 Ascends(vectors[m]') /\ position'[m] \in 1 .. Len(vectors'[m]) + 1
        BY <1>1, <2>1, <4>1, <4>2, <4>3, Passing
      <4>5. /\ \A v \in AheadOf(1)' : Value(1) < v /\ v \in AheadOf(1)
            /\ (Ended(1)' <=> position[1] + 1 > Len(vectors[1]))
        BY <2>1, <4>1, <4>2, MovedOn
      <4>6. \A v \in AheadOf(1)' : \A w \in ToSet(found) : w < v
        <5>1. Value(1) \in Nat /\ AheadOf(1) \subseteq Nat
          BY <2>1, <4>1, StandingFacts
        <5>2. QED
          BY <4>3, <4>5, <5>1
      <4>7. QED
        BY <1>1, <2>2, <3>1, <4>4, <4>5, <4>6
    <3>2. CASE ~synchronized
      <4>1. position' = position /\ first = position[1]
        <5>1. first = position[1]
          BY <2>2, <3>2
        <5>2. /\ position' \in Seq(Nat) /\ Len(position') = Len(position)
              /\ \A m \in 1 .. Len(position) : position'[m] = position[m]
          <6>1. position \in Seq(Nat) /\ 1 \in 1 .. Len(position) /\ first \in Nat
            BY <2>1, <5>1, StandingFacts DEF WalkTypes
          <6>2. QED
            BY <2>3, <5>1, <6>1, ExceptSeq
        <5>3. position \in Seq(Nat)
          BY DEF WalkTypes
        <5>4. QED
          BY <5>1, <5>2, <5>3, SeqEqual
      <4>2. vectors' = vectors
        BY <1>1
      <4>3. /\ InAll' = InAll /\ found' = found /\ pushed' = pushed /\ input' = input
            /\ \A k \in 1 .. Len(vectors) :
                 PassedBy(k)' = PassedBy(k) /\ AheadOf(k)' = AheadOf(k)
        BY <1>1, <4>1 DEF InAll, InAny, Indices, Held, PassedBy, AheadOf
      <4>4. Together' /\ PassedFound' /\ FoundBehind'
        BY <4>2, <4>3 DEF UniversalInv, Together, PassedFound, FoundBehind
      <4>5. (Ended(1)' <=> first > Len(vectors[1]))
        BY <4>1, <4>2 DEF Ended
      <4>6. \A v \in AheadOf(1)' : \A w \in ToSet(found) : w < v
        BY <1>4, <2>1, <3>2, <4>3 DEF UniversalInv, StandsOnFound
      <4>7. /\ position' \in Seq(Nat) /\ Len(position') = Len(vectors')
            /\ \A m \in 1 .. Len(vectors') :
                 Ascends(vectors[m]') /\ position'[m] \in 1 .. Len(vectors'[m]) + 1
        BY <4>1, <4>2, StandingFacts DEF WalkTypes
      <4>8. QED
        BY <4>2, <4>4, <4>5, <4>6, <4>7
    <3>3. QED
      BY <3>1, <3>2
  <2>5. WalkTypes'
    <3>1. i' \in Nat /\ result' \in BOOLEAN /\ synchronized' \in BOOLEAN
      <4>1. i \in Nat /\ result \in BOOLEAN /\ 2 \in Nat
        BY DEF WalkTypes
      <4>2. CASE first > Len(vectors[1])
        BY <2>3, <4>1, <4>2
      <4>3. CASE ~(first > Len(vectors[1]))
        BY <2>3, <4>1, <4>3
      <4>4. QED
        BY <4>2, <4>3
    <3>2. QED
      BY <1>1, <2>4, <3>1, TypesKept DEF WalkTypes
  <2>6. StandsOnFound'
    BY <1>1, <2>3, <2>4 DEF StandsOnFound
  <2>7. at' \in {"idle", "for", "while"} /\ SomeEnded' /\ InFor' /\ InWhile'
    <3>1. CASE first > Len(vectors[1])
      BY <2>1, <2>3, <2>4, <3>1 DEF SomeEnded, InFor, InWhile
    <3>2. CASE ~(first > Len(vectors[1]))
      <4>1. ~Ended(1)' /\ (\A k \in 1 .. 2 - 1 : k = 1) /\ 2 \in 2 .. Len(vectors) + 1
        <5>1. ~Ended(1)'
          BY <1>2, <2>1, <2>4, <3>2
        <5>2. (\A k \in 1 .. 2 - 1 : k = 1) /\ 2 \in 2 .. Len(vectors) + 1
          BY <1>2, <2>1
        <5>3. QED
          BY <5>1, <5>2
      <4>2. QED
        BY <2>3, <2>4, <3>2, <4>1 DEF SomeEnded, InFor, InWhile
    <3>3. QED
      BY <3>1, <3>2
  <2>8. QED
    BY <2>4, <2>5, <2>6, <2>7 DEF UniversalStep, UniversalInv
<1>5. QED
  BY <1>3, <1>4

------------------------------------------------------------------------------
(***************************************************************************)
(* Existential: o[k] is the index of the k-th of the vectors among those   *)
(* given, c[k] of the k-th that is returned.                               *)
(***************************************************************************)
Dry == vectors = << >> /\ currently_synchronized = << >>
Scanning == at = "scan" /\ ~Dry
Done == ToSet(found) \cup IF Scanning THEN {current_minimum} ELSE {}
Standing(k) == ~Ended(k) /\ Value(k) = current_minimum
Holders(v) == {j \in Indices : v \in Held(j)}
StandingFrom(o) == {o[k] : k \in {m \in i .. Len(vectors) : Standing(m)}}
FirstValues(m) == {Value(k) : k \in 1 .. m}
IsLeast(v, S) == v \in S /\ \A w \in S : v <= w

Originals(o, s) ==
  /\ o \in Seq(Indices) /\ Len(o) = Len(s) /\ OneToOne(o)
  /\ \A k \in 1 .. Len(s) : s[k] = input.vectors[o[k]]

(* The vectors that are gone have nothing left, the others not behind.      *)
VectorsInv(o) ==
  /\ Originals(o, vectors) /\ ToSet(o) \subseteq 1 .. pushed
  /\ \A j \in 1 .. pushed : j \notin ToSet(o) => Held(j) \subseteq Done
  /\ \A k \in 1 .. Len(vectors) : PassedBy(k) \subseteq Done
  /\ ToSet(found) \subseteq InAny

(* Collected are those that hold the minimum, but for those still ahead.    *)
HoldersInv(o, c) ==
  /\ Originals(c, currently_synchronized)
  /\ Scanning => ToSet(c) = Holders(current_minimum) \ StandingFrom(o)
  /\ at = "idle" /\ currently_synchronized # << >> =>
       /\ found # << >> /\ Last(found) = current_minimum
       /\ ToSet(c) = Holders(current_minimum)

HasOriginals == \E o, c \in Seq(Indices) : VectorsInv(o) /\ HoldersInv(o, c)

LeastSoFar ==
  IF i = 1 THEN next_minimum = current_minimum ELSE IsLeast(next_minimum, FirstValues(i - 1))

InScan ==
  /\ at = "scan" => i >= 1
  /\ Scanning =>
       /\ i <= Len(vectors) + 1 /\ current_minimum \in InAny
       /\ \A w \in ToSet(found) : w < current_minimum
       /\ \A k \in 1 .. i - 1 : ~Ended(k) /\ current_minimum < Value(k)
       /\ \A k \in i .. Len(vectors) : ~Ended(k) => current_minimum <= Value(k)
       /\ LeastSoFar

BetweenScans ==
  at = "idle" =>
    /\ \A k \in 1 .. Len(vectors) : ~Ended(k) /\ \A w \in ToSet(found) : w < Value(k)
    /\ vectors # << >> => IsLeast(next_minimum, FirstValues(Len(vectors)))
    /\ ~result => Dry

(* What synchronize_with has still to look for lies behind what was found.  *)
SoughtBehind ==
  \A n \in 1 .. Len(found) : \A m \in 1 .. Len(sought) :
    \/ found[n] < sought[m]
    \/ at = "idle" /\ currently_synchronized # << >> /\ n = Len(found)

SoughtInv ==
  /\ SoughtBehind
  /\ sought \in Seq(Nat) /\ answers \in Seq(BOOLEAN)
  /\ Len(answers) + Len(sought) = Len(input.sought)
  /\ \A m \in 1 .. Len(sought) : sought[m] = input.sought[Len(answers) + m]
  /\ FindsWhatIsThere

ExistentialInv ==
  /\ at \in {"idle", "scan"} /\ synchronized = FALSE
  /\ HasOriginals /\ InScan /\ BetweenScans

(* The two of them; only synchronize_with answers.                          *)
WalkInv ==
  /\ WalkTypes
  /\ kind = "universal" => UniversalInv
  /\ kind # "universal" => ExistentialInv
  /\ IF kind = "synchronize_with" THEN SoughtInv ELSE answers = << >>

------------------------------------------------------------------------------
(* The vectors that remain are some of those given.                         *)
LEMMA OriginalFacts ==
  ASSUME WalkTypes, NEW o, VectorsInv(o)
  PROVE  /\ \A k \in 1 .. Len(vectors) :
              /\ o[k] \in Indices /\ o[k] \in ToSet(o)
              /\ Held(o[k]) = PassedBy(k) \cup AheadOf(k)
         /\ \A j \in ToSet(o) : \E k \in 1 .. Len(vectors) : j = o[k]
         /\ Len(vectors) \in Nat /\ InAny \subseteq Nat
<1>1. o \in Seq(Indices) /\ Len(o) = Len(vectors) /\ Len(vectors) \in Nat
  BY LenProperties DEF VectorsInv, Originals, WalkTypes
<1>2. InAny \subseteq Nat
  BY GivenFacts DEF WalkTypes
<1>3. ASSUME NEW k \in 1 .. Len(vectors)
      PROVE  /\ o[k] \in Indices /\ o[k] \in ToSet(o)
             /\ Held(o[k]) = PassedBy(k) \cup AheadOf(k)
  <2>1. o[k] \in Indices /\ o[k] \in ToSet(o)
    BY <1>1, ElementOfSeq DEF ToSet
  <2>2. Held(o[k]) = ToSet(vectors[k])
    BY DEF Held, VectorsInv, Originals
  <2>3. QED
    BY <2>1, <2>2, StandingFacts
<1>4. \A j \in ToSet(o) : \E k \in 1 .. Len(vectors) : j = o[k]
  BY <1>1 DEF ToSet
<1>5. QED
  BY <1>1, <1>2, <1>3, <1>4

(* Where a value is once all vectors are there.                             *)
LEMMA WhereValuesAre ==
  ASSUME WalkTypes, AllPushed, NEW o, VectorsInv(o), NEW v \in InAny
  PROVE  v \in Done \/ \E k \in 1 .. Len(vectors) : v \in AheadOf(k)
<1>1. PICK j \in Indices : v \in Held(j)
  BY DEF InAny
<1>2. j \in 1 .. pushed
  BY DEF Indices, AllPushed
<1>3. CASE j \in ToSet(o)
  <2>1. PICK k \in 1 .. Len(vectors) : j = o[k]
    BY <1>3, OriginalFacts
  <2>2. v \in PassedBy(k) \/ v \in AheadOf(k)
    BY <1>1, <2>1, OriginalFacts
  <2>3. QED
    BY <2>2 DEF VectorsInv
<1>4. CASE j \notin ToSet(o)
  BY <1>1, <1>2, <1>4 DEF VectorsInv
<1>5. QED
  BY <1>3, <1>4

(* The given values and the inputs do not change with the walk.             *)
LEMMA GivenStays ==
  ASSUME input' = input
  PROVE  /\ Indices' = Indices /\ InAny' = InAny /\ InAll' = InAll /\ kind' = kind
         /\ \A j : Held(j)' = Held(j)
         /\ \A v : Holders(v)' = Holders(v)
BY DEF Indices, InAny, InAll, kind, Held, Holders

(* No vector is pushed yet.                                                 *)
LEMMA EmptyOriginals ==
  /\ << >> \in Seq(Indices) /\ Originals(<< >>, << >>) /\ ToSet(<< >>) = {}
<1>1. << >> \in Seq(Indices) /\ Len(<< >>) = 0
  BY EmptySeq
<1>2. QED
  BY <1>1 DEF Originals, OneToOne, ToSet

(* What is sought next is not below what was sought before.                 *)
LEMMA SoughtAscends ==
  ASSUME WalkTypes, SoughtInv
  PROVE  /\ Len(sought) \in Nat
         /\ \A m \in 1 .. Len(sought) : sought[m] \in Nat /\ sought[1] <= sought[m]
         /\ sought # << >> => 1 \in 1 .. Len(sought) /\ Head(sought) = sought[1]
<1>1. /\ sought \in Seq(Nat) /\ answers \in Seq(BOOLEAN)
      /\ Len(answers) + Len(sought) = Len(input.sought)
      /\ \A m \in 1 .. Len(sought) : sought[m] = input.sought[Len(answers) + m]
  BY DEF SoughtInv
<1>2. Len(sought) \in Nat /\ Len(answers) \in Nat
  BY <1>1, LenProperties
<1>3. \A m, n \in 1 .. Len(input.sought) : m <= n => input.sought[m] <= input.sought[n]
  BY InputsAssumption DEF WalkTypes
<1>4. ASSUME NEW m \in 1 .. Len(sought) PROVE sought[m] \in Nat /\ sought[1] <= sought[m]
  <2>1. /\ Len(answers) + 1 \in 1 .. Len(input.sought) /\ 1 \in 1 .. Len(sought)
        /\ Len(answers) + m \in 1 .. Len(input.sought) /\ Len(answers) + 1 <= Len(answers) + m
    BY <1>1, <1>2
  <2>2. QED
    BY <1>1, <1>3, <2>1, ElementOfSeq
<1>5. ASSUME sought # << >> PROVE 1 \in 1 .. Len(sought) /\ Head(sought) = sought[1]
  BY <1>1, <1>5, EmptySeq
<1>6. QED
  BY <1>2, <1>4, <1>5

------------------------------------------------------------------------------
ExistentialStep == WalkTypes' /\ ExistentialInv'

(* A call of advance begins.                                                *)
LEMMA BeginExistentialStep ==
  ASSUME WalkTypes, ExistentialInv, BeginExistential
  PROVE  ExistentialStep
<1> USE DEF AsBefore
<1>1. /\ AllPushed /\ AllPushed' /\ at = "idle" /\ at' = "scan" /\ i' = 1
      /\ current_minimum' = next_minimum /\ currently_synchronized' = << >>
      /\ UNCHANGED <<input, pushed, vectors, position, synchronized, next_minimum, result, found>>
  BY DEF BeginExistential, MayCall, AllPushed
<1>2. PICK o, c \in Seq(Indices) : VectorsInv(o) /\ HoldersInv(o, c)
  BY DEF ExistentialInv, HasOriginals
<1>3. /\ Indices' = Indices /\ InAny' = InAny /\ \A j : Held(j)' = Held(j)
      /\ \A v : Holders(v)' = Holders(v)
  BY <1>1, GivenStays
<1>4. /\ \A k \in 1 .. Len(vectors) : /\ (Ended(k)' <=> Ended(k)) /\ Value(k)' = Value(k)
                                      /\ PassedBy(k)' = PassedBy(k)
      /\ \A m : FirstValues(m)' = FirstValues(m)
  BY <1>1 DEF Ended, Value, PassedBy, FirstValues
<1>5. WalkTypes'
  BY <1>1 DEF WalkTypes
<1>6. Done = ToSet(found) /\ ToSet(found') = ToSet(found)
  BY <1>1 DEF Done, Scanning
<1>7. Done \subseteq Done'
  BY <1>6 DEF Done
<1>8. VectorsInv(o)'
  <2>1. Originals(o, vectors)'
    BY <1>1, <1>2, <1>3 DEF VectorsInv, Originals
  <2>2. QED
    BY <1>1, <1>2, <1>3, <1>4, <1>6, <1>7, <2>1 DEF VectorsInv
<1>9. /\ \A k \in 1 .. Len(vectors) : ~Ended(k) /\ \A w \in ToSet(found) : w < Value(k)
      /\ vectors # << >> => IsLeast(next_minimum, FirstValues(Len(vectors)))
  BY <1>1 DEF ExistentialInv, BetweenScans
<1>10. CASE vectors = << >>
  <2>1. ~Scanning'
    BY <1>1, <1>10 DEF Scanning, Dry
  <2>2. Originals(<< >>, currently_synchronized)' /\ << >> \in Seq(Indices)'
    <3>1. Len(<< >>) = 0 /\ << >> \in Seq(Indices)
      BY EmptySeq
    <3>2. QED
      BY <1>1, <1>3, <3>1 DEF Originals, OneToOne
  <2>3. HoldersInv(o, << >>)'
    BY <1>1, <2>1, <2>2 DEF HoldersInv
  <2>4. HasOriginals'
    BY <1>2, <1>3, <1>8, <2>2, <2>3 DEF HasOriginals
  <2>5. InScan' /\ BetweenScans'
    BY <1>1, <2>1 DEF InScan, BetweenScans
  <2>6. QED
    BY <1>1, <1>5, <2>4, <2>5 DEF ExistentialStep, ExistentialInv
<1>11. CASE vectors # << >>
  <2>1. Scanning'
    BY <1>1, <1>11 DEF Scanning, Dry
  <2>2. IsLeast(next_minimum, FirstValues(Len(vectors))) /\ Len(vectors) \in Nat
    BY <1>9, <1>11, LenProperties DEF WalkTypes
  <2>3. PICK least \in 1 .. Len(vectors) : next_minimum = Value(least)
    BY <2>2 DEF IsLeast, FirstValues
  <2>4. \A k \in 1 .. Len(vectors) : next_minimum <= Value(k)
    BY <2>2 DEF IsLeast, FirstValues
  <2>5. next_minimum \in InAny /\ next_minimum \in Nat
    <3>1. Value(least) \in AheadOf(least) /\ Value(least) \in Nat
      BY <1>9, <2>3, StandingFacts
    <3>2. o[least] \in Indices /\ Value(least) \in Held(o[least])
      BY <1>2, <3>1, OriginalFacts
    <3>3. QED
      BY <2>3, <3>1, <3>2 DEF InAny
  <2>6. \A w \in ToSet(found) : w < next_minimum
    BY <1>9, <2>3
  <2>7. Holders(next_minimum) \subseteq StandingFrom(o)'
    <3>1. SUFFICES ASSUME NEW j \in Indices, next_minimum \in Held(j)
                   PROVE  j \in StandingFrom(o)'
      BY DEF Holders
    <3>2. next_minimum \notin Done
      BY <1>6, <2>5, <2>6
    <3>3. j \in ToSet(o)
      BY <1>1, <1>2, <3>1, <3>2 DEF VectorsInv, AllPushed, Indices
    <3>4. PICK k \in 1 .. Len(vectors) : j = o[k]
      BY <1>2, <3>3, OriginalFacts
    <3>5. next_minimum \in AheadOf(k)
      BY <1>2, <3>1, <3>2, <3>4, OriginalFacts DEF VectorsInv
    <3>6. Value(k) = next_minimum
      <4>1. Value(k) <= next_minimum /\ Value(k) \in Nat
        BY <1>9, <3>5, StandingFacts
      <4>2. QED
        BY <2>4, <2>5, <4>1
    <3>7. Standing(k)'
      BY <1>1, <1>4, <1>9, <3>6 DEF Standing
    <3>8. k \in i' .. Len(vectors')
      BY <1>1
    <3>9. QED
      BY <3>4, <3>7, <3>8 DEF StandingFrom
  <2>8. Originals(<< >>, currently_synchronized)' /\ << >> \in Seq(Indices)' /\ ToSet(<< >>) = {}
    <3>1. Len(<< >>) = 0 /\ << >> \in Seq(Indices)
      BY EmptySeq
    <3>2. QED
      BY <1>1, <1>3, <3>1 DEF Originals, OneToOne, ToSet
  <2>9. HoldersInv(o, << >>)'
    <3>1. Holders(current_minimum)' = Holders(next_minimum)
      BY <1>1, <1>3 DEF Holders
    <3>2. QED
      BY <1>1, <2>7, <2>8, <3>1 DEF HoldersInv
  <2>10. HasOriginals'
    BY <1>2, <1>3, <1>8, <2>8, <2>9 DEF HasOriginals
  <2>11. InScan'
    <3>1. i' >= 1 /\ i' <= Len(vectors') + 1 /\ \A k : ~(k \in 1 .. i' - 1)
      BY <1>1, <2>2
    <3>2. \A k \in i' .. Len(vectors') : current_minimum' <= Value(k)'
      BY <1>1, <1>4, <2>4
    <3>3. QED
      BY <1>1, <1>3, <2>5, <2>6, <3>1, <3>2 DEF InScan, LeastSoFar
  <2>12. BetweenScans'
    BY <1>1 DEF BetweenScans
  <2>13. QED
    BY <1>1, <1>5, <2>10, <2>11, <2>12 DEF ExistentialStep, ExistentialInv
<1>12. QED
  BY <1>10, <1>11

------------------------------------------------------------------------------
(***************************************************************************)
(* The existential iterator: the steps of a scan.                          *)
(***************************************************************************)
LEMMA ScanFacts ==
  ASSUME WalkTypes, ExistentialInv, at = "scan", i <= Len(vectors)
  PROVE  /\ AllPushed /\ Len(vectors) \in Nat /\ i \in 1 .. Len(vectors)
         /\ vectors # << >> /\ Scanning
         /\ current_minimum \in InAny /\ current_minimum \in Nat
         /\ \A w \in ToSet(found) : w < current_minimum
         /\ \A k \in 1 .. i - 1 : ~Ended(k) /\ current_minimum < Value(k)
         /\ \A k \in i .. Len(vectors) : ~Ended(k) => current_minimum <= Value(k)
         /\ LeastSoFar
<1>1. Len(vectors) \in Nat
  BY LenProperties DEF WalkTypes
<1>2. i \in Nat /\ i >= 1
  BY DEF ExistentialInv, InScan, WalkTypes
<1>3. i \in 1 .. Len(vectors) /\ Len(vectors) # 0
  BY <1>1, <1>2
<1>4. vectors # << >>
  BY <1>3
<1>5. Scanning
  BY <1>4 DEF Scanning, Dry
<1>6. InAny \subseteq Nat
  BY GivenFacts DEF WalkTypes
<1>7. AllPushed
  BY DEF WalkTypes
<1>8. QED
  BY <1>1, <1>3, <1>4, <1>5, <1>6, <1>7 DEF ExistentialInv, InScan

(* A position moves over the minimum.                                       *)
LEMMA PassStep ==
  ASSUME WalkTypes, ExistentialInv, Pass
  PROVE  ExistentialStep
<1> USE DEF AsBefore
<1>1. /\ AllPushed /\ AllPushed' /\ at = "scan" /\ at' = "scan" /\ i' = i + 1
      /\ i <= Len(vectors) /\ ~Ended(i) /\ Value(i) # current_minimum
      /\ UNCHANGED <<input, pushed, vectors, position, synchronized, current_minimum,
                     currently_synchronized, result, found>>
      /\ next_minimum' = IF Lower THEN Value(i) ELSE next_minimum
  BY DEF Pass, WalkTypes, AllPushed
<1>2. PICK o, c \in Seq(Indices) : VectorsInv(o) /\ HoldersInv(o, c)
  BY DEF ExistentialInv, HasOriginals
<1>3. /\ Indices' = Indices /\ InAny' = InAny /\ \A j : Held(j)' = Held(j)
      /\ \A v : Holders(v)' = Holders(v)
  BY <1>1, GivenStays
<1>4. /\ \A k : /\ (Ended(k)' <=> Ended(k)) /\ Value(k)' = Value(k)
                /\ PassedBy(k)' = PassedBy(k) /\ (Standing(k)' <=> Standing(k))
      /\ \A m : FirstValues(m)' = FirstValues(m)
  BY <1>1 DEF Ended, Value, PassedBy, FirstValues, Standing
<1>5. /\ Len(vectors) \in Nat /\ vectors # << >> /\ Scanning /\ Scanning'
      /\ i \in 1 .. Len(vectors) + 1
  BY <1>1, ScanFacts DEF Scanning, Dry
<1>6. i \in 1 .. Len(vectors) /\ i' \in 1 .. Len(vectors) + 1 /\ i \in Nat
  BY <1>1, <1>5
<1>7. WalkTypes'
  <2>1. i' \in Nat
    BY <1>6
  <2>2. QED
    BY <1>1, <2>1 DEF WalkTypes
<1>8. /\ current_minimum \in InAny /\ current_minimum \in Nat
      /\ \A w \in ToSet(found) : w < current_minimum
      /\ \A k \in 1 .. i - 1 : ~Ended(k) /\ current_minimum < Value(k)
      /\ \A k \in i .. Len(vectors) : ~Ended(k) => current_minimum <= Value(k)
      /\ IF i = 1 THEN next_minimum = current_minimum
                  ELSE IsLeast(next_minimum, FirstValues(i - 1))
  BY <1>1, ScanFacts DEF LeastSoFar
<1>9. current_minimum < Value(i) /\ Value(i) \in Nat
  <2>1. Value(i) \in Nat /\ i \in i .. Len(vectors)
    BY <1>1, <1>6, StandingFacts
  <2>2. QED
    BY <1>1, <1>8, <2>1
<1>10. VectorsInv(o)'
  <2>1. Originals(o, vectors)' /\ Done' = Done
    BY <1>1, <1>2, <1>3, <1>5 DEF VectorsInv, Originals, Done
  <2>2. QED
    BY <1>1, <1>2, <1>3, <1>4, <2>1 DEF VectorsInv
<1>11. HoldersInv(o, c)'
  <2>1. StandingFrom(o)' = StandingFrom(o)
    <3>1. ~Standing(i)
      BY <1>1 DEF Standing
    <3>2. \A m : m \in i .. Len(vectors) <=> m = i \/ m \in i + 1 .. Len(vectors)
      BY <1>6
    <3>3. \A m : m \in i' .. Len(vectors') /\ Standing(m)' <=> m \in i .. Len(vectors) /\ Standing(m)
      BY <1>1, <1>4, <3>1, <3>2
    <3>4. QED
      BY <3>3 DEF StandingFrom
  <2>2. Originals(c, currently_synchronized)'
    BY <1>1, <1>2, <1>3 DEF HoldersInv, Originals
  <2>3. Holders(current_minimum)' = Holders(current_minimum)
    BY <1>1, <1>3 DEF Holders
  <2>4. QED
    BY <1>1, <1>2, <1>5, <2>1, <2>2, <2>3 DEF HoldersInv
<1>12. InScan'
  <2>1. \A k : k \in 1 .. i' - 1 <=> k = i \/ k \in 1 .. i - 1
    BY <1>1, <1>6
  <2>2. \A k \in 1 .. i' - 1 : ~Ended(k)' /\ current_minimum' < Value(k)'
    BY <1>1, <1>4, <1>8, <1>9, <2>1
  <2>3. \A k \in i' .. Len(vectors') : ~Ended(k)' => current_minimum' <= Value(k)'
    <3>1. \A k \in i + 1 .. Len(vectors) : k \in i .. Len(vectors)
      BY <1>6
    <3>2. QED
      BY <1>1, <1>4, <1>8, <3>1
  <2>4. i' # 1 /\ i' - 1 = i
    BY <1>1, <1>6
  <2>5. IsLeast(next_minimum', FirstValues(i))
    <3>1. \A w : w \in FirstValues(i) <=> w = Value(i) \/ w \in FirstValues(i - 1)
      <4>1. \A k : k \in 1 .. i <=> k = i \/ k \in 1 .. i - 1
        BY <1>6
      <4>2. QED
        BY <4>1 DEF FirstValues
    <3>2. CASE i = 1
      <4>1. next_minimum' = Value(i)
        BY <1>1, <1>8, <3>2 DEF Lower
      <4>2. FirstValues(i - 1) = {}
        BY <3>2 DEF FirstValues
      <4>3. QED
        BY <1>9, <3>1, <4>1, <4>2 DEF IsLeast
    <3>3. CASE i # 1
      <4>1. IsLeast(next_minimum, FirstValues(i - 1))
        BY <1>8, <3>3
      <4>2. \A w \in FirstValues(i - 1) : w \in Nat /\ current_minimum < w
        <5>1. \A k \in 1 .. i - 1 : k \in 1 .. Len(vectors)
          BY <1>6
        <5>2. QED
          BY <1>8, <5>1, StandingFacts DEF FirstValues
      <4>3. next_minimum \in Nat /\ next_minimum # current_minimum
        BY <1>8, <4>1, <4>2 DEF IsLeast
      <4>4. CASE next_minimum > Value(i)
        <5>1. next_minimum' = Value(i)
          BY <1>1, <4>4 DEF Lower
        <5>2. \A w \in FirstValues(i - 1) : Value(i) <= w
          BY <1>9, <4>1, <4>2, <4>3, <4>4 DEF IsLeast
        <5>3. QED
          BY <1>9, <3>1, <5>1, <5>2 DEF IsLeast
      <4>5. CASE ~(next_minimum > Value(i))
        <5>1. next_minimum' = next_minimum
          BY <1>1, <4>3, <4>5 DEF Lower
        <5>2. next_minimum <= Value(i)
          BY <1>9, <4>3, <4>5
        <5>3. QED
          BY <3>1, <4>1, <5>1, <5>2 DEF IsLeast
      <4>6. QED
        BY <4>4, <4>5
    <3>4. QED
      BY <3>2, <3>3
  <2>6. LeastSoFar'
    <3>1. FirstValues(i - 1)' = {vectors'[k][position'[k]] : k \in 1 .. i' - 1}
      BY DEF FirstValues, Value
    <3>2. FirstValues(i - 1)' = FirstValues(i)
      BY <1>1, <2>4, <3>1 DEF FirstValues, Value
    <3>3. QED
      BY <2>4, <2>5, <3>2 DEF LeastSoFar, IsLeast
  <2>7. QED
    BY <1>1, <1>3, <1>5, <1>6, <1>8, <2>2, <2>3, <2>6 DEF InScan
<1>13. BetweenScans'
  BY <1>1 DEF BetweenScans
<1>14. QED
  BY <1>1, <1>2, <1>3, <1>7, <1>10, <1>11, <1>12, <1>13 DEF ExistentialStep, ExistentialInv, HasOriginals

(* A holder of the minimum is collected.                                    *)
LEMMA CollectStep ==
  ASSUME WalkTypes, ExistentialInv, Collect
  PROVE  ExistentialStep
<1> USE DEF AsBefore
<1>1. /\ at = "scan" /\ at' = "scan" /\ i' = i
      /\ i <= Len(vectors) /\ ~Ended(i) /\ Value(i) = current_minimum
      /\ UNCHANGED <<input, pushed, vectors, synchronized, current_minimum, next_minimum, result, found>>
      /\ position' = [position EXCEPT ![i] = position[i] + 1]
      /\ currently_synchronized' = Append(currently_synchronized, vectors[i])
  BY DEF Collect
<1>2. PICK o, c \in Seq(Indices) : VectorsInv(o) /\ HoldersInv(o, c)
  BY DEF ExistentialInv, HasOriginals
<1>3. /\ Indices' = Indices /\ InAny' = InAny /\ \A j : Held(j)' = Held(j)
      /\ \A v : Holders(v)' = Holders(v)
  BY <1>1, GivenStays
<1>4. /\ AllPushed /\ AllPushed' /\ Len(vectors) \in Nat /\ i \in 1 .. Len(vectors)
      /\ vectors # << >> /\ Scanning /\ Scanning' /\ i \in Nat
      /\ current_minimum \in InAny /\ current_minimum \in Nat
      /\ \A w \in ToSet(found) : w < current_minimum
      /\ \A k \in 1 .. i - 1 : ~Ended(k) /\ current_minimum < Value(k)
      /\ \A k \in i .. Len(vectors) : ~Ended(k) => current_minimum <= Value(k)
      /\ LeastSoFar
  BY <1>1, ScanFacts DEF AllPushed, Scanning, Dry
<1>5. MovesOn(i)
  BY <1>1 DEF MovesOn
<1>6. PICK here \in 1 .. Len(vectors) : here = i
  BY <1>4
<1>7. /\ position' \in Seq(Nat) /\ Len(position') = Len(vectors)
      /\ \A m \in 1 .. Len(vectors) : position'[m] \in 1 .. Len(vectors[m]) + 1
      /\ PassedBy(here)' = PassedBy(here) \cup {current_minimum}
      /\ AheadOf(here)' \subseteq AheadOf(here)
      /\ \A v \in AheadOf(here)' : current_minimum < v
      /\ \A m \in 1 .. Len(vectors) : m # here =>
           /\ PassedBy(m)' = PassedBy(m)
           /\ (Ended(m)' <=> Ended(m)) /\ Value(m)' = Value(m)
  BY <1>1, <1>5, <1>6, MovedOn
<1>8. WalkTypes'
  BY <1>1, <1>4, <1>7, TypesKept DEF WalkTypes
<1>9. ~Ended(here)' => current_minimum < Value(here)' /\ Value(here)' \in Nat
  <2>1. ASSUME ~Ended(here)' PROVE Value(here)' \in AheadOf(here)'
    <3>1. position'[here] \in 1 .. Len(vectors[here]) /\ vectors' = vectors
      <4>1. position'[here] \in 1 .. Len(vectors[here]) + 1 /\ Len(vectors[here]) \in Nat
        BY <1>7, StandingFacts
      <4>2. ~(position'[here] > Len(vectors[here]))
        BY <1>1, <2>1 DEF Ended
      <4>3. QED
        BY <1>1, <4>1, <4>2
    <3>2. position'[here] \in position'[here] .. Len(vectors[here])
      <4>1. Len(vectors[here]) \in Nat
        BY StandingFacts
      <4>2. QED
        BY <3>1, <4>1
    <3>3. QED
      BY <3>1, <3>2 DEF Value, AheadOf, AheadIn
  <2>2. AheadOf(here) \subseteq Nat
    BY StandingFacts
  <2>3. QED
    BY <1>7, <2>1, <2>2
<1>10. ~Standing(here)' /\ Standing(here) /\ \A m \in 1 .. Len(vectors) : m # here => (Standing(m)' <=> Standing(m))
  <2>1. Standing(here)
    BY <1>1, <1>6 DEF Standing
  <2>2. ~Standing(here)'
    BY <1>1, <1>4, <1>9 DEF Standing
  <2>3. QED
    BY <1>1, <1>7, <2>1, <2>2 DEF Standing
<1>11. VectorsInv(o)'
  <2>1. Originals(o, vectors)' /\ Done' = Done /\ current_minimum \in Done
    BY <1>1, <1>2, <1>3, <1>4 DEF VectorsInv, Originals, Done
  <2>2. \A k \in 1 .. Len(vectors') : PassedBy(k)' \subseteq Done'
    BY <1>1, <1>2, <1>7, <2>1 DEF VectorsInv
  <2>3. QED
    BY <1>1, <1>2, <1>3, <2>1, <2>2 DEF VectorsInv
<1>12. PICK d : d = Append(c, o[here])
  OBVIOUS
<1>13. o[here] \in Holders(current_minimum) /\ o[here] \in StandingFrom(o) /\ o[here] \in Indices
  <2>1. o[here] \in Indices /\ current_minimum \in Held(o[here])
    BY <1>1, <1>2, <1>6, OriginalFacts, StandingFacts
  <2>2. here \in i .. Len(vectors)
    BY <1>4, <1>6
  <2>3. QED
    BY <1>10, <2>1, <2>2 DEF Holders, StandingFrom
<1>14. HoldersInv(o, d)' /\ d \in Seq(Indices)
  <2>1. PICK k \in Nat : k = Len(c) /\ k = Len(currently_synchronized)
    BY <1>2, LenProperties DEF HoldersInv, Originals
  <2>2. ToSet(c) = Holders(current_minimum) \ StandingFrom(o)
    BY <1>2, <1>4 DEF HoldersInv
  <2>3. o[here] \notin ToSet(c) /\ OneToOne(c)
    BY <1>2, <1>13, <2>2 DEF HoldersInv, Originals
  <2>4. /\ d \in Seq(Indices) /\ Len(d) = k + 1 /\ d[k + 1] = o[here]
        /\ \A m \in 1 .. k : d[m] = c[m]
        /\ \A m \in 1 .. k + 1 : m = k + 1 \/ m \in 1 .. k
        /\ ToSet(d) = ToSet(c) \cup {o[here]} /\ OneToOne(d)
    <3>1. PICK D : D = Indices
      OBVIOUS
    <3>2. PICK x : x = o[here]
      OBVIOUS
    <3>3. /\ c \in Seq(D) /\ x \in D /\ d = Append(c, x)
          /\ OneToOne(c) /\ x \notin ToSet(c)
      BY <1>12, <1>13, <2>3, <3>1, <3>2
    <3>4. d \in Seq(D) /\ IsOneLonger(d, c, x)
      BY <3>3, AppendOne
    <3>5. QED
      BY <2>1, <3>1, <3>2, <3>3, <3>4 DEF IsOneLonger
  <2>7. /\ Len(currently_synchronized') = k + 1
        /\ currently_synchronized'[k + 1] = vectors[here]
        /\ \A m \in 1 .. k : currently_synchronized'[m] = currently_synchronized[m]
    <3>1. PICK s : s = currently_synchronized
      OBVIOUS
    <3>2. s \in Seq(Seq(Nat)) /\ vectors[here] \in Seq(Nat)
      <4>1. currently_synchronized \in Seq(Seq(Nat))
        BY <1>8 DEF WalkTypes
      <4>2. QED
        BY <3>1, <4>1, StandingFacts
    <3>3. currently_synchronized' = Append(s, vectors[here])
      BY <1>1, <1>6, <3>1
    <3>4. QED
      BY <2>1, <3>1, <3>2, <3>3, AppendProperties
  <2>8. \A m \in 1 .. k + 1 : currently_synchronized'[m] = input.vectors[d[m]]
    <3>1. \A m \in 1 .. k : currently_synchronized[m] = input.vectors[c[m]]
      BY <1>2, <2>1 DEF HoldersInv, Originals
    <3>2. vectors[here] = input.vectors[o[here]]
      BY <1>2 DEF VectorsInv, Originals
    <3>3. QED
      BY <2>4, <2>7, <3>1, <3>2
  <2>9. Originals(d, currently_synchronized)'
    BY <1>1, <1>3, <2>4, <2>7, <2>8 DEF Originals
  <2>10. ToSet(d) = Holders(current_minimum)' \ StandingFrom(o)'
    <3>1. StandingFrom(o)' = StandingFrom(o) \ {o[here]}
      <4>1. \A m \in i .. Len(vectors) : m \in 1 .. Len(vectors)
        BY <1>4
      <4>2. \A m \in 1 .. Len(vectors) : o[m] = o[here] => m = here
        BY <1>2 DEF VectorsInv, Originals, OneToOne
      <4>3. \A j : j \in StandingFrom(o) <=> \E m \in i .. Len(vectors) : Standing(m) /\ j = o[m]
        BY DEF StandingFrom
      <4>4. \A j : j \in StandingFrom(o)' <=> \E m \in i .. Len(vectors) : Standing(m)' /\ j = o[m]
        BY <1>1 DEF StandingFrom
      <4>5. QED
        BY <1>10, <4>1, <4>2, <4>3, <4>4
    <3>2. Holders(current_minimum)' = Holders(current_minimum)
      BY <1>1, <1>3 DEF Holders
    <3>3. QED
      BY <1>13, <2>2, <2>4, <3>1, <3>2
  <2>11. QED
    BY <1>1, <2>4, <2>9, <2>10 DEF HoldersInv
<1>15. InScan'
  <2>1. \A k \in 1 .. i - 1 : k \in 1 .. Len(vectors) /\ k # here
    BY <1>4, <1>6
  <2>2. \A k \in 1 .. i' - 1 : ~Ended(k)' /\ current_minimum' < Value(k)'
    BY <1>1, <1>4, <1>7, <2>1
  <2>3. \A k \in i' .. Len(vectors') : ~Ended(k)' => current_minimum' <= Value(k)'
    <3>1. \A k \in i .. Len(vectors) : k \in 1 .. Len(vectors)
      BY <1>4
    <3>2. ~Ended(here)' => current_minimum <= Value(here)'
      BY <1>4, <1>9
    <3>3. QED
      BY <1>1, <1>4, <1>7, <3>1, <3>2
  <2>4. LeastSoFar'
    <3>1. (FirstValues(i - 1))' = FirstValues(i - 1)
      BY <1>1, <1>7, <2>1 DEF FirstValues
    <3>2. QED
      BY <1>1, <1>4, <3>1 DEF LeastSoFar, IsLeast
  <2>5. QED
    BY <1>1, <1>3, <1>4, <2>2, <2>3, <2>4 DEF InScan
<1>16. BetweenScans'
  BY <1>1 DEF BetweenScans
<1>17. HasOriginals'
  BY <1>2, <1>3, <1>11, <1>14 DEF HasOriginals
<1>18. QED
  BY <1>1, <1>8, <1>15, <1>16, <1>17 DEF ExistentialStep, ExistentialInv

------------------------------------------------------------------------------
(***************************************************************************)
(* The existential iterator: a dropped vector, the end of a scan, the next one.*)
(***************************************************************************)
LEMMA DropStep ==
  ASSUME WalkTypes, ExistentialInv, Drop
  PROVE  ExistentialStep
<1> USE DEF AsBefore
<1>1. /\ at = "scan" /\ at' = "scan" /\ i' = i /\ i <= Len(vectors) /\ Ended(i)
      /\ UNCHANGED <<input, pushed, synchronized, current_minimum, next_minimum,
                     currently_synchronized, result, found>>
      /\ vectors' = WithoutVector(vectors) /\ position' = WithoutVector(position)
  BY DEF Drop
<1>2. PICK o, c \in Seq(Indices) : VectorsInv(o) /\ HoldersInv(o, c)
  BY DEF ExistentialInv, HasOriginals
<1>3. /\ Indices' = Indices /\ InAny' = InAny /\ \A j : Held(j)' = Held(j)
      /\ \A v : Holders(v)' = Holders(v)
  BY <1>1, GivenStays
<1>4. /\ AllPushed /\ AllPushed' /\ Len(vectors) \in Nat /\ i \in 1 .. Len(vectors)
      /\ vectors # << >> /\ Scanning /\ i \in Nat
      /\ current_minimum \in InAny /\ current_minimum \in Nat
      /\ \A w \in ToSet(found) : w < current_minimum
      /\ \A k \in 1 .. i - 1 : ~Ended(k) /\ current_minimum < Value(k)
      /\ \A k \in i .. Len(vectors) : ~Ended(k) => current_minimum <= Value(k)
      /\ LeastSoFar
  BY <1>1, ScanFacts DEF AllPushed
<1>5. PICK here \in 1 .. Len(vectors) : here = i
  BY <1>4
<1>6. PICK l \in Nat : l = Len(vectors) - 1 /\ Len(vectors) = l + 1
  BY SMTT(30), <1>4
(* Where what stands at a place now stood before. *)
<1> DEFINE Old(k) == IF k = here THEN Len(vectors) ELSE k
<1>7. \A k \in 1 .. l : /\ Old(k) \in 1 .. Len(vectors) /\ Old(k) # here
                        /\ k < here => Old(k) = k
                        /\ k >= here => Old(k) >= here
  BY <1>5, <1>6
<1>8. /\ vectors' \in Seq(Seq(Nat)) /\ position' \in Seq(Nat)
      /\ Len(vectors') = l /\ Len(position') = l
      /\ \A k \in 1 .. l : vectors'[k] = vectors[Old(k)] /\ position'[k] = position[Old(k)]
  <2>1. vectors \in Seq(Seq(Nat)) /\ position \in Seq(Nat) /\ Len(position) = Len(vectors)
    BY DEF WalkTypes
  <2>2. vectors' = WithoutOne(vectors, here) /\ position' = WithoutOne(position, here)
    BY <1>1, <1>5 DEF WithoutVector, WithoutOne
  <2>3. vectors' \in Seq(Seq(Nat)) /\ IsWithoutOne(vectors', vectors, here)
    <3>1. PICK s : s = vectors
      OBVIOUS
    <3>2. PICK t : t = vectors'
      OBVIOUS
    <3>3. s \in Seq(Seq(Nat)) /\ here \in 1 .. Len(s) /\ t = WithoutOne(s, here)
      BY <2>1, <2>2, <3>1, <3>2
    <3>4. t \in Seq(Seq(Nat)) /\ IsWithoutOne(t, s, here)
      BY <3>3, DropOne
    <3>5. QED
      BY <3>1, <3>2, <3>4
  <2>4. position' \in Seq(Nat) /\ IsWithoutOne(position', position, here)
    <3>1. PICK s : s = position
      OBVIOUS
    <3>2. PICK t : t = position'
      OBVIOUS
    <3>3. s \in Seq(Nat) /\ here \in 1 .. Len(s) /\ t = WithoutOne(s, here)
      BY <2>1, <2>2, <3>1, <3>2
    <3>4. t \in Seq(Nat) /\ IsWithoutOne(t, s, here)
      BY <3>3, DropOne
    <3>5. QED
      BY <3>1, <3>2, <3>4
  <2>5. QED
    BY <1>6, <2>1, <2>3, <2>4 DEF IsWithoutOne
<1>9. PICK d : d = WithoutOne(o, here)
  OBVIOUS
<1>10. /\ d \in Seq(Indices) /\ Len(d) = l /\ \A k \in 1 .. l : d[k] = o[Old(k)]
       /\ OneToOne(d) /\ ToSet(d) = ToSet(o) \ {o[here]}
  <2>1. PICK D : D = Indices
    OBVIOUS
  <2>2. o \in Seq(D) /\ here \in 1 .. Len(o) /\ OneToOne(o) /\ Len(o) = Len(vectors)
    BY <1>2, <2>1 DEF VectorsInv, Originals
  <2>3. d \in Seq(D) /\ IsWithoutOne(d, o, here)
    BY <1>9, <2>2, DropOne
  <2>4. OneToOne(d) /\ ToSet(d) = ToSet(o) \ {o[here]}
    BY <1>9, <2>2, DropOneToOne
  <2>5. QED
    BY <1>6, <2>1, <2>2, <2>3, <2>4 DEF IsWithoutOne
<1>11. \A k \in 1 .. l : /\ (Ended(k)' <=> Ended(Old(k))) /\ Value(k)' = Value(Old(k))
                         /\ PassedBy(k)' = PassedBy(Old(k))
                         /\ (Standing(k)' <=> Standing(Old(k)))
  <2> HIDE DEF Old
  <2>1. QED
    BY <1>1, <1>8 DEF Ended, Value, PassedBy, Standing
<1>12. WalkTypes'
  <2>1. ASSUME NEW k \in 1 .. l
        PROVE  Ascends(vectors'[k]) /\ position'[k] \in 1 .. Len(vectors'[k]) + 1
    <3> HIDE DEF Old
    <3>1. vectors'[k] = vectors[Old(k)] /\ position'[k] = position[Old(k)] /\ Old(k) \in 1 .. Len(vectors)
      BY <1>7, <1>8
    <3>2. QED
      BY <3>1, StandingFacts
  <2>2. Len(vectors') = l /\ Len(position') = Len(vectors')
    BY <1>8
  <2>3. QED
    BY <1>1, <1>4, <1>8, <2>1, <2>2 DEF WalkTypes
<1>13. Scanning'
  <2>1. SUFFICES ASSUME vectors' = << >>, currently_synchronized' = << >> PROVE FALSE
    BY <1>1 DEF Scanning, Dry
  <2>2. l = 0 /\ Len(vectors) = 1 /\ i = 1
    <3>1. Len(vectors') = 0
      BY <2>1
    <3>2. l = 0
      BY <1>8, <3>1
    <3>3. Len(vectors) = 1
      BY <1>6, <3>2
    <3>4. QED
      BY <1>4, <3>2, <3>3
  <2>3. StandingFrom(o) = {}
    <3>1. \A m \in i .. Len(vectors) : m = i
      BY <2>2
    <3>2. QED
      BY <1>1, <3>1 DEF StandingFrom, Standing
  <2>4. ToSet(c) = {}
    <3>1. Len(c) = 0
      BY <1>1, <1>2, <2>1 DEF HoldersInv, Originals
    <3>2. QED
      BY <1>2, <3>1, LenProperties DEF ToSet
  <2>5. PICK j \in Indices : current_minimum \in Held(j)
    BY <1>4 DEF InAny
  <2>6. QED
    BY <1>2, <1>4, <2>3, <2>4, <2>5 DEF HoldersInv, Holders
<1>14. Done' = Done
  BY <1>1, <1>4, <1>13 DEF Done
<1>15. VectorsInv(d)'
  <2> HIDE DEF Old
  <2>1. Originals(d, vectors)'
    <3>1. ASSUME NEW k \in 1 .. l PROVE vectors'[k] = input.vectors[d[k]]
      <4>1. Old(k) \in 1 .. Len(vectors)
        BY <1>7
      <4>2. vectors[Old(k)] = input.vectors[o[Old(k)]]
        BY <1>2, <4>1 DEF VectorsInv, Originals
      <4>3. QED
        BY <1>8, <1>10, <4>2
    <3>2. QED
      BY <1>1, <1>3, <1>8, <1>10, <3>1 DEF Originals
  <2>2. \A j \in 1 .. pushed : j \notin ToSet(d) => Held(j) \subseteq Done
    <3>1. Held(o[here]) \subseteq Done
      <4>1. Held(o[here]) = PassedBy(here) \cup AheadOf(here)
        BY <1>2, OriginalFacts
      <4>2. AheadOf(here) = {} /\ PassedBy(here) \subseteq Done
        BY <1>1, <1>2, <1>5, StandingFacts DEF VectorsInv
      <4>3. QED
        BY <4>1, <4>2
    <3>2. QED
      BY <1>2, <1>10, <3>1 DEF VectorsInv
  <2>3. \A k \in 1 .. Len(vectors') : PassedBy(k)' \subseteq Done'
    BY <1>2, <1>7, <1>8, <1>11, <1>14 DEF VectorsInv
  <2>4. QED
    BY <1>1, <1>2, <1>3, <1>10, <1>14, <2>1, <2>2, <2>3 DEF VectorsInv
<1>16. HoldersInv(d, c)'
  <2>1. Originals(c, currently_synchronized)'
    BY <1>1, <1>2, <1>3 DEF HoldersInv, Originals
  <2>2. StandingFrom(d)' = StandingFrom(o)
    <3>1. \A j : j \in StandingFrom(o) <=> \E m \in i .. Len(vectors) : Standing(m) /\ j = o[m]
      BY DEF StandingFrom
    <3>2. \A j : j \in StandingFrom(d)' <=> \E m \in i .. l : Standing(m)' /\ j = d[m]
      BY <1>1, <1>8 DEF StandingFrom
    <3>3. ~Standing(here)
      BY <1>1, <1>5 DEF Standing
    <3>4. ASSUME NEW m \in i .. Len(vectors), Standing(m)
          PROVE  \E n \in i .. l : Standing(n)' /\ o[m] = d[n]
      <4>1. m # here
        BY <3>3, <3>4
      <4>2. CASE m = Len(vectors)
        <5>1. here \in i .. l /\ here \in 1 .. l /\ Old(here) = m
          BY <1>4, <1>5, <1>6, <4>1, <4>2
        <5>2. QED
          BY <1>10, <1>11, <3>4, <5>1
      <4>3. CASE m # Len(vectors)
        <5>1. m \in i .. l /\ m \in 1 .. l /\ Old(m) = m
          BY <1>4, <1>6, <4>1, <4>3
        <5>2. QED
          BY <1>10, <1>11, <3>4, <5>1
      <4>4. QED
        BY <4>2, <4>3
    <3>5. ASSUME NEW n \in i .. l, Standing(n)'
          PROVE  \E m \in i .. Len(vectors) : Standing(m) /\ d[n] = o[m]
      <4>1. n \in 1 .. l
        BY <1>4
      <4>2. Old(n) \in i .. Len(vectors)
        BY <1>4, <1>5, <1>6, <4>1
      <4>3. Standing(Old(n)) /\ d[n] = o[Old(n)]
        BY <1>10, <1>11, <3>5, <4>1
      <4> HIDE DEF Old
      <4>4. QED
        BY <4>2, <4>3
    <3>6. QED
      BY <3>1, <3>2, <3>4, <3>5
  <2>3. Holders(current_minimum)' = Holders(current_minimum)
    BY <1>1, <1>3 DEF Holders
  <2>4. QED
    BY <1>1, <1>2, <1>4, <2>1, <2>2, <2>3 DEF HoldersInv
<1>17. InScan'
  <2>1. \A k \in 1 .. i - 1 : k \in 1 .. l /\ Old(k) = k
    BY <1>4, <1>5, <1>6
  <2>2. \A k \in 1 .. i' - 1 : ~Ended(k)' /\ current_minimum' < Value(k)'
    <3> HIDE DEF Old
    <3>1. QED
      BY <1>1, <1>4, <1>11, <2>1
  <2>3. \A k \in i' .. Len(vectors') : ~Ended(k)' => current_minimum' <= Value(k)'
    <3>1. \A k \in i .. l : k \in 1 .. l /\ Old(k) \in i .. Len(vectors)
      BY <1>4, <1>5, <1>6
    <3> HIDE DEF Old
    <3>2. QED
      BY <1>1, <1>4, <1>8, <1>11, <3>1
  <2>4. LeastSoFar'
    <3>1. (FirstValues(i - 1))' = FirstValues(i - 1)
      <4> HIDE DEF Old
      <4>1. \A k \in 1 .. i - 1 : Value(k)' = Value(k)
        BY <1>11, <2>1
      <4>2. QED
        BY <1>1, <4>1 DEF FirstValues
    <3>2. QED
      BY <1>1, <1>4, <3>1 DEF LeastSoFar, IsLeast
  <2>5. i' >= 1 /\ i' <= Len(vectors') + 1
    BY <1>1, <1>4, <1>6, <1>8
  <2>6. QED
    BY <1>1, <1>3, <1>4, <2>2, <2>3, <2>4, <2>5 DEF InScan
<1>18. BetweenScans'
  BY <1>1 DEF BetweenScans
<1>19. HasOriginals'
  BY <1>2, <1>3, <1>10, <1>15, <1>16 DEF HasOriginals
<1>20. at' \in {"idle", "scan"} /\ synchronized' = FALSE
  BY <1>1 DEF ExistentialInv
<1>21. QED
  BY <1>12, <1>17, <1>18, <1>19, <1>20 DEF ExistentialStep, ExistentialInv

(* The scan ends, with the next minimum.                                    *)
LEMMA EndOfScanStep ==
  ASSUME WalkTypes, ExistentialInv, EndOfScan
  PROVE  ExistentialStep /\ (currently_synchronized = << >> => Dry)
<1> USE DEF AsBefore
<1>1. /\ at = "scan" /\ at' = "idle" /\ i > Len(vectors) /\ AllPushed /\ AllPushed'
      /\ UNCHANGED <<input, pushed, vectors, position, synchronized, current_minimum,
                     next_minimum, currently_synchronized, i>>
      /\ result' = (currently_synchronized # << >>)
      /\ found' = IF currently_synchronized # << >> THEN Append(found, current_minimum)
                                                   ELSE found
  BY DEF EndOfScan, Return, WalkTypes, AllPushed
<1>2. PICK o, c \in Seq(Indices) : VectorsInv(o) /\ HoldersInv(o, c)
  BY DEF ExistentialInv, HasOriginals
<1>3. /\ Indices' = Indices /\ InAny' = InAny /\ \A j : Held(j)' = Held(j)
      /\ \A v : Holders(v)' = Holders(v)
  BY <1>1, GivenStays
<1>4. /\ \A k : (Ended(k)' <=> Ended(k)) /\ Value(k)' = Value(k) /\ PassedBy(k)' = PassedBy(k)
      /\ \A m : FirstValues(m)' = FirstValues(m)
  BY <1>1 DEF Ended, Value, PassedBy, FirstValues
<1>5. Len(vectors) \in Nat /\ i \in Nat
  BY LenProperties DEF WalkTypes
<1>6. ~Scanning' /\ Done' = ToSet(found')
  BY <1>1 DEF Scanning, Done
<1>7. Originals(o, vectors)' /\ Originals(c, currently_synchronized)'
  BY <1>1, <1>2, <1>3 DEF VectorsInv, HoldersInv, Originals
<1>8. CASE Dry
  <2>1. /\ vectors = << >> /\ currently_synchronized = << >> /\ found' = found
        /\ result' \in BOOLEAN /\ \A k : ~(k \in 1 .. Len(vectors))
    <3>1. vectors = << >> /\ currently_synchronized = << >>
      BY <1>8 DEF Dry
    <3>2. found' = found /\ \A k : ~(k \in 1 .. Len(vectors))
      BY <1>1, <3>1
    <3>3. result' \in BOOLEAN
      BY <1>1
    <3>4. QED
      BY <3>1, <3>2, <3>3
  <2>2. Done' = Done
    BY <1>6, <1>8, <2>1 DEF Done, Scanning
  <2>3. WalkTypes'
    BY <1>1, <2>1 DEF WalkTypes
  <2>4. VectorsInv(o)'
    BY <1>1, <1>2, <1>3, <1>7, <2>1, <2>2 DEF VectorsInv
  <2>5. HoldersInv(o, c)'
    BY <1>1, <1>6, <1>7, <2>1 DEF HoldersInv
  <2>6. HasOriginals'
    BY <1>2, <1>3, <2>4, <2>5 DEF HasOriginals
  <2>7. InScan' /\ BetweenScans'
    BY <1>1, <1>6, <2>1 DEF InScan, BetweenScans, Dry
  <2>8. QED
    BY <1>1, <1>8, <2>3, <2>6, <2>7 DEF ExistentialStep, ExistentialInv
<1>9. CASE ~Dry
  <2>1. /\ Scanning /\ i = Len(vectors) + 1 /\ current_minimum \in InAny /\ current_minimum \in Nat
        /\ \A w \in ToSet(found) : w < current_minimum
        /\ \A k \in 1 .. Len(vectors) : ~Ended(k) /\ current_minimum < Value(k)
        /\ LeastSoFar
    <3>1. Scanning
      BY <1>1, <1>9 DEF Scanning
    <3>2. i = Len(vectors) + 1 /\ i - 1 = Len(vectors)
      BY <1>1, <1>5, <3>1 DEF ExistentialInv, InScan
    <3>3. InAny \subseteq Nat
      BY GivenFacts DEF WalkTypes
    <3>4. QED
      BY <3>1, <3>2, <3>3 DEF ExistentialInv, InScan
  <2>2. ToSet(c) = Holders(current_minimum)
    <3>1. StandingFrom(o) = {}
      <4>1. \A m : ~(m \in i .. Len(vectors))
        BY <1>1, <1>5
      <4>2. QED
        BY <4>1 DEF StandingFrom
    <3>2. QED
      BY <1>2, <2>1, <3>1 DEF HoldersInv
  <2>3. currently_synchronized # << >>
    <3>1. PICK j \in Indices : current_minimum \in Held(j)
      BY <2>1 DEF InAny
    <3>2. j \in ToSet(c)
      BY <2>2, <3>1 DEF Holders
    <3>3. PICK m \in 1 .. Len(c) : j = c[m]
      BY <1>2, <3>2, LenProperties DEF ToSet
    <3>4. Len(currently_synchronized) # 0
      BY <1>2, <3>3 DEF HoldersInv, Originals
    <3>5. QED
      BY <3>4
  <2>4. /\ found' \in Seq(Nat) /\ Ascends(found') /\ found' # << >> /\ Last(found') = current_minimum
        /\ ToSet(found') = ToSet(found) \cup {current_minimum} /\ result' = TRUE
    <3>1. PICK s : s = found
      OBVIOUS
    <3>2. PICK x : x = current_minimum
      OBVIOUS
    <3>3. PICK t : t = found'
      OBVIOUS
    <3>4. s \in Seq(Nat) /\ Ascends(s) /\ x \in Nat /\ (\A w \in ToSet(s) : w < x) /\ t = Append(s, x)
      BY <1>1, <2>1, <2>3, <3>1, <3>2, <3>3 DEF WalkTypes
    <3>5. /\ t \in Seq(Nat) /\ Ascends(t) /\ t # << >> /\ Last(t) = x
          /\ ToSet(t) = ToSet(s) \cup {x}
      BY <3>4, FoundGrows
    <3>6. QED
      BY <1>1, <2>3, <3>1, <3>2, <3>3, <3>5
  <2>5. Done' = Done
    BY <1>6, <2>1, <2>4 DEF Done
  <2>6. WalkTypes'
    BY <1>1, <2>4 DEF WalkTypes
  <2>7. VectorsInv(o)'
    BY <1>1, <1>2, <1>3, <1>4, <1>7, <2>1, <2>4, <2>5 DEF VectorsInv
  <2>8. HoldersInv(o, c)'
    <3>1. Holders(current_minimum)' = Holders(current_minimum)
      BY <1>1, <1>3 DEF Holders
    <3>2. QED
      BY <1>1, <1>6, <1>7, <2>2, <2>4, <3>1 DEF HoldersInv
  <2>9. HasOriginals'
    BY <1>2, <1>3, <2>7, <2>8 DEF HasOriginals
  <2>10. InScan'
    BY <1>1, <1>6 DEF InScan
  <2>11. BetweenScans'
    <3>1. \A k \in 1 .. Len(vectors) : \A w \in ToSet(found') : w < Value(k)
      <4>1. ASSUME NEW k \in 1 .. Len(vectors), NEW w \in ToSet(found') PROVE w < Value(k)
        <5>1. Value(k) \in Nat /\ current_minimum < Value(k)
          BY <2>1, StandingFacts
        <5>2. found \in Seq(Nat)
          BY DEF WalkTypes
        <5>3. ToSet(found) \subseteq Nat
          BY <5>2, ElementOfSeq, LenProperties DEF ToSet
        <5>4. QED
          BY <2>1, <2>4, <5>1, <5>3
      <4>2. QED
        BY <4>1
    <3>2. vectors # << >> => IsLeast(next_minimum, FirstValues(Len(vectors)))
      <4>1. vectors # << >> => i # 1 /\ i - 1 = Len(vectors)
        <5>1. vectors # << >> => Len(vectors) # 0
          BY EmptySeq DEF WalkTypes
        <5>2. QED
          BY <1>5, <2>1, <5>1
      <4>2. QED
        BY <2>1, <4>1 DEF LeastSoFar
    <3>3. (FirstValues(Len(vectors)))' = FirstValues(Len(vectors))
      BY <1>1 DEF FirstValues, Value
    <3>4. QED
      BY <1>1, <1>4, <2>1, <2>4, <3>1, <3>2, <3>3 DEF BetweenScans, IsLeast
  <2>12. QED
    BY <1>1, <2>3, <2>6, <2>9, <2>10, <2>11 DEF ExistentialStep, ExistentialInv
<1>10. QED
  BY <1>8, <1>9

------------------------------------------------------------------------------
(***************************************************************************)
(* Pushing the vectors.                                                    *)
(***************************************************************************)
(* A vector comes behind those that were pushed.                            *)
PushesVector ==
  /\ vectors' = Append(vectors, input.vectors[pushed + 1])
  /\ position' = Append(position, 1)

(* While vectors are pushed, nothing is found.                              *)
LEMMA PushFacts ==
  ASSUME WalkTypes, Push
  PROVE  /\ at = "idle" /\ result /\ found = << >> /\ currently_synchronized = << >>
         /\ ToSet(found) = {} /\ pushed \in Nat /\ Len(vectors) \in Nat
         /\ pushed + 1 \in Indices /\ pushed' = pushed + 1 /\ pushed' \in 0 .. Len(input.vectors)
         /\ \A j : j \in 1 .. pushed + 1 <=> j \in 1 .. pushed \/ j = pushed + 1
         /\ UNCHANGED <<input, synchronized, current_minimum, currently_synchronized, i,
                        at, result, found, sought, answers>>
<1>1. /\ at = "idle" /\ result /\ found = << >> /\ currently_synchronized = << >>
      /\ pushed \in 0 .. Len(input.vectors) /\ pushed # Len(input.vectors)
      /\ pushed' = pushed + 1
      /\ UNCHANGED <<input, synchronized, current_minimum, currently_synchronized, i,
                     at, result, found, sought, answers>>
  BY DEF WalkTypes, Push, AllPushed
<1>2. Len(input.vectors) \in Nat /\ Len(vectors) \in Nat
  BY GivenFacts, LenProperties DEF WalkTypes
<1>3. /\ pushed + 1 \in Indices /\ pushed \in Nat /\ pushed' \in 0 .. Len(input.vectors)
      /\ \A j : j \in 1 .. pushed + 1 <=> j \in 1 .. pushed \/ j = pushed + 1
  BY <1>1, <1>2 DEF Indices
<1>4. ToSet(found) = {}
  BY <1>1 DEF ToSet
<1>5. QED
  BY <1>1, <1>2, <1>3, <1>4

(* Where a pushed vector stands.                                            *)
LEMMA PushedVector ==
  ASSUME WalkTypes, Push, PushesVector
  PROVE  /\ WalkTypes'
         /\ Len(vectors') = Len(vectors) + 1
         /\ vectors'[Len(vectors) + 1] = input.vectors[pushed + 1]
         /\ \A k \in 1 .. Len(vectors') : k = Len(vectors) + 1 \/ k \in 1 .. Len(vectors)
         /\ \A k \in 1 .. Len(vectors) :
              /\ vectors'[k] = vectors[k] /\ position'[k] = position[k]
              /\ (Ended(k)' <=> Ended(k)) /\ Value(k)' = Value(k) /\ PassedBy(k)' = PassedBy(k)
         /\ position'[Len(vectors) + 1] = 1
<1>1. PICK l \in Nat : l = Len(vectors)
  BY PushFacts
<1>2. PICK v : v = input.vectors[pushed + 1]
  OBVIOUS
<1>3. v \in Seq(Nat) /\ Ascends(v) /\ Len(v) \in Nat
  BY <1>2, PushFacts, GivenFacts, LenProperties DEF WalkTypes
<1>4. /\ vectors' \in Seq(Seq(Nat)) /\ Len(vectors') = l + 1 /\ vectors'[l + 1] = v
      /\ \A k \in 1 .. l : vectors'[k] = vectors[k]
  <2>1. vectors \in Seq(Seq(Nat)) /\ vectors' = Append(vectors, v)
    BY <1>2 DEF PushesVector, WalkTypes
  <2>2. QED
    BY <1>1, <1>3, <2>1, AppendProperties
<1>5. /\ position' \in Seq(Nat) /\ Len(position') = l + 1 /\ position'[l + 1] = 1
      /\ \A k \in 1 .. l : position'[k] = position[k]
  <2>1. position \in Seq(Nat) /\ position' = Append(position, 1) /\ 1 \in Nat /\ Len(position) = l
    BY <1>1 DEF PushesVector, WalkTypes
  <2>2. QED
    BY <2>1, AppendProperties
<1>6. \A k \in 1 .. l + 1 : k = l + 1 \/ k \in 1 .. l
  OBVIOUS
<1>7. WalkTypes'
  <2>1. ASSUME NEW k \in 1 .. l + 1
        PROVE  Ascends(vectors'[k]) /\ position'[k] \in 1 .. Len(vectors'[k]) + 1
    <3>1. CASE k = l + 1
      BY <1>3, <1>4, <1>5, <3>1
    <3>2. CASE k \in 1 .. l
      BY <1>1, <1>4, <1>5, <3>2, StandingFacts
    <3>3. QED
      BY <1>6, <3>1, <3>2
  <2>2. QED
    BY <1>4, <1>5, <2>1, PushFacts DEF WalkTypes
<1>8. \A k \in 1 .. l : /\ (Ended(k)' <=> Ended(k)) /\ Value(k)' = Value(k)
                        /\ PassedBy(k)' = PassedBy(k)
  BY <1>4, <1>5 DEF Ended, Value, PassedBy
<1>9. QED
  BY <1>1, <1>2, <1>4, <1>5, <1>6, <1>7, <1>8

(* push_back keeps what the universal iterator relies on.                   *)
LEMMA PushUniversalStep ==
  ASSUME WalkTypes, UniversalInv, kind = "universal", Push
  PROVE  UniversalStep
<1>1. PushesVector /\ next_minimum' = next_minimum
  BY DEF Push, PushesVector
<1>2. /\ at = "idle" /\ result /\ found = << >> /\ ToSet(found) = {} /\ synchronized = FALSE
      /\ Len(vectors) \in Nat
      /\ UNCHANGED <<input, synchronized, i, at, result, found>>
  BY PushFacts DEF UniversalInv, StandsOnFound
<1>3. InAll' = InAll /\ ToSet(found') = {}
  BY <1>2, GivenStays
<1>4. Together'
  <2>1. ASSUME NEW k \in 1 .. Len(vectors') PROVE vectors'[k] = input.vectors[k]
    <3>1. Len(vectors) = pushed
      BY DEF UniversalInv, Together
    <3>2. CASE k = Len(vectors) + 1
      BY <1>1, <3>1, <3>2, PushedVector
    <3>3. CASE k \in 1 .. Len(vectors)
      BY <1>1, <3>3, PushedVector DEF UniversalInv, Together
    <3>4. QED
      BY <1>1, <3>2, <3>3, PushedVector
  <2>2. Len(vectors') = pushed'
    BY <1>1, PushFacts, PushedVector DEF UniversalInv, Together
  <2>3. QED
    BY <1>2, <1>3, <2>1, <2>2 DEF Together
<1>5. PassedFound'
  <2>1. PICK l : l = Len(vectors)
    OBVIOUS
  <2>2. /\ \A k \in 1 .. Len(vectors') : k = l + 1 \/ k \in 1 .. l
        /\ \A k \in 1 .. l : PassedBy(k)' = PassedBy(k)
    BY <1>1, <2>1, PushedVector
  <2>3. PassedBy(l + 1)' = {}
    <3>1. vectors'[l + 1] = input.vectors[pushed + 1] /\ position'[l + 1] = 1
      BY <1>1, <2>1, PushedVector
    <3>2. QED
      BY <3>1 DEF PassedBy, PassedIn
  <2>4. QED
    BY <1>2, <1>3, <2>1, <2>2, <2>3 DEF UniversalInv, PassedFound
<1>6. QED
  BY <1>1, <1>2, <1>3, <1>4, <1>5, PushedVector
  DEF UniversalStep, UniversalInv, FoundBehind, StandsOnFound, SomeEnded, InFor, InWhile

(* push_back keeps what the existential iterator relies on.                 *)
LEMMA PushExistentialStep ==
  ASSUME WalkTypes, ExistentialInv, kind # "universal", Push
  PROVE  ExistentialStep
<1>1. /\ at = "idle" /\ result /\ found = << >> /\ ToSet(found) = {}
      /\ currently_synchronized = << >> /\ pushed \in Nat /\ Len(vectors) \in Nat
      /\ pushed + 1 \in Indices /\ pushed' = pushed + 1 /\ pushed' \in 0 .. Len(input.vectors)
      /\ \A j : j \in 1 .. pushed + 1 <=> j \in 1 .. pushed \/ j = pushed + 1
      /\ UNCHANGED <<input, synchronized, currently_synchronized, i, at, result, found>>
  BY PushFacts
<1>2. PICK o, c \in Seq(Indices) : VectorsInv(o) /\ HoldersInv(o, c)
  BY DEF ExistentialInv, HasOriginals
<1>3. /\ Indices' = Indices /\ InAny' = InAny /\ \A j : Held(j)' = Held(j)
  BY <1>1, GivenStays
<1>4. Done = {} /\ Done' = {} /\ ~Scanning'
  BY <1>1 DEF Done, Scanning
<1>5. PICK v : v = input.vectors[pushed + 1]
  OBVIOUS
<1>6. v \in Seq(Nat) /\ Held(pushed + 1) = ToSet(v)
  BY <1>1, <1>5, GivenFacts DEF WalkTypes, Held
<1>7. InScan'
  BY <1>1, <1>4 DEF InScan
<1>8. \A d : HoldersInv(d, c)'
  BY <1>1, <1>2, <1>3, <1>4 DEF HoldersInv, Originals
<1>9. CASE v = << >>
  <2>1. UNCHANGED <<vectors, position, next_minimum>>
    BY <1>5, <1>9 DEF Push
  <2>2. /\ \A k : (Ended(k)' <=> Ended(k)) /\ Value(k)' = Value(k) /\ PassedBy(k)' = PassedBy(k)
        /\ \A m : FirstValues(m)' = FirstValues(m)
    BY <2>1 DEF Ended, Value, PassedBy, FirstValues
  <2>3. WalkTypes'
    BY <1>1, <2>1 DEF WalkTypes
  <2>4. VectorsInv(o)'
    <3>1. Originals(o, vectors)'
      BY <1>1, <1>2, <1>3, <2>1 DEF VectorsInv, Originals
    <3>2. Held(pushed + 1) = {}
      BY <1>6, <1>9 DEF ToSet
    <3>3. \A j \in 1 .. pushed' : j \notin ToSet(o) => Held(j)' \subseteq Done'
      BY <1>1, <1>2, <1>3, <1>4, <3>2 DEF VectorsInv
    <3>4. ToSet(o) \subseteq 1 .. pushed'
      BY <1>1, <1>2 DEF VectorsInv
    <3>5. \A k \in 1 .. Len(vectors') : PassedBy(k)' \subseteq Done'
      BY <1>2, <1>4, <2>1, <2>2 DEF VectorsInv
    <3>6. QED
      BY <1>1, <3>1, <3>3, <3>4, <3>5 DEF VectorsInv
  <2>5. HasOriginals'
    BY <1>2, <1>3, <1>8, <2>4 DEF HasOriginals
  <2>6. BetweenScans'
    BY <1>1, <2>1, <2>2 DEF BetweenScans, ExistentialInv, IsLeast
  <2>7. QED
    BY <1>1, <1>7, <2>3, <2>5, <2>6 DEF ExistentialStep, ExistentialInv
<1>10. CASE v # << >>
  <2>1. PushesVector
    BY <1>5, <1>10 DEF Push, PushesVector
  <2>2. next_minimum' = IF vectors = << >> \/ next_minimum > Head(v) THEN Head(v) ELSE next_minimum
    BY <1>5, <1>10 DEF Push
  <2>3. PICK l \in Nat : l = Len(vectors)
    BY <1>1
  <2>4. /\ WalkTypes' /\ Len(vectors') = l + 1 /\ vectors'[l + 1] = v /\ position'[l + 1] = 1
        /\ \A k \in 1 .. l + 1 : k = l + 1 \/ k \in 1 .. l
        /\ \A k \in 1 .. l :
             /\ vectors'[k] = vectors[k]
             /\ (Ended(k)' <=> Ended(k)) /\ Value(k)' = Value(k) /\ PassedBy(k)' = PassedBy(k)
    BY <1>5, <2>1, <2>3, PushedVector
  <2>5. Len(v) \in Nat \ {0} /\ Head(v) = v[1] /\ v[1] \in Nat
    BY <1>6, <1>10, EmptySeq, ElementOfSeq
  <2>6. ~Ended(l + 1)' /\ Value(l + 1)' = v[1] /\ PassedBy(l + 1)' = {}
    BY <2>4, <2>5 DEF Ended, Value, PassedBy, PassedIn
  <2>7. PICK d : d = Append(o, pushed + 1)
    OBVIOUS
  <2>8. /\ d \in Seq(Indices) /\ Len(d) = l + 1 /\ d[l + 1] = pushed + 1
        /\ \A k \in 1 .. l : d[k] = o[k]
        /\ ToSet(d) = ToSet(o) \cup {pushed + 1} /\ OneToOne(d)
    <3>1. PICK D : D = Indices
      OBVIOUS
    <3>2. PICK x : x = pushed + 1
      OBVIOUS
    <3>3. o \in Seq(D) /\ x \in D /\ d = Append(o, x) /\ OneToOne(o) /\ x \notin ToSet(o) /\ Len(o) = l
      <4>1. ToSet(o) \subseteq 1 .. pushed /\ pushed + 1 \notin 1 .. pushed
        BY <1>1, <1>2 DEF VectorsInv
      <4>2. QED
        BY <1>1, <1>2, <2>3, <2>7, <3>1, <3>2, <4>1 DEF VectorsInv, Originals
    <3>4. d \in Seq(D) /\ IsOneLonger(d, o, x)
      BY <3>3, AppendOne
    <3>5. QED
      BY <3>1, <3>2, <3>3, <3>4 DEF IsOneLonger
  <2>9. VectorsInv(d)'
    <3>1. Originals(d, vectors)'
      <4>1. \A k \in 1 .. l : vectors[k] = input.vectors[o[k]]
        BY <1>2, <2>3 DEF VectorsInv, Originals
      <4>2. \A k \in 1 .. l + 1 : vectors'[k] = input.vectors[d[k]]
        BY <1>5, <2>4, <2>8, <4>1
      <4>3. QED
        BY <1>1, <1>3, <2>4, <2>8, <4>2 DEF Originals
    <3>2. \A j \in 1 .. pushed' : j \notin ToSet(d) => Held(j)' \subseteq Done'
      BY <1>1, <1>2, <1>3, <1>4, <2>8 DEF VectorsInv
    <3>3. ToSet(d) \subseteq 1 .. pushed'
      BY <1>1, <1>2, <2>8 DEF VectorsInv
    <3>4. \A k \in 1 .. Len(vectors') : PassedBy(k)' \subseteq Done'
      BY <1>2, <1>4, <2>3, <2>4, <2>6 DEF VectorsInv
    <3>5. QED
      BY <1>1, <3>1, <3>2, <3>3, <3>4 DEF VectorsInv
  <2>10. HasOriginals'
    BY <1>2, <1>3, <1>8, <2>8, <2>9 DEF HasOriginals
  <2>11. BetweenScans'
    <3>1. \A w : w \in (FirstValues(l + 1))' <=> w \in FirstValues(l) \/ w = v[1]
      <4>1. \A w : w \in (FirstValues(l + 1))' <=> \E k \in 1 .. l + 1 : w = Value(k)'
        BY DEF FirstValues
      <4>2. \A w : w \in FirstValues(l) <=> \E k \in 1 .. l : w = Value(k)
        BY DEF FirstValues
      <4>3. \A k : k \in 1 .. l \/ k = l + 1 => k \in 1 .. l + 1
        OBVIOUS
      <4>4. QED
        BY <2>4, <2>6, <4>1, <4>2, <4>3
    <3>2. IsLeast(next_minimum', FirstValues(l + 1)')
      <4>1. CASE vectors = << >>
        <5>1. FirstValues(l) = {}
          BY <2>3, <4>1 DEF FirstValues
        <5>2. QED
          BY <2>2, <2>5, <3>1, <4>1, <5>1 DEF IsLeast
      <4>2. CASE vectors # << >>
        <5>1. IsLeast(next_minimum, FirstValues(l))
          BY <1>1, <2>3, <4>2 DEF ExistentialInv, BetweenScans
        <5>2. FirstValues(l) \subseteq Nat
          BY <1>1, <2>3, StandingFacts DEF FirstValues, ExistentialInv, BetweenScans
        <5>3. next_minimum \in Nat
          BY <5>1, <5>2 DEF IsLeast
        <5>4. CASE next_minimum > v[1]
          <6>1. next_minimum' = v[1]
            BY <2>2, <2>5, <5>4
          <6>2. \A w \in FirstValues(l) : v[1] <= w
            BY <2>5, <5>1, <5>2, <5>3, <5>4 DEF IsLeast
          <6>3. QED
            BY <2>5, <3>1, <6>1, <6>2 DEF IsLeast
        <5>5. CASE ~(next_minimum > v[1])
          <6>1. next_minimum' = next_minimum
            BY <2>2, <2>5, <4>2, <5>5
          <6>2. next_minimum <= v[1]
            BY <2>5, <5>3, <5>5
          <6>3. QED
            BY <3>1, <5>1, <6>1, <6>2 DEF IsLeast
        <5>6. QED
          BY <5>4, <5>5
      <4>3. QED
        BY <4>1, <4>2
    <3>3. \A k \in 1 .. Len(vectors') : ~Ended(k)'
      BY <1>1, <2>3, <2>4, <2>6 DEF ExistentialInv, BetweenScans
    <3>4. IsLeast(next_minimum, FirstValues(Len(vectors)))'
      <4>1. (FirstValues(Len(vectors)))' = FirstValues(l + 1)'
        BY <2>4 DEF FirstValues
      <4>2. QED
        BY <3>2, <4>1 DEF IsLeast
    <3>5. QED
      BY <1>1, <3>3, <3>4 DEF BetweenScans
  <2>12. QED
    BY <1>1, <1>7, <2>4, <2>10, <2>11 DEF ExistentialStep, ExistentialInv
<1>11. QED
  BY <1>9, <1>10

------------------------------------------------------------------------------
(***************************************************************************)
(* synchronize_with: what is sought and what was answered.                 *)
(***************************************************************************)
AnsweredAsAsked ==
  /\ sought \in Seq(Nat) /\ answers \in Seq(BOOLEAN)
  /\ Len(answers) + Len(sought) = Len(input.sought)
  /\ \A m \in 1 .. Len(sought) : sought[m] = input.sought[Len(answers) + m]

(* Whether a value is found when synchronize_with stops looking for it.     *)
LEMMA FoundIffThere ==
  ASSUME WalkTypes, ExistentialInv, SoughtInv, AllPushed, at = "idle", sought # << >>, ~Behind
  PROVE  (currently_synchronized # << >> /\ current_minimum = Head(sought))
           <=> Head(sought) \in InAny
<1>1. PICK v : v = Head(sought)
  OBVIOUS
<1>2. 1 \in 1 .. Len(sought) /\ v = sought[1] /\ v \in Nat
  BY <1>1, SoughtAscends
<1>3. PICK o, c \in Seq(Indices) : VectorsInv(o) /\ HoldersInv(o, c)
  BY DEF ExistentialInv, HasOriginals
<1>4. ~Scanning /\ Done = ToSet(found)
  BY DEF Scanning, Done
<1>5. /\ found \in Seq(Nat) /\ Len(found) \in Nat
      /\ \A w \in ToSet(found) : \E n \in 1 .. Len(found) : w = found[n]
  BY LenProperties DEF WalkTypes, ToSet
<1>6. currently_synchronized # << >> =>
        /\ found # << >> /\ Len(found) \in 1 .. Len(found) /\ current_minimum = found[Len(found)]
        /\ current_minimum \in ToSet(found) /\ current_minimum \in Nat
  <2>1. SUFFICES ASSUME currently_synchronized # << >>
                 PROVE  /\ found # << >> /\ Len(found) \in 1 .. Len(found)
                        /\ current_minimum = found[Len(found)]
                        /\ current_minimum \in ToSet(found) /\ current_minimum \in Nat
    OBVIOUS
  <2>2. found # << >> /\ Last(found) = current_minimum
    BY <1>3, <2>1 DEF HoldersInv
  <2>3. Len(found) \in 1 .. Len(found)
    BY <1>5, <2>2, EmptySeq
  <2>4. QED
    BY <1>5, <2>2, <2>3, ElementOfSeq DEF Last, ToSet
<1>7. ASSUME currently_synchronized # << >>, current_minimum = v
      PROVE  v \in InAny
  BY <1>3, <1>6, <1>7 DEF VectorsInv
<1>8. ASSUME v \in InAny
      PROVE  currently_synchronized # << >> /\ current_minimum = v
  <2>1. v \in Done \/ \E k \in 1 .. Len(vectors) : v \in AheadOf(k)
    BY <1>3, <1>8, WhereValuesAre
  <2>2. ASSUME v \in Done PROVE currently_synchronized # << >> /\ current_minimum = v
    <3>1. PICK n \in 1 .. Len(found) : v = found[n]
      BY <1>4, <1>5, <2>2
    <3>2. ~(found[n] < sought[1])
      BY <1>2, <3>1
    <3>3. currently_synchronized # << >> /\ n = Len(found)
      BY <1>2, <3>2 DEF SoughtInv, SoughtBehind
    <3>4. QED
      BY <1>6, <3>1, <3>3
  <2>3. ASSUME NEW k \in 1 .. Len(vectors), v \in AheadOf(k) PROVE FALSE
    <3>1. Value(k) <= v /\ Value(k) \in Nat /\ \A w \in ToSet(found) : w < Value(k)
      BY <2>3, StandingFacts DEF ExistentialInv, BetweenScans
    <3>2. ~Dry
      <4>1. Len(vectors) # 0
        OBVIOUS
      <4>2. QED
        BY <4>1 DEF Dry
    <3>3. result
      BY <3>2 DEF ExistentialInv, BetweenScans
    <3>4. currently_synchronized # << >> /\ ~(current_minimum < v)
      BY <1>1, <3>3 DEF Behind
    <3>5. QED
      BY <1>2, <1>6, <3>1, <3>4
  <2>4. QED
    BY <2>1, <2>2, <2>3
<1>9. QED
  BY <1>1, <1>7, <1>8

(* synchronize_with answers, or looks on.                                   *)
LEMMA AnswerStep ==
  ASSUME WalkTypes, ExistentialInv, SoughtInv, Answer
  PROVE  ExistentialStep /\ SoughtInv'
<1>1. /\ at = "idle" /\ at' = "idle" /\ sought # << >> /\ ~Behind /\ result' = TRUE
      /\ sought' = Tail(sought)
      /\ answers' = Append(answers, currently_synchronized # << >> /\ current_minimum = Head(sought))
      /\ UNCHANGED <<input, pushed, vectors, position, synchronized, next_minimum,
                     current_minimum, currently_synchronized, i, found>>
  BY DEF Answer
<1>2. AllPushed
  BY <1>1 DEF WalkTypes, Behind
<1>3. /\ Indices' = Indices /\ InAny' = InAny /\ \A j : Held(j)' = Held(j)
      /\ \A v : Holders(v)' = Holders(v)
  BY <1>1, GivenStays
<1>4. /\ \A k : (Ended(k)' <=> Ended(k)) /\ Value(k)' = Value(k) /\ PassedBy(k)' = PassedBy(k)
      /\ \A m : FirstValues(m)' = FirstValues(m)
      /\ Done' = Done /\ (Scanning' <=> Scanning) /\ ~Scanning
  BY <1>1 DEF Ended, Value, PassedBy, FirstValues, Done, Scanning, Dry
<1>5. WalkTypes'
  BY <1>1, <1>2 DEF WalkTypes, AllPushed
<1>6. ExistentialInv'
  <2>1. PICK o, c \in Seq(Indices) : VectorsInv(o) /\ HoldersInv(o, c)
    BY DEF ExistentialInv, HasOriginals
  <2>2. VectorsInv(o)'
    BY <1>1, <1>3, <1>4, <2>1 DEF VectorsInv, Originals
  <2>3. HoldersInv(o, c)'
    <3>1. Originals(c, currently_synchronized)'
      BY <1>1, <1>3, <2>1 DEF HoldersInv, Originals
    <3>2. Holders(current_minimum)' = Holders(current_minimum)
      BY <1>1, <1>3 DEF Holders
    <3>3. QED
      BY <1>1, <1>4, <2>1, <3>1, <3>2 DEF HoldersInv
  <2>4. HasOriginals'
    BY <1>3, <2>1, <2>2, <2>3 DEF HasOriginals
  <2>5. InScan'
    BY <1>1, <1>4 DEF InScan
  <2>6. BetweenScans'
    BY <1>1, <1>4 DEF BetweenScans, ExistentialInv, IsLeast
  <2>7. QED
    BY <1>1, <2>4, <2>5, <2>6 DEF ExistentialInv
<1>7. PICK b \in BOOLEAN : b = (currently_synchronized # << >> /\ current_minimum = Head(sought))
  OBVIOUS
<1>8. b <=> Head(sought) \in InAny
  BY <1>1, <1>2, <1>7, FoundIffThere
<1>9. AnsweredAsAsked
  BY DEF SoughtInv, AnsweredAsAsked
<1>10. PICK k \in Nat : k = Len(answers)
  BY <1>9, LenProperties DEF AnsweredAsAsked
<1>11. PICK l \in Nat : l + 1 = Len(sought) /\ 1 \in 1 .. Len(sought) /\ Head(sought) = sought[1]
  <2>1. Len(sought) \in Nat \ {0} /\ Head(sought) = sought[1]
    BY <1>1, <1>9, EmptySeq DEF AnsweredAsAsked
  <2>2. Len(sought) - 1 \in Nat /\ (Len(sought) - 1) + 1 = Len(sought) /\ 1 \in 1 .. Len(sought)
    BY <2>1
  <2>3. QED
    BY <2>1, <2>2
<1>12. /\ answers' \in Seq(BOOLEAN) /\ Len(answers') = k + 1 /\ answers'[k + 1] = b
       /\ \A n \in 1 .. k : answers'[n] = answers[n]
  <2>1. PICK s : s = answers
    OBVIOUS
  <2>2. s \in Seq(BOOLEAN) /\ answers' = Append(s, b) /\ k = Len(s)
    BY <1>1, <1>7, <1>9, <1>10, <2>1 DEF AnsweredAsAsked
  <2>3. /\ Append(s, b) \in Seq(BOOLEAN) /\ Len(Append(s, b)) = Len(s) + 1
        /\ Append(s, b)[Len(s) + 1] = b
        /\ \A n \in 1 .. Len(s) : Append(s, b)[n] = s[n]
    BY <2>2, AppendProperties
  <2>4. QED
    BY <2>1, <2>2, <2>3
<1>13. /\ sought' \in Seq(Nat) /\ Len(sought') = l
       /\ \A m \in 1 .. l : sought'[m] = sought[m + 1]
  <2>1. sought \in Seq(Nat) /\ sought # << >>
    BY <1>1, <1>9 DEF AnsweredAsAsked
  <2>2. /\ Tail(sought) \in Seq(Nat) /\ Len(Tail(sought)) = Len(sought) - 1
        /\ \A m \in 1 .. Len(Tail(sought)) : Tail(sought)[m] = sought[m + 1]
    BY <2>1, HeadTailProperties
  <2>3. QED
    BY <1>1, <1>11, <2>2
<1>14. \A m \in 1 .. l : m + 1 \in 1 .. Len(sought)
  BY <1>11
<1>15. AnsweredAsAsked'
  <2>1. Len(answers') + Len(sought') = Len(input'.sought)
    <3>1. Len(input.sought) = k + (l + 1)
      BY <1>9, <1>10, <1>11 DEF AnsweredAsAsked
    <3>2. Len(answers') + Len(sought') = (k + 1) + l /\ input' = input
      BY <1>1, <1>12, <1>13
    <3>3. QED
      BY <3>1, <3>2
  <2>2. ASSUME NEW m \in 1 .. l PROVE sought'[m] = input.sought[(k + 1) + m]
    <3>1. sought[m + 1] = input.sought[k + (m + 1)]
      BY <1>9, <1>10, <1>14 DEF AnsweredAsAsked
    <3>2. k + (m + 1) = (k + 1) + m
      OBVIOUS
    <3>3. QED
      BY <1>13, <3>1, <3>2
  <2>3. QED
    BY <1>1, <1>12, <1>13, <2>1, <2>2 DEF AnsweredAsAsked
<1>16. SoughtBehind'
  <2>1. ASSUME NEW n \in 1 .. Len(found), NEW m \in 1 .. l
        PROVE  \/ found[n] < sought'[m]
               \/ at = "idle" /\ currently_synchronized # << >> /\ n = Len(found)
    <3>1. sought'[m] = sought[m + 1] /\ m + 1 \in 1 .. Len(sought)
      BY <1>13, <1>14
    <3>2. QED
      BY <3>1 DEF SoughtInv, SoughtBehind
  <2>2. QED
    BY <1>1, <1>13, <2>1 DEF SoughtBehind
<1>17. FindsWhatIsThere'
  <2>1. \A n \in 1 .. k + 1 : n = k + 1 \/ n \in 1 .. k
    OBVIOUS
  <2>2. ASSUME NEW n \in 1 .. k PROVE answers'[n] <=> input.sought[n] \in InAny
    BY <1>10, <1>12 DEF SoughtInv, FindsWhatIsThere
  <2>3. answers'[k + 1] <=> input.sought[k + 1] \in InAny
    <3>1. sought[1] = input.sought[k + 1]
      BY <1>9, <1>10, <1>11 DEF AnsweredAsAsked
    <3>2. QED
      BY <1>8, <1>11, <1>12, <3>1
  <2>4. QED
    BY <1>1, <1>3, <1>12, <2>1, <2>2, <2>3 DEF FindsWhatIsThere
<1>18. QED
  BY <1>5, <1>6, <1>15, <1>16, <1>17 DEF ExistentialStep, SoughtInv, AnsweredAsAsked

(* What synchronize_with looks for still lies behind after a step.          *)
LEMMA SoughtKept ==
  ASSUME WalkTypes, ExistentialInv, SoughtInv, kind = "synchronize_with",
         UNCHANGED <<input, sought, answers>>,
         \/ UNCHANGED <<at, found, currently_synchronized>>
         \/ at = "scan" /\ at' = "scan" /\ found' = found
         \/ BeginExistential
         \/ EndOfScan
  PROVE  SoughtInv'
<1>1. FindsWhatIsThere'
  BY GivenStays DEF SoughtInv, FindsWhatIsThere
<1>2. SoughtBehind'
  <2>1. CASE UNCHANGED <<at, found, currently_synchronized>>
    BY <2>1 DEF SoughtInv, SoughtBehind
  <2>2. CASE at = "scan" /\ at' = "scan" /\ found' = found
    BY <2>2 DEF SoughtInv, SoughtBehind
  <2>3. CASE BeginExistential
    <3>1. /\ at = "idle" /\ at' = "scan" /\ found' = found
          /\ sought # << >> => currently_synchronized = << >> \/ current_minimum < Head(sought)
      BY <2>3 DEF BeginExistential, MayCall, Behind
    <3>2. ASSUME NEW n \in 1 .. Len(found), NEW m \in 1 .. Len(sought) PROVE found[n] < sought[m]
      <4>1. CASE currently_synchronized # << >> /\ n = Len(found)
        <5>1. Len(sought) \in Nat /\ sought # << >>
          BY SoughtAscends
        <5>2. Head(sought) = sought[1] /\ 1 \in 1 .. Len(sought) /\ sought[1] \in Nat
              /\ sought[m] \in Nat /\ sought[1] <= sought[m]
          BY <5>1, SoughtAscends
        <5>3. PICK o, c \in Seq(Indices) : VectorsInv(o) /\ HoldersInv(o, c)
          BY DEF ExistentialInv, HasOriginals
        <5>4. found[n] = current_minimum
          BY <3>1, <4>1, <5>3 DEF HoldersInv, Last
        <5>5. found[n] \in Nat
          BY ElementOfSeq DEF WalkTypes
        <5>6. QED
          BY <3>1, <4>1, <5>1, <5>2, <5>4, <5>5
      <4>2. CASE ~(currently_synchronized # << >> /\ n = Len(found))
        BY <3>1, <4>2 DEF SoughtInv, SoughtBehind
      <4>3. QED
        BY <4>1, <4>2
    <3>3. QED
      BY <3>1, <3>2 DEF SoughtBehind
  <2>4. CASE EndOfScan
    <3>1. /\ at = "scan" /\ at' = "idle" /\ currently_synchronized' = currently_synchronized
          /\ found' = IF currently_synchronized # << >> THEN Append(found, current_minimum)
                                                       ELSE found
      BY <2>4 DEF EndOfScan, Return
    <3>2. \A n \in 1 .. Len(found) : \A m \in 1 .. Len(sought) : found[n] < sought[m]
      BY <3>1 DEF SoughtInv, SoughtBehind
    <3>3. CASE currently_synchronized = << >>
      BY <3>1, <3>2, <3>3 DEF SoughtBehind
    <3>4. CASE currently_synchronized # << >>
      <4>1. found' = Append(found, current_minimum) /\ found \in Seq(Nat)
        BY <3>1, <3>4 DEF WalkTypes
      <4>2. current_minimum \in Nat
        <5>1. Scanning
          BY <3>1, <3>4 DEF Scanning, Dry
        <5>2. QED
          BY <5>1, GivenFacts DEF ExistentialInv, InScan, WalkTypes
      <4>3. PICK k \in Nat : k = Len(found)
        BY <4>1, LenProperties
      <4>4. /\ Len(found') = k + 1 /\ \A n \in 1 .. k : found'[n] = found[n]
            /\ \A n \in 1 .. k + 1 : n = k + 1 \/ n \in 1 .. k
        <5>1. PICK s : s = found
          OBVIOUS
        <5>2. PICK x : x = current_minimum
          OBVIOUS
        <5>3. s \in Seq(Nat) /\ x \in Nat /\ found' = Append(s, x) /\ k = Len(s)
          BY <4>1, <4>2, <4>3, <5>1, <5>2
        <5>4. /\ Len(Append(s, x)) = Len(s) + 1
              /\ \A n \in 1 .. Len(s) : Append(s, x)[n] = s[n]
          BY <5>3, AppendProperties
        <5>5. QED
          BY <5>1, <5>3, <5>4
      <4>5. QED
        BY <3>1, <3>2, <3>4, <4>3, <4>4 DEF SoughtBehind
    <3>5. QED
      BY <3>3, <3>4
  <2>5. QED
    BY <2>1, <2>2, <2>3, <2>4
<1>3. QED
  BY <1>1, <1>2 DEF SoughtInv

------------------------------------------------------------------------------
(***************************************************************************)
(* The invariant holds, and what follows from it.                          *)
(***************************************************************************)
LEMMA WalkInit == Init => WalkInv
<1> SUFFICES ASSUME Init PROVE WalkInv
  OBVIOUS
<1>1. /\ input \in Inputs /\ pushed = 0 /\ vectors = << >> /\ position = << >>
      /\ synchronized = FALSE /\ currently_synchronized = << >>
      /\ i = 0 /\ at = "idle" /\ result = TRUE /\ found = << >>
      /\ sought = input.sought /\ answers = << >>
  BY DEF Init
<1>2. /\ \A S : << >> \in Seq(S)
      /\ Len(<< >>) = 0 /\ ToSet(<< >>) = {} /\ \A k : ~(k \in 1 .. 0)
  <2>1. /\ \A S : << >> \in Seq(S)
        /\ Len(<< >>) = 0
    BY EmptySeq
  <2>2. \A k : ~(k \in 1 .. 0)
    OBVIOUS
  <2>3. ToSet(<< >>) = {}
    BY DEF ToSet
  <2>4. QED
    BY <2>1, <2>2, <2>3
<1>3. Len(input.vectors) \in Nat
  BY <1>1, GivenFacts
<1>4. WalkTypes
  <2>1. Ascends(<< >>)
    BY <1>2 DEF Ascends
  <2>2. 0 \in 0 .. Len(input.vectors) /\ 0 \in Nat
    BY <1>3
  <2>3. QED
    BY <1>1, <1>2, <2>1, <2>2 DEF WalkTypes
<1>5. UniversalInv
  BY <1>1, <1>2 DEF UniversalInv, Together, PassedFound, FoundBehind, StandsOnFound, SomeEnded,
                    InFor, InWhile
<1>6. ExistentialInv
  <2>1. ~Scanning /\ Done = {}
    BY <1>1, <1>2 DEF Scanning, Done
  <2>2. Originals(<< >>, << >>)
    BY EmptyOriginals
  <2>3. VectorsInv(<< >>) /\ HoldersInv(<< >>, << >>)
    BY <1>1, <1>2, <2>1, <2>2 DEF VectorsInv, HoldersInv
  <2>4. HasOriginals
    BY <1>2, <2>3 DEF HasOriginals
  <2>5. InScan /\ BetweenScans
    BY <1>1, <1>2, <2>1 DEF InScan, BetweenScans
  <2>6. QED
    BY <1>1, <2>4, <2>5 DEF ExistentialInv
<1>7. SoughtInv
  <2>1. input.sought \in Seq(Nat)
    BY <1>1, InputsAssumption
  <2>2. Len(input.sought) \in Nat
    BY <2>1, LenProperties
  <2>3. \A m \in 1 .. Len(sought) : m = 0 + m
    BY <1>1, <2>2
  <2>4. QED
    BY <1>1, <1>2, <2>1, <2>2, <2>3 DEF SoughtInv, SoughtBehind, FindsWhatIsThere
<1>8. QED
  BY <1>1, <1>4, <1>5, <1>6, <1>7 DEF WalkInv

(* A step that changes nothing.                                             *)
LEMMA StutterStep ==
  ASSUME WalkInv, UNCHANGED vars
  PROVE  WalkInv'
<1>1. UNCHANGED <<input, pushed, vectors, position, synchronized, next_minimum, current_minimum,
                  currently_synchronized, i, at, result, found, sought, answers>>
  BY DEF vars
<1>2. /\ Indices' = Indices /\ InAny' = InAny /\ InAll' = InAll /\ kind' = kind
      /\ \A j : Held(j)' = Held(j)
      /\ \A v : Holders(v)' = Holders(v)
  BY <1>1, GivenStays
<1>3. /\ \A k : /\ (Ended(k)' <=> Ended(k)) /\ Value(k)' = Value(k)
                /\ PassedBy(k)' = PassedBy(k) /\ AheadOf(k)' = AheadOf(k)
      /\ \A m : FirstValues(m)' = FirstValues(m)
      /\ Done' = Done /\ (Scanning' <=> Scanning) /\ (Dry' <=> Dry)
  BY <1>1 DEF Ended, Value, PassedBy, AheadOf, FirstValues, Done, Scanning, Dry
<1>4. WalkTypes => WalkTypes'
  BY <1>1 DEF WalkTypes, AllPushed
<1>5. UniversalInv => UniversalInv'
  BY <1>1, <1>2, <1>3 DEF UniversalInv, Together, PassedFound, FoundBehind, StandsOnFound,
                          SomeEnded, InFor, InWhile
<1>6. ExistentialInv => ExistentialInv'
  <2>1. SUFFICES ASSUME ExistentialInv PROVE ExistentialInv'
    OBVIOUS
  <2>2. PICK o, c \in Seq(Indices) : VectorsInv(o) /\ HoldersInv(o, c)
    BY <2>1 DEF ExistentialInv, HasOriginals
  <2>3. VectorsInv(o)'
    BY <1>1, <1>2, <1>3, <2>2 DEF VectorsInv, Originals
  <2>4. HoldersInv(o, c)'
    <3>1. Originals(c, currently_synchronized)'
      BY <1>1, <1>2, <2>2 DEF HoldersInv, Originals
    <3>2. Holders(current_minimum)' = Holders(current_minimum) /\ StandingFrom(o)' = StandingFrom(o)
      BY <1>1, <1>2, <1>3 DEF Holders, StandingFrom, Standing
    <3>3. QED
      BY <1>1, <1>3, <2>2, <3>1, <3>2 DEF HoldersInv
  <2>5. HasOriginals'
    BY <1>2, <2>2, <2>3, <2>4 DEF HasOriginals
  <2>6. InScan' /\ BetweenScans'
    BY <1>1, <1>2, <1>3, <2>1 DEF ExistentialInv, InScan, BetweenScans, LeastSoFar, IsLeast
  <2>7. QED
    BY <1>1, <2>1, <2>5, <2>6 DEF ExistentialInv
<1>7. SoughtInv => SoughtInv'
  BY <1>1, <1>2 DEF SoughtInv, SoughtBehind, FindsWhatIsThere
<1>8. QED
  BY <1>1, <1>2, <1>4, <1>5, <1>6, <1>7 DEF WalkInv

(* Every step keeps the invariant.                                          *)
LEMMA WalkStep == WalkInv /\ [Next]_vars => WalkInv'
<1> SUFFICES ASSUME WalkInv, [Next]_vars PROVE WalkInv'
  OBVIOUS
<1>1. WalkTypes /\ kind \in {"universal", "existential", "synchronize_with"}
  BY GivenFacts DEF WalkInv, WalkTypes
(* The steps of the universal iterator. *)
<1>2. ASSUME kind = "universal", UniversalStep, UNCHANGED <<input, answers>>
      PROVE  WalkInv'
  <2>1. kind' = kind
    BY <1>2, GivenStays
  <2>2. QED
    BY <1>2, <2>1 DEF WalkInv, UniversalStep
<1>3. ASSUME ExistentialInv, kind # "universal", ExistentialStep, UNCHANGED <<input, sought, answers>>,
             \/ UNCHANGED <<at, found, currently_synchronized>>
             \/ at = "scan" /\ at' = "scan" /\ found' = found
             \/ BeginExistential
             \/ EndOfScan
      PROVE  WalkInv'
  <2>1. kind' = kind
    BY <1>3, GivenStays
  <2>2. CASE kind = "synchronize_with"
    <3>1. SoughtInv'
      BY <1>1, <1>3, <2>2, SoughtKept DEF WalkInv
    <3>2. QED
      BY <1>3, <2>1, <2>2, <3>1 DEF WalkInv, ExistentialStep
  <2>3. CASE kind # "synchronize_with"
    BY <1>3, <2>1, <2>3 DEF WalkInv, ExistentialStep
  <2>4. QED
    BY <2>2, <2>3
<1>4. kind # "universal" => ExistentialInv /\ at \in {"idle", "scan"}
  BY DEF WalkInv, ExistentialInv
<1>5. kind = "universal" => UniversalInv /\ at \in {"idle", "for", "while"}
  BY DEF WalkInv, UniversalInv
<1>6. CASE Push
  <2>1. UNCHANGED <<input, sought, answers, at, found, currently_synchronized>>
    BY <1>6 DEF Push
  <2>2. CASE kind = "universal"
    BY <1>1, <1>2, <1>5, <1>6, <2>1, <2>2, PushUniversalStep
  <2>3. CASE kind # "universal"
    BY <1>1, <1>3, <1>4, <1>6, <2>1, <2>3, PushExistentialStep
  <2>4. QED
    BY <2>2, <2>3
<1>7. CASE BeginUniversal
  <2>1. kind = "universal" /\ UNCHANGED <<input, answers>>
    BY <1>7 DEF BeginUniversal, AsBefore
  <2>2. QED
    BY <1>1, <1>2, <1>5, <1>7, <2>1, BeginUniversalStep
<1>8. CASE NextVector
  <2>1. at = "for" /\ UNCHANGED <<input, answers>>
    BY <1>8 DEF NextVector, AsBefore
  <2>2. kind = "universal"
    BY <1>4, <2>1
  <2>3. QED
    BY <1>1, <1>2, <1>5, <1>8, <2>1, <2>2, NextVectorStep
<1>9. CASE Reached
  <2>1. at = "while" /\ UNCHANGED <<input, answers>>
    BY <1>9 DEF Reached, AsBefore
  <2>2. kind = "universal"
    BY <1>4, <2>1
  <2>3. QED
    BY <1>1, <1>2, <1>5, <1>9, <2>1, <2>2, ReachedStep
<1>10. CASE Follow
  <2>1. at = "while" /\ UNCHANGED <<input, answers>>
    BY <1>10 DEF Follow, Increment, AsBefore
  <2>2. kind = "universal"
    BY <1>4, <2>1
  <2>3. QED
    BY <1>1, <1>2, <1>5, <1>10, <2>1, <2>2, FollowStep
<1>11. CASE Lead
  <2>1. at = "while" /\ UNCHANGED <<input, answers>>
    BY <1>11 DEF Lead, Increment, AsBefore
  <2>2. kind = "universal"
    BY <1>4, <2>1
  <2>3. QED
    BY <1>1, <1>2, <1>5, <1>11, <2>1, <2>2, LeadStep
<1>12. CASE Answer
  <2>1. kind = "synchronize_with" /\ input' = input
    BY <1>12 DEF Answer
  <2>2. ExistentialStep /\ SoughtInv'
    BY <1>1, <1>4, <1>12, <2>1, AnswerStep DEF WalkInv
  <2>3. kind' = kind
    BY <2>1, GivenStays
  <2>4. QED
    BY <2>1, <2>2, <2>3 DEF WalkInv, ExistentialStep
<1>13. CASE BeginExistential
  <2>1. kind # "universal" /\ UNCHANGED <<input, sought, answers>>
    BY <1>13 DEF BeginExistential, AsBefore
  <2>2. QED
    BY <1>1, <1>3, <1>4, <1>13, <2>1, BeginExistentialStep
<1>14. CASE Drop
  <2>1. at = "scan" /\ at' = "scan" /\ found' = found /\ UNCHANGED <<input, sought, answers>>
    BY <1>14 DEF Drop, AsBefore
  <2>2. kind # "universal"
    BY <1>5, <2>1
  <2>3. QED
    BY <1>1, <1>3, <1>4, <1>14, <2>1, <2>2, DropStep
<1>15. CASE Collect
  <2>1. at = "scan" /\ at' = "scan" /\ found' = found /\ UNCHANGED <<input, sought, answers>>
    BY <1>15 DEF Collect, AsBefore
  <2>2. kind # "universal"
    BY <1>5, <2>1
  <2>3. QED
    BY <1>1, <1>3, <1>4, <1>15, <2>1, <2>2, CollectStep
<1>16. CASE Pass
  <2>1. at = "scan" /\ at' = "scan" /\ found' = found /\ UNCHANGED <<input, sought, answers>>
    BY <1>16 DEF Pass, AsBefore
  <2>2. kind # "universal"
    BY <1>5, <2>1
  <2>3. QED
    BY <1>1, <1>3, <1>4, <1>16, <2>1, <2>2, PassStep
<1>17. CASE EndOfScan
  <2>1. at = "scan" /\ UNCHANGED <<input, sought, answers>>
    BY <1>17 DEF EndOfScan, AsBefore
  <2>2. kind # "universal"
    BY <1>5, <2>1
  <2>3. QED
    BY <1>1, <1>3, <1>4, <1>17, <2>1, <2>2, EndOfScanStep
<1>18. CASE UNCHANGED vars
  BY <1>18, StutterStep
<1>19. QED
  BY <1>6, <1>7, <1>8, <1>9, <1>10, <1>11, <1>12, <1>13, <1>14, <1>15, <1>16, <1>17, <1>18 DEF Next

(* The inductive invariant holds always.                                    *)
LEMMA AlwaysWalkInv == Spec => []WalkInv
BY WalkInit, WalkStep, PTL DEF Spec

------------------------------------------------------------------------------
(* What the invariant says of the calls that have returned.                 *)

(* The value found last is the greatest.                                    *)
LEMMA LastIsGreatest ==
  ASSUME WalkTypes, found # << >>
  PROVE  /\ Last(found) \in ToSet(found) /\ Last(found) \in Nat
         /\ \A w \in ToSet(found) : w \in Nat /\ w <= Last(found)
<1>1. found \in Seq(Nat) /\ Ascends(found)
  BY DEF WalkTypes
<1>2. Len(found) \in Nat \ {0} /\ Last(found) = found[Len(found)]
  BY <1>1, EmptySeq DEF Last
<1>3. \A n \in 1 .. Len(found) : found[n] \in Nat /\ found[n] <= found[Len(found)]
  <2>1. ASSUME NEW n \in 1 .. Len(found) PROVE found[n] \in Nat /\ found[n] <= found[Len(found)]
    <3>1. found[n] \in Nat /\ found[Len(found)] \in Nat /\ Len(found) \in 1 .. Len(found)
      BY <1>1, <1>2, ElementOfSeq
    <3>2. n = Len(found) \/ n < Len(found)
      BY <1>2
    <3>3. QED
      BY <1>1, <3>1, <3>2 DEF Ascends
  <2>2. QED
    BY <2>1
<1>4. \A w \in ToSet(found) : \E n \in 1 .. Len(found) : w = found[n]
  BY <1>1, LenProperties DEF ToSet
<1>5. Last(found) \in ToSet(found)
  BY <1>1, <1>2, LenProperties DEF ToSet
<1>6. QED
  BY <1>2, <1>3, <1>4, <1>5

(* What the invariant says of the universal iterator.                       *)
LEMMA UniversalIsRight ==
  ASSUME WalkTypes, UniversalInv, kind = "universal"
  PROVE  EveryValueWithItsHolders
<1>1. PositionsSynchronized
  <2>1. ASSUME synchronized, NEW k \in 1 .. Len(vectors) PROVE ~Ended(k) /\ Value(k) = Value(1)
    <3>1. 1 \in 1 .. Len(vectors)
      BY LenProperties DEF WalkTypes
    <3>2. QED
      BY <2>1, <3>1 DEF UniversalInv, StandsOnFound
  <2>2. QED
    BY <2>1 DEF PositionsSynchronized
<1>2. ASSUME AllPushed, NEW v \in InAll, NEW k \in 1 .. Len(vectors)
      PROVE  v \in ToSet(found) \/ v \in AheadOf(k)
  BY <1>2, UniversalFacts DEF UniversalInv, PassedFound
<1>3. AllPushed => (InAll # {} => 1 \in 1 .. Len(vectors))
  <2>1. SUFFICES ASSUME AllPushed, NEW v \in InAll PROVE 1 \in 1 .. Len(vectors)
    OBVIOUS
  <2>2. PICK j \in Indices : v \in Held(j)
    BY DEF InAll, InAny
  <2>3. j \in 1 .. Len(vectors) /\ Len(vectors) \in Nat
    BY <2>1, UniversalFacts
  <2>4. QED
    BY <2>3
<1>4. IsBeginning(found, Wanted)
  <2>1. \A n \in 1 .. Len(found) - 1 : found[n] < found[n + 1]
    <3>1. Len(found) \in Nat /\ Ascends(found)
      BY LenProperties DEF WalkTypes
    <3>2. QED
      BY <3>1 DEF Ascends
  <2>2. ASSUME found # << >>, NEW v \in InAll, v <= Last(found) PROVE v \in ToSet(found)
    <3>1. AllPushed
      BY <2>2 DEF WalkTypes
    <3>2. 1 \in 1 .. Len(vectors)
      BY <1>3, <3>1
    <3>3. CASE v \in AheadOf(1)
      <4>1. Last(found) <= v
        BY <2>2, <3>2, <3>3, LastIsGreatest DEF UniversalInv, FoundBehind
      <4>2. v \in Nat
        BY GivenFacts DEF WalkTypes
      <4>3. v = Last(found)
        BY <2>2, <4>1, <4>2, LastIsGreatest
      <4>4. QED
        BY <2>2, <4>3, LastIsGreatest
    <3>4. QED
      BY <1>2, <3>1, <3>2, <3>3
  <2>3. QED
    BY <2>1, <2>2 DEF IsBeginning, Wanted, UniversalInv, Together
<1>5. ASSUME at = "idle", ~result PROVE ToSet(found) = Wanted
  <2>1. AllPushed
    BY <1>5 DEF WalkTypes
  <2>2. InAll \subseteq ToSet(found)
    <3>1. SUFFICES ASSUME NEW v \in InAll PROVE v \in ToSet(found)
      OBVIOUS
    <3>2. 1 \in 1 .. Len(vectors)
      BY <1>3, <2>1
    <3>3. vectors # << >>
      <4>1. Len(vectors) # 0
        BY <3>2
      <4>2. QED
        BY <4>1
    <3>4. PICK k \in 1 .. Len(vectors) : Ended(k)
      BY <1>5, <3>3 DEF UniversalInv, SomeEnded
    <3>5. AheadOf(k) = {}
      BY <3>4, StandingFacts
    <3>6. QED
      BY <1>2, <2>1, <3>5
  <2>3. QED
    BY <2>2 DEF Wanted, UniversalInv, Together
<1>6. QED
  BY <1>1, <1>4, <1>5 DEF EveryValueWithItsHolders, StopsAtEveryValue, ReturnsAllHolders

(* What the invariant says of the existential iterator.                     *)
LEMMA ExistentialIsRight ==
  ASSUME WalkTypes, ExistentialInv, kind # "universal"
  PROVE  EveryValueWithItsHolders
<1>1. PICK o, c \in Seq(Indices) : VectorsInv(o) /\ HoldersInv(o, c)
  BY DEF ExistentialInv, HasOriginals
<1>2. PositionsSynchronized
  BY DEF PositionsSynchronized, ExistentialInv
<1>3. IsBeginning(found, Wanted)
  <2>1. \A n \in 1 .. Len(found) - 1 : found[n] < found[n + 1]
    <3>1. Len(found) \in Nat /\ Ascends(found)
      BY LenProperties DEF WalkTypes
    <3>2. QED
      BY <3>1 DEF Ascends
  <2>2. ASSUME found # << >>, NEW v \in InAny, v <= Last(found) PROVE v \in ToSet(found)
    <3>1. AllPushed /\ v \in Nat
      BY <2>2, GivenFacts DEF WalkTypes
    <3>2. Last(found) \in ToSet(found) /\ Last(found) \in Nat
      BY <2>2, LastIsGreatest
    <3>3. ASSUME v \in Done PROVE v \in ToSet(found)
      <4>1. SUFFICES ASSUME Scanning, v = current_minimum PROVE FALSE
        BY <3>3 DEF Done
      <4>2. Last(found) < v
        BY <3>2, <4>1 DEF ExistentialInv, InScan
      <4>3. QED
        BY <2>2, <3>1, <3>2, <4>2
    <3>4. ASSUME NEW k \in 1 .. Len(vectors), v \in AheadOf(k) PROVE FALSE
      <4>1. ~Ended(k) /\ Value(k) <= v /\ Value(k) \in Nat
        BY <3>4, StandingFacts
      <4>2. Last(found) < Value(k)
        <5>1. CASE at = "idle"
          BY <3>2, <5>1 DEF ExistentialInv, BetweenScans
        <5>2. CASE at = "scan"
          <6>1. Scanning
            <7>1. Len(vectors) # 0
              OBVIOUS
            <7>2. QED
              BY <5>2, <7>1 DEF Scanning, Dry
          <6>2. Last(found) < current_minimum /\ current_minimum \in Nat
            BY <3>2, <6>1, GivenFacts DEF ExistentialInv, InScan, WalkTypes
          <6>3. current_minimum <= Value(k)
            <7>1. k \in 1 .. i - 1 \/ k \in i .. Len(vectors)
              BY LenProperties DEF WalkTypes
            <7>2. CASE k \in 1 .. i - 1
              BY <4>1, <6>1, <6>2, <7>2 DEF ExistentialInv, InScan
            <7>3. CASE k \in i .. Len(vectors)
              BY <4>1, <6>1, <7>3 DEF ExistentialInv, InScan
            <7>4. QED
              BY <7>1, <7>2, <7>3
          <6>4. QED
            BY <3>2, <4>1, <6>2, <6>3
        <5>3. QED
          BY <5>1, <5>2 DEF ExistentialInv
      <4>3. QED
        BY <2>2, <3>1, <3>2, <4>1, <4>2
    <3>5. QED
      BY <1>1, <3>1, <3>3, <3>4, WhereValuesAre
  <2>3. QED
    BY <1>1, <2>1, <2>2 DEF IsBeginning, Wanted, VectorsInv
<1>4. ASSUME at = "idle", ~result PROVE ToSet(found) = Wanted
  <2>1. AllPushed
    BY <1>4 DEF WalkTypes
  <2>2. vectors = << >> /\ Done = ToSet(found)
    BY <1>4 DEF ExistentialInv, BetweenScans, Dry, Done, Scanning
  <2>3. \A k : ~(k \in 1 .. Len(vectors))
    BY <2>2
  <2>4. InAny \subseteq ToSet(found)
    BY <1>1, <2>1, <2>2, <2>3, WhereValuesAre
  <2>5. QED
    BY <1>1, <2>4 DEF Wanted, VectorsInv
<1>5. ASSUME at = "idle", currently_synchronized # << >>
      PROVE  /\ Len(currently_synchronized) = Cardinality({k \in Indices : Last(found) \in Held(k)})
             /\ \A v \in ToSet(currently_synchronized) : Last(found) \in ToSet(v)
  <2>1. /\ Last(found) = current_minimum /\ ToSet(c) = Holders(current_minimum)
        /\ c \in Seq(Indices) /\ Len(c) = Len(currently_synchronized) /\ OneToOne(c)
        /\ \A k \in 1 .. Len(c) : currently_synchronized[k] = input.vectors[c[k]]
    BY <1>1, <1>5 DEF HoldersInv, Originals
  <2>2. PICK n \in Nat : n = Len(c)
    BY <2>1, LenProperties
  <2>3. c \in Surjection(1 .. n, Holders(current_minimum)) /\ c \in Injection(1 .. n, Holders(current_minimum))
    <3>1. c \in [1 .. n -> Holders(current_minimum)]
      <4>1. c \in [1 .. n -> Indices] /\ DOMAIN c = 1 .. n
        BY <2>1, <2>2, LenProperties
      <4>2. \A k \in 1 .. n : c[k] \in Holders(current_minimum)
        BY <2>1, <4>1 DEF ToSet
      <4>3. QED
        BY <4>1, <4>2
    <3>2. \A v \in Holders(current_minimum) : \E k \in 1 .. n : c[k] = v
      BY <2>1, <2>2, <3>1 DEF ToSet
    <3>3. \A k, m \in 1 .. n : c[k] = c[m] => k = m
      BY <2>1, <2>2 DEF OneToOne
    <3>4. QED
      BY <3>1, <3>2, <3>3 DEF Surjection, Injection, IsInjective
  <2>4. PICK H : H = Holders(current_minimum)
    OBVIOUS
  <2>5. Cardinality(Holders(current_minimum)) = n
    <3>1. ExistsBijection(1 .. n, H)
      BY <2>3, <2>4 DEF ExistsBijection, Bijection
    <3>2. Cardinality(H) = n
      BY <3>1, FS_CountingElements
    <3>3. QED
      BY <2>4, <3>2
  <2>6. {k \in Indices : Last(found) \in Held(k)} = Holders(current_minimum)
    BY <2>1 DEF Holders
  <2>7. ASSUME NEW v \in ToSet(currently_synchronized) PROVE Last(found) \in ToSet(v)
    <3>1. currently_synchronized \in Seq(Seq(Nat))
      BY DEF WalkTypes
    <3>2. PICK k \in 1 .. Len(c) : v = currently_synchronized[k]
      BY <2>1, <2>7, <3>1, LenProperties DEF ToSet
    <3>3. c[k] \in Holders(current_minimum)
      BY <2>2, <2>3 DEF Injection
    <3>4. QED
      BY <2>1, <3>2, <3>3 DEF Holders, Held
  <2>8. QED
    BY <2>1, <2>2, <2>5, <2>6, <2>7
<1>6. QED
  BY <1>2, <1>3, <1>4, <1>5 DEF EveryValueWithItsHolders, StopsAtEveryValue, ReturnsAllHolders

------------------------------------------------------------------------------
(* Both iterators, whatever ordered vectors they walk, stop at every value  *)
(* they should, once and in ascending order, and return all its holders     *)
(* (SynchronizedUniversalIterator and SynchronizedExistentialIterator).     *)
THEOREM IteratorsAreAlwaysRight == Spec => []EveryValueWithItsHolders
<1>1. WalkInv => EveryValueWithItsHolders
  BY UniversalIsRight, ExistentialIsRight DEF WalkInv
<1>2. QED
  BY <1>1, AlwaysWalkInv, PTL

(* synchronize_with finds exactly the values that some vector holds, when   *)
(* it is asked for them in ascending order.                                 *)
THEOREM SynchronizeWithFinds == Spec => []FindsWhatIsThere
<1>1. WalkInv => FindsWhatIsThere
  <2>1. CASE kind = "synchronize_with"
    BY <2>1 DEF WalkInv, SoughtInv
  <2>2. CASE kind # "synchronize_with"
    <3>1. ASSUME answers = << >> PROVE FindsWhatIsThere
      <4>1. Len(answers) = 0 /\ \A n : ~(n \in 1 .. 0)
        BY <3>1
      <4>2. QED
        BY <4>1 DEF FindsWhatIsThere
    <3>2. QED
      BY <2>2, <3>1 DEF WalkInv
  <2>3. QED
    BY <2>1, <2>2
<1>2. QED
  BY <1>1, AlwaysWalkInv, PTL

(***************************************************************************)
(* The closures that the operators of the model compute by stages are the  *)
(* least sets that are closed.                                             *)
(***************************************************************************)

(* The least set that holds S and the targets of its moves in D.            *)
ClosedBy(C, D) == \A m \in D : m[1] \in C => m[3] \in C
IsLeastClosed(C, S, D) ==
  /\ S \subseteq C /\ ClosedBy(C, D)
  /\ \A K : S \subseteq K /\ ClosedBy(K, D) => C \subseteq K

LEMMA ClosedUnderIsLeast ==
  ASSUME NEW A, IsFiniteSet(A.states), NEW D, D \subseteq A.states \X Nat \X A.states,
         NEW S \in SUBSET A.states
  PROVE  ClosedUnder(A, S, D) \in SUBSET A.states /\ IsLeastClosed(ClosedUnder(A, S, D), S, D)
<1>1. PICK N \in Nat : N = Cardinality(A.states)
  BY FS_CardinalityType
<1>2. PICK G : G = [states |-> A.states, delta |-> D]
  OBVIOUS
<1>3. G.states = A.states /\ G.delta = D /\ MovesInside(G)
  BY <1>2 DEF MovesInside
<1> DEFINE Rec(g) ==
      g = [n \in 0 .. N |->
             IF n = 0 THEN S
             ELSE LET before == g[n - 1]
                  IN before \cup {m[3] : m \in {k \in D : k[1] \in before}}]
    within == CHOOSE g : Rec(g)
<1>4. PICK f : IsStages(G, S, N, f)
  BY <1>3, StagesExist
<1>5. Rec(f)
  <2>1. \A n \in 0 .. N :
          f[n] = IF n = 0 THEN S
                 ELSE LET before == f[n - 1]
                      IN before \cup {m[3] : m \in {k \in D : k[1] \in before}}
    BY <1>3, <1>4 DEF IsStages, WithTargets
  <2>2. f = [n \in 0 .. N |-> f[n]]
    BY <1>4 DEF IsStages
  <2>3. QED
    BY <2>1, <2>2, Zenon
<1>6. Rec(within)
  <2> HIDE DEF Rec
  <2>1. QED
    BY <1>5
<1>7. ClosedUnder(A, S, D) = within[N]
  BY <1>1 DEF ClosedUnder
<1>8. IsStages(G, S, N, within)
  <2> HIDE DEF within
  <2>1. ASSUME NEW n \in 0 .. N
        PROVE  within[n] = IF n = 0 THEN S ELSE WithTargets(G, within[n - 1])
    BY <1>3, <1>6 DEF WithTargets
  <2>2. within[0] = S
    <3>1. 0 \in 0 .. N
      OBVIOUS
    <3>2. QED
      BY <2>1, <3>1
  <2>3. \A n \in 1 .. N : within[n] = WithTargets(G, within[n - 1])
    BY <2>1
  <2>4. within = [n \in 0 .. N |-> within[n]]
    BY <1>6
  <2> HIDE DEF Rec
  <2>5. QED
    BY <1>3, <2>2, <2>3, <2>4, StagesOfFunction
<1> HIDE DEF within
<1>9. PICK C : C = within[N]
  OBVIOUS
<1>10. N = Cardinality(G.states) /\ IsFiniteSet(G.states) /\ S \in SUBSET G.states
  BY <1>1, <1>3
<1>11. /\ within[N] \in SUBSET G.states /\ S \subseteq within[N]
       /\ \A m \in G.delta : m[1] \in within[N] => m[3] \in within[N]
  BY <1>3, <1>8, <1>10, LastStageHolds
<1>12. ASSUME NEW K, S \subseteq K, ClosedBy(K, D) PROVE C \subseteq K
  <2>1. \A m \in G.delta : m[1] \in K => m[3] \in K
    BY <1>3, <1>12 DEF ClosedBy
  <2>2. QED
    BY <1>8, <1>9, <1>12, <2>1, LastStageIsLeast
<1>13. C \in SUBSET A.states /\ S \subseteq C /\ ClosedBy(C, D)
  BY <1>3, <1>9, <1>11 DEF ClosedBy
<1>14. QED
  BY <1>7, <1>9, <1>12, <1>13 DEF IsLeastClosed

(* Macrostates is the least set that holds the set of initial states and    *)
(* the posts of its members that are not empty.                             *)
MacroMoves == MacroGraph(original).delta

LEMMA PostIsNotEmpty ==
  ASSUME NEW A, IsAutomaton(A, Nat), NEW S, NEW a
  PROVE  Post(A, S, a) # {} <=> a \in SymbolsOut(A, S)
<1>1. ASSUME a \in SymbolsOut(A, S) PROVE Post(A, S, a) # {}
  <2>1. PICK m \in A.delta : m[1] \in S /\ m[2] = a
    BY <1>1 DEF SymbolsOut
  <2>2. m = <<m[1], m[2], m[3]>> /\ m[3] \in A.states
    BY DEF IsAutomaton
  <2>3. m[3] \in Post(A, S, a)
    BY <2>1, <2>2 DEF Post
  <2>4. QED
    BY <2>3
<1>2. ASSUME NEW t \in Post(A, S, a) PROVE a \in SymbolsOut(A, S)
  <2>1. PICK s \in S : <<s, a, t>> \in A.delta
    BY DEF Post
  <2>2. QED
    BY <2>1 DEF SymbolsOut
<1>3. QED
  BY <1>1, <1>2

NotEmptyPosts(A, F) == {Post(A, S, a) : S \in F, a \in {m[2] : m \in A.delta}} \ {{}}

LEMMA NotEmptyPostsAreAll ==
  ASSUME NEW A, IsAutomaton(A, Nat), NEW F
  PROVE  NotEmptyPosts(A, F) = PostsIn(A, F)
<1> USE DEF NotEmptyPosts
<1>1. ASSUME NEW S \in F, NEW a \in {m[2] : m \in A.delta}, Post(A, S, a) # {}
      PROVE  Post(A, S, a) \in PostsIn(A, F)
  BY <1>1, PostIsNotEmpty DEF PostsIn
<1>2. ASSUME NEW S \in F, NEW a \in SymbolsOut(A, S)
      PROVE  Post(A, S, a) # {} /\ a \in {m[2] : m \in A.delta}
  BY PostIsNotEmpty DEF SymbolsOut
<1>3. ASSUME NEW x \in PostsIn(A, F)
      PROVE  x \in {Post(A, S, a) : S \in F, a \in {m[2] : m \in A.delta}} \ {{}}
  <2>1. PICK S \in F : \E a \in SymbolsOut(A, S) : x = Post(A, S, a)
    BY DEF PostsIn
  <2>2. QED
    BY <1>2, <2>1
<1>4. QED
  BY <1>1, <1>3

LEMMA MacrostatesAreLeast ==
  ASSUME IsInput(original)
  PROVE  IsLeastClosed(Macrostates, {original.initial}, MacroMoves)
<1>0. PICK A : A = original
  OBVIOUS
<1>1. IsInput(A) /\ IsAutomaton(A, Nat)
  BY <1>0 DEF IsInput
<1>2. PICK G : G = MacroGraph(A)
  OBVIOUS
<1>3. PICK S : S = {A.initial}
  OBVIOUS
<1>4. /\ MovesInside(G) /\ IsFiniteSet(G.states) /\ S \in SUBSET G.states
      /\ G.states = SUBSET A.states
  BY <1>1, <1>2, <1>3, GraphIsGraph, GraphStates
<1>5. PICK N \in Nat : N = 2 ^ Cardinality(A.states) /\ N = Cardinality(G.states)
  <2>1. Cardinality(SUBSET A.states) = 2 ^ Cardinality(A.states)
    BY <1>1, FS_SUBSET DEF IsInput
  <2>2. Cardinality(G.states) \in Nat
    BY <1>4, FS_CardinalityType
  <2>3. QED
    BY <1>4, <2>1, <2>2
<1> DEFINE Rec(g) ==
      g = [n \in 0 .. N |->
             IF n = 0 THEN {A.initial}
             ELSE LET before == g[n - 1]
                  IN before \cup NotEmptyPosts(A, before)]
    within == CHOOSE g : Rec(g)
<1>6. PICK f : IsStages(G, S, N, f)
  BY <1>4, StagesExist
<1>7. Rec(f)
  <2>1. ASSUME NEW n \in 0 .. N
        PROVE f[n] = IF n = 0 THEN {A.initial}
                 ELSE LET before == f[n - 1]
                      IN before \cup NotEmptyPosts(A, before)
    <3>1. CASE n = 0
      BY <1>3, <1>6, <3>1 DEF IsStages
    <3>2. CASE n # 0
      <4>1. n \in 1 .. N /\ n - 1 \in 0 .. N
        BY <3>2
      <4>2. f[n] = WithTargets(G, f[n - 1]) /\ f[n - 1] \in SUBSET SUBSET A.states
        BY <1>4, <1>6, <4>1 DEF IsStages
      <4>3. f[n] = f[n - 1] \cup PostsIn(A, f[n - 1])
        BY <1>1, <1>2, <4>2, GraphTargets
      <4>4. QED
        BY <1>1, <3>2, <4>3, NotEmptyPostsAreAll
    <3>3. QED
      BY <3>1, <3>2
  <2>2. f = [n \in 0 .. N |-> f[n]]
    BY <1>6 DEF IsStages
  <2>3. QED
    BY <2>1, <2>2, Zenon
<1>8. Rec(within)
  <2> HIDE DEF Rec
  <2>1. QED
    BY <1>7
<1>9. Macrostates = within[N]
  BY <1>0, <1>5 DEF Macrostates, NotEmptyPosts
<1>10. IsStages(G, S, N, within)
  <2> HIDE DEF within
  <2>1. ASSUME NEW n \in 0 .. N
        PROVE  within[n] = IF n = 0 THEN {A.initial}
                 ELSE within[n - 1] \cup NotEmptyPosts(A, within[n - 1])
    BY <1>8
  <2>2. within[0] = S
    <3>1. 0 \in 0 .. N
      OBVIOUS
    <3>2. QED
      BY <1>3, <2>1, <3>1
  <2>3. ASSUME NEW n \in 1 .. N, within[n - 1] \in SUBSET G.states
        PROVE  within[n] = WithTargets(G, within[n - 1])
    <3>1. n \in 0 .. N /\ n # 0
      OBVIOUS
    <3>2. within[n] = within[n - 1] \cup PostsIn(A, within[n - 1])
      BY <1>1, <2>1, <3>1, NotEmptyPostsAreAll
    <3>3. within[n - 1] \in SUBSET SUBSET A.states
      BY <1>4, <2>3
    <3>4. QED
      BY <1>1, <1>2, <3>2, <3>3, GraphTargets
  <2>4. within = [n \in 0 .. N |-> within[n]]
    BY <1>8
  <2> HIDE DEF Rec
  <2>5. QED
    BY <1>4, <2>2, <2>3, <2>4, StagesOfFunction
<1> HIDE DEF within, Rec
<1>11. /\ within[N] \in SUBSET G.states /\ S \subseteq within[N]
       /\ \A m \in G.delta : m[1] \in within[N] => m[3] \in within[N]
  BY <1>4, <1>5, <1>10, LastStageHolds
<1>12. PICK C : C = within[N]
  OBVIOUS
<1>13. ASSUME NEW K, S \subseteq K, ClosedBy(K, G.delta) PROVE C \subseteq K
  <2>1. \A m \in G.delta : m[1] \in K => m[3] \in K
    BY <1>13 DEF ClosedBy
  <2>2. QED
    BY <1>10, <1>12, <1>13, <2>1, LastStageIsLeast
<1>14. S \subseteq C /\ ClosedBy(C, G.delta)
  BY <1>11, <1>12 DEF ClosedBy
<1>15. Macrostates = C /\ S = {original.initial} /\ G.delta = MacroMoves
  BY <1>0, <1>2, <1>3, <1>9, <1>12 DEF MacroMoves
<1>16. QED
  BY <1>13, <1>14, <1>15 DEF IsLeastClosed

(***************************************************************************)
(* Runs: a word is accepted if a run over it leads from an initial to a    *)
(* final state.                                                            *)
(***************************************************************************)
LeadsTo(A, word, n, path, q) ==
  /\ path \in [1 .. n + 1 -> A.states] /\ path[1] \in A.initial /\ path[n + 1] = q
  /\ \A k \in 1 .. n : <<path[k], word[k], path[k + 1]>> \in A.delta

LEMMA LongerRun ==
  ASSUME NEW A, NEW word, NEW n \in Nat, NEW path, NEW q, LeadsTo(A, word, n, path, q),
         NEW t \in A.states, <<q, word[n + 1], t>> \in A.delta
  PROVE  \E p : LeadsTo(A, word, n + 1, p, t)
<1>1. PICK p : p = [k \in 1 .. (n + 1) + 1 |-> IF k = (n + 1) + 1 THEN t ELSE path[k]]
  OBVIOUS
<1>2. /\ path \in [1 .. n + 1 -> A.states] /\ path[1] \in A.initial /\ path[n + 1] = q
      /\ \A k \in 1 .. n : <<path[k], word[k], path[k + 1]>> \in A.delta
  BY DEF LeadsTo
<1>3. /\ p[(n + 1) + 1] = t /\ p \in [1 .. (n + 1) + 1 -> A.states]
      /\ \A k \in 1 .. n + 1 : p[k] = path[k]
  BY <1>1, <1>2
<1>4. p[1] \in A.initial
  <2>1. 1 \in 1 .. n + 1
    OBVIOUS
  <2>2. QED
    BY <1>2, <1>3, <2>1
<1>5. ASSUME NEW k \in 1 .. n + 1 PROVE <<p[k], word[k], p[k + 1]>> \in A.delta
  <2>1. CASE k = n + 1
    BY <1>2, <1>3, <2>1
  <2>2. CASE k # n + 1
    <3>1. k \in 1 .. n /\ k + 1 \in 1 .. n + 1
      BY <2>2
    <3>2. QED
      BY <1>2, <1>3, <3>1
  <2>3. QED
    BY <2>1, <2>2
<1>6. QED
  BY <1>3, <1>4, <1>5 DEF LeadsTo

LEMMA ReadHasRun ==
  ASSUME NEW A, A.initial \in SUBSET A.states, NEW word, Len(word) \in Nat,
         NEW q \in Read(A, word)
  PROVE  \E path : LeadsTo(A, word, Len(word), path, q)
<1>1. PICK f : IsReading(A, A.initial, word, f) /\ Read(A, word) = f[Len(word)]
  BY ReadExists
<1>2. PICK N \in Nat : N = Len(word)
  OBVIOUS
<1> DEFINE HasRuns(n) == \A r \in f[n] : \E path : LeadsTo(A, word, n, path, r)
           T == {n \in Nat : n <= N => HasRuns(n)}
<1>3. 0 \in T
  <2>1. ASSUME NEW r \in f[0] PROVE \E path : LeadsTo(A, word, 0, path, r)
    <3>1. r \in A.initial /\ r \in A.states
      BY <1>1 DEF IsReading
    <3>2. LeadsTo(A, word, 0, [k \in 1 .. 0 + 1 |-> r], r)
      BY <3>1 DEF LeadsTo
    <3>3. QED
      BY <3>2
  <2>2. QED
    BY <2>1
<1>4. ASSUME NEW n \in Nat, n \in T PROVE n + 1 \in T
  <2> SUFFICES ASSUME n + 1 <= N, NEW t \in f[n + 1]
               PROVE  \E path : LeadsTo(A, word, n + 1, path, t)
    OBVIOUS
  <2>1. n + 1 \in 1 .. N /\ (n + 1) - 1 = n /\ n <= N
    OBVIOUS
  <2>2. f[n + 1] = Post(A, f[n], word[n + 1])
    BY <1>1, <1>2, <2>1 DEF IsReading
  <2>3. PICK r \in f[n] : <<r, word[n + 1], t>> \in A.delta /\ t \in A.states
    BY <2>2 DEF Post
  <2>4. PICK path : LeadsTo(A, word, n, path, r)
    BY <1>4, <2>1
  <2>5. QED
    BY <2>3, <2>4, LongerRun
<1>5. Nat \subseteq T
  <2> HIDE DEF T
  <2>1. QED
    BY <1>3, <1>4, SetInduction
<1>6. HasRuns(N)
  BY <1>5
<1>7. QED
  BY <1>1, <1>2, <1>6

LEMMA RunIsReadTo ==
  ASSUME NEW A, A.initial \in SUBSET A.states, NEW word, Len(word) \in Nat, NEW q, NEW path,
         LeadsTo(A, word, Len(word), path, q)
  PROVE  q \in Read(A, word)
<1>1. PICK f : IsReading(A, A.initial, word, f) /\ Read(A, word) = f[Len(word)]
  BY ReadExists
<1>2. PICK N \in Nat : N = Len(word)
  OBVIOUS
<1>3. /\ path \in [1 .. N + 1 -> A.states] /\ path[1] \in A.initial /\ path[N + 1] = q
      /\ \A k \in 1 .. N : <<path[k], word[k], path[k + 1]>> \in A.delta
  BY <1>2 DEF LeadsTo
<1> DEFINE T == {n \in Nat : n <= N => path[n + 1] \in f[n]}
<1>4. 0 \in T
  BY <1>1, <1>3 DEF IsReading
<1>5. ASSUME NEW n \in Nat, n \in T PROVE n + 1 \in T
  <2> SUFFICES ASSUME n + 1 <= N PROVE path[(n + 1) + 1] \in f[n + 1]
    OBVIOUS
  <2>1. n + 1 \in 1 .. N /\ (n + 1) - 1 = n /\ n <= N /\ (n + 1) + 1 \in 1 .. N + 1
    OBVIOUS
  <2>2. f[n + 1] = Post(A, f[n], word[n + 1])
    BY <1>1, <1>2, <2>1 DEF IsReading
  <2>3. path[n + 1] \in f[n] /\ path[(n + 1) + 1] \in A.states
        /\ <<path[n + 1], word[n + 1], path[(n + 1) + 1]>> \in A.delta
    BY <1>3, <1>5, <2>1
  <2>4. QED
    BY <2>2, <2>3 DEF Post
<1>6. Nat \subseteq T
  <2> HIDE DEF T
  <2>1. QED
    BY <1>4, <1>5, SetInduction
<1>7. QED
  BY <1>1, <1>2, <1>3, <1>6

(***************************************************************************)
(* Reversal.                                                               *)
(***************************************************************************)
IsReversed(v, w) == Len(v) = Len(w) /\ \A k \in 1 .. Len(w) : v[k] = w[Len(w) + 1 - k]

SameLanguage(A, B) == \A w \in Seq(Nat) : Accepts(A, w) <=> Accepts(B, w)

LEMMA NfaIs ==
  ASSUME NEW A, IsNfa(A)
  PROVE  /\ IsInput(A) /\ IsAutomaton(A, Nat) /\ IsFiniteSet(A.states) /\ A.states \subseteq Nat
         /\ A.initial \in SUBSET A.states /\ A.final \in SUBSET A.states
         /\ A.delta \subseteq A.states \X Nat \X A.states
         /\ A.delta \subseteq A.states \X Letters \X A.states
BY JobsAssumption DEF IsNfa, IsInput, IsAutomaton

LEMMA RevertIs ==
  ASSUME NEW A, IsNfa(A)
  PROVE  /\ revert(A).states = A.states
         /\ revert(A).initial = A.final /\ revert(A).final = A.initial
         /\ revert(A).delta = {<<m[3], m[2], m[1]>> : m \in A.delta}
         /\ IsNfa(revert(A))
<1>1. PICK s, b, f, d : A = [states |-> s, initial |-> b, final |-> f, delta |-> d]
  BY DEF IsNfa
<1>2. revert(A) = [states |-> s, initial |-> f, final |-> b,
                   delta |-> {<<m[3], m[2], m[1]>> : m \in d}]
  BY <1>1 DEF revert
<1>3. A.states = s /\ A.initial = b /\ A.final = f /\ A.delta = d
  BY <1>1
<1>4. /\ revert(A).states = A.states
      /\ revert(A).initial = A.final /\ revert(A).final = A.initial
      /\ revert(A).delta = {<<m[3], m[2], m[1]>> : m \in A.delta}
  BY <1>2, <1>3
<1>5. \A m \in d : m[1] \in s /\ m[2] \in Letters /\ m[3] \in s /\ m[1] \in Nat
                   /\ m[2] \in Nat /\ m[3] \in Nat
  BY <1>3, JobsAssumption DEF IsNfa, IsAutomaton
<1>6. PICK e : e = {<<m[3], m[2], m[1]>> : m \in d}
  OBVIOUS
<1>7. e \in SUBSET (s \X Letters \X s) /\ e \in SUBSET (Nat \X Nat \X Nat)
  BY <1>5, <1>6
<1>8. PICK B : B = revert(A)
  OBVIOUS
<1>9. B = [states |-> s, initial |-> f, final |-> b, delta |-> e]
  BY <1>2, <1>6, <1>8
<1>10. /\ s \in SUBSET Nat /\ b \in SUBSET Nat /\ f \in SUBSET Nat /\ IsFiniteSet(s)
       /\ b \subseteq s /\ f \subseteq s
  BY <1>3 DEF IsNfa, IsAutomaton
<1>11. IsNfa(B)
  BY <1>7, <1>9, <1>10 DEF IsNfa, IsAutomaton
<1>12. QED
  BY <1>4, <1>8, <1>11

LEMMA RevertRevert ==
  ASSUME NEW A, IsNfa(A)
  PROVE  revert(revert(A)) = A
<1>1. PICK s, b, f, d : A = [states |-> s, initial |-> b, final |-> f, delta |-> d]
  BY DEF IsNfa
<1>2. PICK e : e = {<<m[3], m[2], m[1]>> : m \in d}
  OBVIOUS
<1>3. PICK B : B = revert(A)
  OBVIOUS
<1>4. B = [states |-> s, initial |-> f, final |-> b, delta |-> e]
  BY <1>1, <1>2, <1>3 DEF revert
<1>5. d \subseteq Nat \X Nat \X Nat
  BY <1>1 DEF IsNfa
<1>6. {<<m[3], m[2], m[1]>> : m \in e} = d
  <2>1. ASSUME NEW m \in d PROVE m \in {<<k[3], k[2], k[1]>> : k \in e}
    <3>1. <<m[3], m[2], m[1]>> \in e /\ m = <<m[1], m[2], m[3]>>
      BY <1>2, <1>5
    <3>2. QED
      BY <3>1
  <2>2. ASSUME NEW k \in e PROVE <<k[3], k[2], k[1]>> \in d
    <3>1. PICK m \in d : k = <<m[3], m[2], m[1]>>
      BY <1>2
    <3>2. m = <<m[1], m[2], m[3]>>
      BY <1>5
    <3>3. QED
      BY <3>1, <3>2
  <2>3. QED
    BY <2>1, <2>2
<1>7. revert(B) = [states |-> s, initial |-> b, final |-> f,
                   delta |-> {<<m[3], m[2], m[1]>> : m \in e}]
  BY <1>4 DEF revert
<1>8. QED
  BY <1>1, <1>3, <1>6, <1>7

LEMMA RevertedAccepts ==
  ASSUME NEW A, IsNfa(A), NEW w, Len(w) \in Nat, NEW v, IsReversed(v, w), Accepts(A, w)
  PROVE  Accepts(revert(A), v)
<1>1. A.initial \in SUBSET A.states /\ A.final \in SUBSET A.states
  BY NfaIs
<1>2. PICK q \in Read(A, w) : q \in A.final
  BY DEF Accepts
<1>3. PICK path : LeadsTo(A, w, Len(w), path, q)
  BY <1>1, ReadHasRun
<1>4. PICK N \in Nat : N = Len(w)
  OBVIOUS
<1>5. /\ path \in [1 .. N + 1 -> A.states] /\ path[1] \in A.initial /\ path[N + 1] = q
      /\ \A k \in 1 .. N : <<path[k], w[k], path[k + 1]>> \in A.delta
  BY <1>3, <1>4 DEF LeadsTo
<1>6. PICK p : p = [k \in 1 .. N + 1 |-> path[(N + 2) - k]]
  OBVIOUS
<1>7. PICK B : B = revert(A)
  OBVIOUS
<1>8. /\ B.states = A.states /\ B.initial = A.final /\ B.final = A.initial
      /\ B.delta = {<<m[3], m[2], m[1]>> : m \in A.delta}
  BY <1>7, RevertIs
<1>9. Len(v) = N /\ \A k \in 1 .. N : v[k] = w[(N + 1) - k]
  BY <1>4 DEF IsReversed
<1>10. \A k \in 1 .. N + 1 : (N + 2) - k \in 1 .. N + 1 /\ p[k] = path[(N + 2) - k]
  BY <1>6
<1>11. p \in [1 .. N + 1 -> B.states] /\ p[1] = q /\ p[N + 1] = path[1]
  <2>1. 1 \in 1 .. N + 1 /\ N + 1 \in 1 .. N + 1 /\ (N + 2) - 1 = N + 1 /\ (N + 2) - (N + 1) = 1
    OBVIOUS
  <2>2. QED
    BY <1>5, <1>6, <1>8, <1>10, <2>1
<1>12. ASSUME NEW k \in 1 .. N PROVE <<p[k], v[k], p[k + 1]>> \in B.delta
  <2>1. PICK l : l = (N + 1) - k
    OBVIOUS
  <2>2. l \in 1 .. N /\ (N + 2) - k = l + 1 /\ (N + 2) - (k + 1) = l /\ k \in 1 .. N + 1
        /\ k + 1 \in 1 .. N + 1
    BY <2>1
  <2>3. p[k] = path[l + 1] /\ p[k + 1] = path[l] /\ v[k] = w[l]
    BY <1>9, <1>10, <2>1, <2>2
  <2>4. <<path[l], w[l], path[l + 1]>> \in A.delta
    BY <1>5, <2>2
  <2>5. PICK m \in A.delta : m = <<path[l], w[l], path[l + 1]>>
    BY <2>4
  <2>6. <<m[3], m[2], m[1]>> \in B.delta
    BY <1>8
  <2>7. QED
    BY <2>3, <2>5, <2>6
<1>13. LeadsTo(B, v, Len(v), p, path[1])
  BY <1>2, <1>8, <1>9, <1>11, <1>12 DEF LeadsTo
<1>14. path[1] \in Read(B, v)
  <2>1. B.initial \in SUBSET B.states /\ Len(v) \in Nat
    BY <1>1, <1>8, <1>9
  <2>2. QED
    BY <1>13, <2>1, RunIsReadTo
<1>15. QED
  BY <1>5, <1>7, <1>8, <1>14 DEF Accepts

LEMMA ReversedWord ==
  ASSUME NEW D, NEW w \in Seq(D)
  PROVE  \E v \in Seq(D) : IsReversed(v, w) /\ IsReversed(w, v)
<1>1. PICK N \in Nat : N = Len(w)
  OBVIOUS
<1>2. \A k \in 1 .. N : w[k] \in D
  BY <1>1
<1>3. PICK v : v = [k \in 1 .. N |-> w[(N + 1) - k]]
  OBVIOUS
<1>4. \A k \in 1 .. N : (N + 1) - k \in 1 .. N /\ (N + 1) - ((N + 1) - k) = k
  OBVIOUS
<1>5. v \in Seq(D) /\ Len(v) = N
  <2>1. v \in [1 .. N -> D]
    BY <1>2, <1>3, <1>4
  <2>2. QED
    BY <2>1
<1>6. \A k \in 1 .. N : v[k] = w[(N + 1) - k] /\ w[k] = v[(N + 1) - k]
  BY <1>3, <1>4
<1>7. IsReversed(v, w) /\ IsReversed(w, v)
  BY <1>1, <1>5, <1>6 DEF IsReversed
<1>8. QED
  BY <1>5, <1>7

(* Reversing twice gives the language back.                                 *)
LEMMA RevertedTwice ==
  ASSUME NEW A, IsNfa(A), NEW B, IsNfa(B), SameLanguage(revert(A), B)
  PROVE  SameLanguage(A, revert(B))
<1> SUFFICES ASSUME NEW w \in Seq(Nat) PROVE Accepts(A, w) <=> Accepts(revert(B), w)
  BY DEF SameLanguage
<1>1. PICK v \in Seq(Nat) : IsReversed(v, w) /\ IsReversed(w, v)
  BY ReversedWord
<1>2. Len(v) \in Nat /\ Len(w) \in Nat
  OBVIOUS
<1>3. ASSUME Accepts(A, w) PROVE Accepts(revert(B), w)
  <2>1. Accepts(revert(A), v)
    BY <1>1, <1>2, <1>3, RevertedAccepts
  <2>2. Accepts(B, v)
    BY <2>1 DEF SameLanguage
  <2>3. QED
    BY <1>1, <1>2, <2>2, RevertedAccepts
<1>4. ASSUME Accepts(revert(B), w) PROVE Accepts(A, w)
  <2>1. PICK C : C = revert(B)
    OBVIOUS
  <2>2. IsNfa(C) /\ C.states = B.states /\ C.initial = B.final /\ C.final = B.initial
        /\ C.delta = {<<m[3], m[2], m[1]>> : m \in B.delta}
    BY <2>1, RevertIs
  <2>3. Accepts(revert(C), v)
    BY <1>1, <1>2, <1>4, <2>1, <2>2, RevertedAccepts
  <2>4. revert(C) = B
    BY <2>1, RevertRevert
  <2>5. Accepts(revert(A), v)
    BY <2>3, <2>4 DEF SameLanguage
  <2>6. Accepts(revert(revert(A)), w)
    BY <1>1, <1>2, <2>5, RevertIs, RevertedAccepts
  <2>7. QED
    BY <2>6, RevertRevert
<1>5. QED
  BY <1>3, <1>4

(***************************************************************************)
(* An automaton B whose states stand for the sets in D of states of A, by  *)
(* g, is deterministic and accepts the same words.                         *)
(***************************************************************************)
IsDeterminized(A, B, D, g) ==
  /\ A.initial \in D /\ D \subseteq SUBSET A.states
  /\ \A S, T \in D : g[S] = g[T] => S = T
  /\ B.states = {g[S] : S \in D} /\ B.initial = {g[A.initial]}
  /\ B.final = {g[S] : S \in {T \in D : T \cap A.final # {}}}
  /\ B.delta \subseteq B.states \X Nat \X B.states
  /\ \A S \in D : \A a : Post(A, S, a) # {} => Post(A, S, a) \in D
  /\ \A S, T \in D : \A a : <<g[S], a, g[T]>> \in B.delta <=> T # {} /\ T = Post(A, S, a)

IsDeterministic(B) ==
  /\ \A q, r \in B.initial : q = r
  /\ \A m, k \in B.delta : m[1] = k[1] /\ m[2] = k[2] => m[3] = k[3]

StandsForPost(A, B, g, S, a) ==
  Post(B, {g[S]}, a) = IF Post(A, S, a) = {} THEN {} ELSE {g[Post(A, S, a)]}

LEMMA DeterminizedPost ==
  ASSUME NEW A, NEW B, NEW D, NEW g, IsDeterminized(A, B, D, g), NEW S, S \in D, NEW a
  PROVE  StandsForPost(A, B, g, S, a)
<1> USE DEF StandsForPost
<1>1. PICK R : R = Post(A, S, a)
  OBVIOUS
<1>2. ASSUME NEW t \in Post(B, {g[S]}, a) PROVE R # {} /\ t = g[R]
  <2>1. <<g[S], a, t>> \in B.delta /\ t \in B.states
    BY DEF Post
  <2>2. PICK T \in D : t = g[T]
    BY <2>1 DEF IsDeterminized
  <2>3. T # {} /\ T = Post(A, S, a)
    BY <2>1, <2>2 DEF IsDeterminized
  <2>4. QED
    BY <1>1, <2>2, <2>3
<1>3. ASSUME R # {} PROVE g[R] \in Post(B, {g[S]}, a)
  <2>1. R \in D
    BY <1>1, <1>3 DEF IsDeterminized
  <2>2. <<g[S], a, g[R]>> \in B.delta /\ g[R] \in B.states
    BY <1>1, <1>3, <2>1 DEF IsDeterminized
  <2>3. QED
    BY <2>2 DEF Post
<1>4. CASE R = {}
  BY <1>1, <1>2, <1>4
<1>5. CASE R # {}
  BY <1>1, <1>2, <1>3, <1>5
<1>6. QED
  BY <1>4, <1>5

LEMMA DeterminizedIsDeterministic ==
  ASSUME NEW A, NEW B, NEW D, NEW g, IsDeterminized(A, B, D, g)
  PROVE  IsDeterministic(B)
<1>1. \A q, r \in B.initial : q = r
  BY DEF IsDeterminized
<1>2. ASSUME NEW m \in B.delta, NEW k \in B.delta, m[1] = k[1], m[2] = k[2]
      PROVE  m[3] = k[3]
  <2>1. /\ m = <<m[1], m[2], m[3]>> /\ k = <<k[1], k[2], k[3]>>
        /\ m[1] \in B.states /\ m[3] \in B.states /\ k[3] \in B.states
    BY DEF IsDeterminized
  <2>2. PICK S \in D, T \in D, R \in D : m[1] = g[S] /\ m[3] = g[T] /\ k[3] = g[R]
    BY <2>1 DEF IsDeterminized
  <2>3. <<g[S], m[2], g[T]>> \in B.delta /\ <<g[S], m[2], g[R]>> \in B.delta
    BY <1>2, <2>1, <2>2
  <2>4. T = Post(A, S, m[2]) /\ R = Post(A, S, m[2])
    BY <2>3 DEF IsDeterminized
  <2>5. QED
    BY <2>2, <2>4
<1>3. QED
  BY <1>1, <1>2 DEF IsDeterministic

LEMMA DeterminizedAccepts ==
  ASSUME NEW A, NEW B, NEW D, NEW g, IsDeterminized(A, B, D, g),
         NEW w, Len(w) \in Nat
  PROVE  Accepts(B, w) <=> Accepts(A, w)
<1>1. /\ A.initial \in SUBSET A.states /\ B.initial \in SUBSET B.states
      /\ A.initial \in D
  BY DEF IsDeterminized
<1>2. PICK f : IsReading(A, A.initial, w, f) /\ Read(A, w) = f[Len(w)]
  BY <1>1, ReadExists
<1>3. PICK e : IsReading(B, B.initial, w, e) /\ Read(B, w) = e[Len(w)]
  BY <1>1, ReadExists
<1>4. PICK N \in Nat : N = Len(w)
  OBVIOUS
<1>5. /\ f[0] = A.initial /\ \A n \in 1 .. N : f[n] = Post(A, f[n - 1], w[n])
      /\ e[0] = B.initial /\ \A n \in 1 .. N : e[n] = Post(B, e[n - 1], w[n])
  BY <1>2, <1>3, <1>4 DEF IsReading
<1> DEFINE Stands(n) == \/ f[n] \in D /\ e[n] = {g[f[n]]}
                        \/ f[n] = {} /\ e[n] = {}
           T == {n \in Nat : n <= N => Stands(n)}
<1>6. 0 \in T
  BY <1>1, <1>5 DEF IsDeterminized
<1>7. ASSUME NEW n \in Nat, n \in T PROVE n + 1 \in T
  <2> SUFFICES ASSUME n + 1 <= N PROVE Stands(n + 1)
    OBVIOUS
  <2>1. n + 1 \in 1 .. N /\ (n + 1) - 1 = n /\ n <= N
    OBVIOUS
  <2>2. PICK a : a = w[n + 1]
    OBVIOUS
  <2>3. f[n + 1] = Post(A, f[n], a) /\ e[n + 1] = Post(B, e[n], a)
    BY <1>5, <2>1, <2>2
  <2>4. CASE f[n] \in D /\ e[n] = {g[f[n]]}
    <3>1. PICK S \in D : S = f[n]
      BY <2>4
    <3>2. StandsForPost(A, B, g, S, a)
      BY <3>1, DeterminizedPost
    <3>3. Post(A, S, a) # {} => Post(A, S, a) \in D
      BY <3>1 DEF IsDeterminized
    <3>4. QED
      BY <2>3, <2>4, <3>1, <3>2, <3>3 DEF StandsForPost
  <2>5. CASE f[n] = {} /\ e[n] = {}
    <3>1. Post(A, {}, a) = {} /\ Post(B, {}, a) = {}
      BY DEF Post
    <3>2. QED
      BY <2>3, <2>5, <3>1
  <2>6. QED
    BY <1>7, <2>1, <2>4, <2>5
<1>8. Nat \subseteq T
  <2> HIDE DEF T
  <2>1. QED
    BY <1>6, <1>7, SetInduction
<1>9. Stands(N)
  BY <1>8
<1>10. CASE f[N] \in D /\ e[N] = {g[f[N]]}
  <2>1. PICK S \in D : S = f[N]
    BY <1>10
  <2>2. g[S] \in B.final <=> S \cap A.final # {}
    <3>1. ASSUME g[S] \in B.final PROVE S \cap A.final # {}
      <4>1. PICK U \in D : U \cap A.final # {} /\ g[U] = g[S]
        BY <3>1 DEF IsDeterminized
      <4>2. U = S
        BY <4>1 DEF IsDeterminized
      <4>3. QED
        BY <4>1, <4>2
    <3>2. S \cap A.final # {} => g[S] \in B.final
      BY DEF IsDeterminized
    <3>3. QED
      BY <3>1, <3>2
  <2>3. Read(A, w) = S /\ Read(B, w) = {g[S]}
    BY <1>2, <1>3, <1>4, <1>10, <2>1
  <2>4. QED
    BY <2>2, <2>3 DEF Accepts
<1>11. CASE f[N] = {} /\ e[N] = {}
  BY <1>2, <1>3, <1>4, <1>11 DEF Accepts
<1>12. QED
  BY <1>9, <1>10, <1>11

(***************************************************************************)
(* Trimming keeps the language and determinism.                            *)
(***************************************************************************)
(* A finite set of numbers has an upper bound.                              *)
LEMMA FiniteIsBounded ==
  ASSUME NEW U \in SUBSET Nat, IsFiniteSet(U)
  PROVE  \E top \in Nat : \A q \in U : q < top
<1> DEFINE P == {S \in SUBSET U : \E top \in Nat : \A q \in S : q < top}
<1>1. PICK n \in Nat : n = Cardinality(U)
  BY FS_CardinalityType
<1> DEFINE T == {k \in Nat : \A S \in SUBSET U : Cardinality(S) = k => S \in P}
<1>2. 0 \in T
  <2>1. ASSUME NEW S \in SUBSET U, Cardinality(S) = 0 PROVE S \in P
    <3>1. IsFiniteSet(S)
      BY FS_Subset
    <3>2. S = {}
      BY <2>1, <3>1, FS_EmptySet
    <3>3. QED
      BY <3>2
  <2>2. QED
    BY <2>1
<1>3. ASSUME NEW k \in Nat, k \in T PROVE k + 1 \in T
  <2> SUFFICES ASSUME NEW S \in SUBSET U, Cardinality(S) = k + 1 PROVE S \in P
    OBVIOUS
  <2>1. IsFiniteSet(S)
    BY FS_Subset
  <2>2. S # {}
    BY <2>1, FS_EmptySet
  <2>3. PICK x : x \in S
    BY <2>2
  <2>4. IsFiniteSet(S \ {x}) /\ Cardinality(S \ {x}) = (k + 1) - 1
    BY <2>1, <2>3, FS_RemoveElement
  <2>5. S \ {x} \in SUBSET U /\ Cardinality(S \ {x}) = k
    <3>1. (k + 1) - 1 = k
      OBVIOUS
    <3>2. Cardinality(S \ {x}) = k
      BY <2>4, <3>1
    <3>3. QED
      BY <3>2
  <2>6. S \ {x} \in P
    BY <1>3, <2>5
  <2>7. PICK top \in Nat : \A q \in S \ {x} : q < top
    BY <2>6
  <2>8. x \in Nat /\ \A q \in S : q \in Nat
    BY <2>3
  <2>9. \A q \in S : q < top + x + 1
    BY <2>7, <2>8
  <2>10. top + x + 1 \in Nat
    BY <2>8
  <2>11. QED
    BY <2>9, <2>10
<1>4. Nat \subseteq T
  <2> HIDE DEF T
  <2>1. QED
    BY <1>2, <1>3, SetInduction
<1>5. U \in P
  BY <1>1, <1>4
<1>6. QED
  BY <1>5

LEMMA TrimmedIs ==
  ASSUME NEW A, IsNfa(A), IsDeterministic(A)
  PROVE  /\ IsNfa(Trimmed(A)) /\ IsDeterministic(Trimmed(A)) /\ SameLanguage(Trimmed(A), A)
         /\ Trimmed(A).states = 0 .. Cardinality(Trimmed(A).states) - 1
<1>1. /\ IsInput(A) /\ IsAutomaton(A, Nat) /\ IsFiniteSet(A.states) /\ A.states \subseteq Nat
      /\ A.initial \in SUBSET A.states /\ A.final \in SUBSET A.states
      /\ A.delta \subseteq A.states \X Nat \X A.states
      /\ A.delta \subseteq A.states \X Letters \X A.states
  BY NfaIs
<1>2. PICK Q : Q = revert(A).delta
  OBVIOUS
<1>3. Q = {<<m[3], m[2], m[1]>> : m \in A.delta}
  BY <1>2, RevertIs
<1>4. Q \subseteq A.states \X Nat \X A.states
  BY <1>1, <1>3
<1>5. PICK R : R = ClosedUnder(A, A.initial, A.delta)
  OBVIOUS
<1>6. PICK C : C = ClosedUnder(A, A.final, Q)
  OBVIOUS
<1>7. R \in SUBSET A.states /\ IsLeastClosed(R, A.initial, A.delta)
  BY <1>1, <1>5, ClosedUnderIsLeast
<1>8. C \in SUBSET A.states /\ IsLeastClosed(C, A.final, Q)
  BY <1>1, <1>4, <1>6, ClosedUnderIsLeast
<1>9. PICK U : U = R \cap C
  OBVIOUS
<1>10. U \in SUBSET A.states /\ U \in SUBSET Nat /\ IsFiniteSet(U)
  BY <1>1, <1>7, <1>9, FS_Subset
<1>11. PICK num : num = [q \in U |-> CountBelow(U, q)]
  OBVIOUS
<1>12. PICK N \in Nat : N = Cardinality(U)
  BY <1>10, FS_CardinalityType
<1>13. PICK B : B = [states |-> 0 .. N - 1,
                     initial |-> {num[q] : q \in A.initial \cap U},
                     final |-> {num[q] : q \in A.final \cap U},
                     delta |-> {<<num[m[1]], m[2], num[m[3]]>> :
                                  m \in {k \in A.delta : k[1] \in U /\ k[3] \in U}}]
  OBVIOUS
<1>14. Trimmed(A) = B
  BY <1>2, <1>5, <1>6, <1>9, <1>11, <1>12, <1>13, Zenon DEF Trimmed, CountBelow
(* The numbers of the states that are kept.                                 *)
<1>15. \A q \in U : num[q] = CountBelow(U, q) /\ q \in Nat
  BY <1>10, <1>11
<1>16. \A q, r \in U : num[q] = num[r] => q = r
  <2>1. ASSUME NEW q \in U, NEW r \in U, q < r PROVE num[q] # num[r]
    <3>1. CountBelow(U, q) < CountBelow(U, r)
      BY <1>10, <1>15, <2>1, CountGrows
    <3>2. CountBelow(U, q) \in Nat /\ CountBelow(U, r) \in Nat
      BY <1>10, <1>15, CountIsNumber
    <3>3. QED
      BY <1>15, <3>1, <3>2
  <2>2. QED
    BY <1>15, <2>1
<1>17. PICK top \in Nat : \A q \in U : q < top
  BY <1>10, FiniteIsBounded
<1>18. CountBelow(U, top) = N
  <2>1. {r \in U : r < top} = U
    BY <1>17
  <2>2. QED
    BY <1>12, <2>1 DEF CountBelow
<1>19. ASSUME NEW q \in U PROVE num[q] \in 0 .. N - 1
  <2>1. CountBelow(U, q) < CountBelow(U, top)
    BY <1>10, <1>17, CountGrows
  <2>2. CountBelow(U, q) \in Nat
    BY <1>10, <1>15, CountIsNumber
  <2>3. QED
    BY <1>15, <1>18, <2>1, <2>2
<1>20. ASSUME NEW t \in 0 .. N - 1 PROVE \E q \in U : t = num[q]
  <2>1. PICK q \in U : q < top /\ t = CountBelow(U, q)
    BY <1>10, <1>18, CountReaches
  <2>2. QED
    BY <1>15, <2>1
<1>21. \A m \in A.delta : /\ m = <<m[1], m[2], m[3]>> /\ m[1] \in A.states /\ m[2] \in Nat
                          /\ m[2] \in Letters /\ m[3] \in A.states
  BY <1>1
<1>22. /\ A.initial \subseteq R /\ EdgeClosed(A, R) /\ R \cap A.final \subseteq U
       /\ \A m \in A.delta : m[1] \in R /\ m[3] \in U => m[1] \in U
  <2>1. A.initial \subseteq R /\ EdgeClosed(A, R) /\ R \cap A.final \subseteq U
    BY <1>7, <1>8, <1>9 DEF IsLeastClosed, ClosedBy, EdgeClosed
  <2>2. ASSUME NEW m \in A.delta, m[1] \in R, m[3] \in U PROVE m[1] \in U
    <3>1. <<m[3], m[2], m[1]>> \in Q
      BY <1>3
    <3>2. m[1] \in C
      BY <1>8, <1>9, <2>2, <3>1 DEF IsLeastClosed, ClosedBy
    <3>3. QED
      BY <1>9, <2>2, <3>2
  <2>3. QED
    BY <2>1, <2>2
<1>23. ASSUME NEW q \in U, NEW r \in U, NEW a
       PROVE  <<q, a, r>> \in A.delta <=> <<num[q], a, num[r]>> \in B.delta
  <2>1. ASSUME <<q, a, r>> \in A.delta PROVE <<num[q], a, num[r]>> \in B.delta
    <3>1. PICK m \in A.delta : m = <<q, a, r>>
      BY <2>1
    <3>2. <<num[m[1]], m[2], num[m[3]]>> \in B.delta
      BY <1>13, <3>1
    <3>3. QED
      BY <3>1, <3>2
  <2>2. ASSUME <<num[q], a, num[r]>> \in B.delta PROVE <<q, a, r>> \in A.delta
    <3>1. PICK m \in A.delta : /\ m[1] \in U /\ m[3] \in U
                               /\ <<num[q], a, num[r]>> = <<num[m[1]], m[2], num[m[3]]>>
      BY <1>13, <2>2
    <3>2. m[1] = q /\ m[3] = r /\ m[2] = a
      BY <1>16, <3>1
    <3>3. QED
      BY <1>21, <3>2
  <2>3. QED
    BY <2>1, <2>2
<1>24. /\ B.states = 0 .. N - 1 /\ B.initial = {num[q] : q \in A.initial \cap U}
       /\ B.final = {num[q] : q \in A.final \cap U}
  BY <1>13
<1>25. Renumbers(A, B, R, U, num)
  <2>1. IsGraph(A)
    BY <1>1 DEF IsGraph, MovesInside
  <2>2. U \subseteq A.states /\ R \subseteq A.states
    BY <1>7, <1>10
  <2>3. /\ \A q \in U : num[q] \in B.states
        /\ \A t \in B.states : \E q \in U : t = num[q]
    BY <1>19, <1>20, <1>24
  <2>4. QED
    BY <1>16, <1>22, <1>23, <1>24, <2>1, <2>2, <2>3 DEF Renumbers
<1>26. SameLanguage(B, A)
  BY <1>25, RenumberedAccepts DEF SameLanguage
<1>27. \A k \in B.delta : \E m \in A.delta : /\ m[1] \in U /\ m[3] \in U
                                             /\ k = <<num[m[1]], m[2], num[m[3]]>>
  BY <1>13
<1>28. IsDeterministic(B)
  <2>1. ASSUME NEW q \in B.initial, NEW r \in B.initial PROVE q = r
    <3>1. PICK x \in A.initial, y \in A.initial : q = num[x] /\ r = num[y]
      BY <1>24
    <3>2. QED
      BY <3>1 DEF IsDeterministic
  <2>2. ASSUME NEW m \in B.delta, NEW k \in B.delta, m[1] = k[1], m[2] = k[2]
        PROVE  m[3] = k[3]
    <3>1. PICK x \in A.delta : x[1] \in U /\ x[3] \in U /\ m = <<num[x[1]], x[2], num[x[3]]>>
      BY <1>27
    <3>2. PICK y \in A.delta : y[1] \in U /\ y[3] \in U /\ k = <<num[y[1]], y[2], num[y[3]]>>
      BY <1>27
    <3>3. x[1] = y[1] /\ x[2] = y[2]
      BY <1>16, <2>2, <3>1, <3>2
    <3>4. x[3] = y[3]
      BY <3>3 DEF IsDeterministic
    <3>5. QED
      BY <3>1, <3>2, <3>4
  <2>3. QED
    BY <2>1, <2>2 DEF IsDeterministic
<1>29. IsNfa(B)
  <2>1. 0 .. N - 1 \in SUBSET Nat /\ IsFiniteSet(0 .. N - 1)
    BY FS_Interval
  <2>2. B.initial \in SUBSET (0 .. N - 1) /\ B.final \in SUBSET (0 .. N - 1)
    BY <1>19, <1>24
  <2>3. B.delta \in SUBSET ((0 .. N - 1) \X Letters \X (0 .. N - 1))
    BY <1>19, <1>21, <1>27
  <2>4. B.delta \in SUBSET (Nat \X Nat \X Nat)
    BY <2>1, <2>3, JobsAssumption
  <2>5. B \in [states : SUBSET Nat, initial : SUBSET Nat, final : SUBSET Nat,
               delta : SUBSET (Nat \X Nat \X Nat)]
    BY <1>13, <1>24, <2>1, <2>2, <2>4
  <2>6. QED
    BY <1>24, <2>1, <2>2, <2>3, <2>5 DEF IsNfa, IsAutomaton
<1>30. Cardinality(B.states) = N
  <2>1. Cardinality(0 .. N - 1) = N
    BY FS_Interval
  <2>2. QED
    BY <1>24, <2>1
<1>31. QED
  BY <1>14, <1>24, <1>26, <1>28, <1>29, <1>30

(***************************************************************************)
(* Complementing a deterministic automaton, with a sink that is not final  *)
(* and has no moves.                                                       *)
(***************************************************************************)
MovesBy(A, q, a) == {m \in A.delta : m[1] = q /\ m[2] = a}
IsTotal(A, symbols) ==
  \A q \in A.states : \A a \in symbols : \E t \in A.states : MovesBy(A, q, a) = {<<q, a, t>>}
Complements(C, A, symbols) == \A w \in Seq(symbols) : Accepts(C, w) <=> ~Accepts(A, w)

LEMMA TotalPost ==
  ASSUME NEW A, NEW symbols, IsTotal(A, symbols), NEW q \in A.states, NEW a \in symbols
  PROVE  \E t \in A.states : Post(A, {q}, a) = {t} /\ <<q, a, t>> \in A.delta
<1>1. PICK t \in A.states : MovesBy(A, q, a) = {<<q, a, t>>}
  BY DEF IsTotal
<1>2. \A m \in A.delta : m[1] = q /\ m[2] = a <=> m = <<q, a, t>>
  BY <1>1 DEF MovesBy
<1>3. <<q, a, t>> \in A.delta
  BY <1>1 DEF MovesBy
<1>4. ASSUME NEW u, <<q, a, u>> \in A.delta PROVE u = t
  BY <1>2, <1>4
<1>5. Post(A, {q}, a) = {t}
  BY <1>3, <1>4 DEF Post
<1>6. QED
  BY <1>3, <1>5

(* What make_complete gives.                                                *)
SinkMoves(S, symbols, sink) == {<<q, a, sink>> : q \in S, a \in symbols}
Completes(A, K, symbols, sink) ==
  /\ IsNfa(K) /\ IsTotal(K, symbols)
  /\ K.initial = A.initial /\ K.final = A.final
  /\ A.states \subseteq K.states /\ K.states \subseteq A.states \cup {sink}
  /\ A.delta \subseteq K.delta
  /\ \A m \in K.delta : m \in A.delta \/ m[3] = sink

LEMMA CompletedIs ==
  ASSUME NEW A, IsNfa(A), IsDeterministic(A), NEW symbols \in SUBSET Letters,
         NEW sink \in Nat, \A m \in A.delta : m[1] # sink,
         NEW K, K = make_complete(A, symbols, sink)
  PROVE  Completes(A, K, symbols, sink)
<1>1. /\ A.states \subseteq Nat /\ A.initial \in SUBSET A.states /\ A.final \in SUBSET A.states
      /\ A.delta \subseteq A.states \X Letters \X A.states /\ IsFiniteSet(A.states)
  BY NfaIs
<1>2. PICK missing : missing = {p \in A.states \X symbols :
                                  \A m \in A.delta : m[1] # p[1] \/ m[2] # p[2]}
  OBVIOUS
<1>3. PICK made : made = IF missing # {} THEN A.states \cup {sink} ELSE A.states
  OBVIOUS
<1>4. PICK X : X = {<<p[1], p[2], sink>> : p \in missing}
  OBVIOUS
<1>5. PICK Y : Y = SinkMoves(made \ A.states, symbols, sink)
  OBVIOUS
<1>6. K = [states |-> made, initial |-> A.initial, final |-> A.final,
           delta |-> A.delta \cup X \cup Y]
  <2>1. make_complete(A, symbols, sink) =
          [states |-> made, initial |-> A.initial, final |-> A.final,
           delta |-> A.delta \cup {<<p[1], p[2], sink>> : p \in missing} \cup
                     SinkMoves(made \ A.states, symbols, sink)]
    BY <1>2, <1>3 DEF make_complete, SinkMoves
  <2>2. QED
    BY <1>4, <1>5, <2>1
<1>7. /\ K.states = made /\ K.initial = A.initial /\ K.final = A.final
      /\ K.delta = A.delta \cup X \cup Y
  BY <1>6
<1>8. \A m \in A.delta : /\ m = <<m[1], m[2], m[3]>> /\ m[1] \in A.states /\ m[2] \in Letters
                         /\ m[3] \in A.states
  BY <1>1
<1>9. \A m \in X : \E p \in missing : m = <<p[1], p[2], sink>>
  BY <1>4
<1>10. \A m \in Y : \E q \in made \ A.states : \E a \in symbols : m = <<q, a, sink>>
  BY <1>5 DEF SinkMoves
<1>11. \A p \in missing : p = <<p[1], p[2]>> /\ p[1] \in A.states /\ p[2] \in symbols
  BY <1>2
<1>12. \A q \in made \ A.states : q = sink /\ missing # {}
  BY <1>3
<1>13. A.states \subseteq made /\ made \subseteq A.states \cup {sink}
       /\ (missing # {} => sink \in made) /\ made \subseteq Nat
  BY <1>1, <1>3
<1>14. ASSUME NEW q \in made, NEW a \in symbols
       PROVE  \E t \in made : MovesBy(K, q, a) = {<<q, a, t>>}
  <2>1. CASE q \in A.states /\ <<q, a>> \in missing
    <3>1. \A m \in A.delta : ~(m[1] = q /\ m[2] = a)
      BY <1>2, <2>1
    <3>2. <<q, a, sink>> \in X /\ sink \in made
      BY <1>4, <1>13, <2>1
    <3>3. \A m \in Y : m[1] # q
      BY <1>10, <2>1
    <3>4. \A m \in X : m[1] = q /\ m[2] = a => m = <<q, a, sink>>
      BY <1>9
    <3>5. MovesBy(K, q, a) = {<<q, a, sink>>}
      BY <1>7, <3>1, <3>2, <3>3, <3>4 DEF MovesBy
    <3>6. QED
      BY <3>2, <3>5
  <2>2. CASE q \in A.states /\ <<q, a>> \notin missing
    <3>1. PICK m \in A.delta : m[1] = q /\ m[2] = a
      BY <1>2, <2>2
    <3>2. m = <<q, a, m[3]>> /\ m[3] \in made
      BY <1>8, <1>13, <3>1
    <3>3. \A k \in A.delta : k[1] = q /\ k[2] = a => k = m
      <4>1. ASSUME NEW k \in A.delta, k[1] = q, k[2] = a PROVE k = m
        <5>1. k[3] = m[3]
          BY <3>1, <4>1 DEF IsDeterministic
        <5>2. QED
          BY <1>8, <3>1, <4>1, <5>1
      <4>2. QED
        BY <4>1
    <3>4. \A k \in X : ~(k[1] = q /\ k[2] = a)
      <4>1. ASSUME NEW k \in X, k[1] = q, k[2] = a PROVE FALSE
        <5>1. PICK p \in missing : k = <<p[1], p[2], sink>>
          BY <1>9
        <5>2. p = <<q, a>>
          BY <1>11, <4>1, <5>1
        <5>3. QED
          BY <2>2, <5>2
      <4>2. QED
        BY <4>1
    <3>5. \A k \in Y : k[1] # q
      BY <1>10, <2>2
    <3>6. MovesBy(K, q, a) = {m}
      BY <1>7, <3>1, <3>3, <3>4, <3>5 DEF MovesBy
    <3>7. QED
      BY <3>2, <3>6
  <2>3. CASE q \notin A.states
    <3>1. q = sink /\ q \in made \ A.states
      BY <1>12, <2>3
    <3>2. <<q, a, sink>> \in Y
      BY <1>5, <3>1 DEF SinkMoves
    <3>3. \A k \in A.delta : k[1] # q
      BY <3>1
    <3>4. \A k \in X : k[1] # q
      BY <1>9, <1>11, <2>3
    <3>5. \A k \in Y : k[1] = q /\ k[2] = a => k = <<q, a, sink>>
      BY <1>10
    <3>6. MovesBy(K, q, a) = {<<q, a, sink>>}
      BY <1>7, <3>2, <3>3, <3>4, <3>5 DEF MovesBy
    <3>7. QED
      BY <3>1, <3>6
  <2>4. QED
    BY <2>1, <2>2, <2>3
<1>15. IsTotal(K, symbols)
  BY <1>7, <1>14 DEF IsTotal
<1>16. IsNfa(K)
  <2>1. IsFiniteSet(made)
    BY <1>1, <1>3, FS_AddElement
  <2>2. \A m \in X : m[1] \in made /\ m[2] \in Letters /\ m[3] \in made /\ m = <<m[1], m[2], m[3]>>
    BY <1>9, <1>11, <1>13
  <2>3. \A m \in Y : m[1] \in made /\ m[2] \in Letters /\ m[3] \in made /\ m = <<m[1], m[2], m[3]>>
    BY <1>10, <1>12, <1>13
  <2>4. PICK d : d = A.delta \cup X \cup Y
    OBVIOUS
  <2>5. \A m \in d : m[1] \in made /\ m[2] \in Letters /\ m[3] \in made /\ m = <<m[1], m[2], m[3]>>
    BY <1>8, <1>13, <2>2, <2>3, <2>4
  <2>6. d \in SUBSET (made \X Letters \X made)
    <3>1. ASSUME NEW m \in d PROVE m \in made \X Letters \X made
      BY <2>5
    <3>2. QED
      BY <3>1
  <2>7. d \in SUBSET (Nat \X Nat \X Nat)
    BY <1>13, <2>6, JobsAssumption
  <2>8. A.initial \in SUBSET made /\ A.final \in SUBSET made
    BY <1>1, <1>13
  <2>9. K \in [states : SUBSET Nat, initial : SUBSET Nat, final : SUBSET Nat,
               delta : SUBSET (Nat \X Nat \X Nat)]
    <3>1. K = [states |-> made, initial |-> A.initial, final |-> A.final, delta |-> d]
      BY <1>6, <2>4
    <3>2. /\ made \in SUBSET Nat /\ A.initial \in SUBSET Nat /\ A.final \in SUBSET Nat
          /\ d \in SUBSET (Nat \X Nat \X Nat)
      BY <1>13, <2>7, <2>8
    <3>3. QED
      BY <3>1, <3>2
  <2>10. QED
    BY <1>7, <2>1, <2>4, <2>6, <2>8, <2>9 DEF IsNfa, IsAutomaton
<1>17. \A m \in K.delta : m \in A.delta \/ m[3] = sink
  BY <1>7, <1>9, <1>10
<1>18. QED
  BY <1>7, <1>13, <1>15, <1>16, <1>17 DEF Completes

LEMMA ComplementAccepts ==
  ASSUME NEW A, IsNfa(A), NEW symbols \in SUBSET Letters, NEW sink \in Nat,
         sink \notin A.final, \A m \in A.delta : m[1] # sink,
         NEW C, IsNfa(C), IsTotal(C, symbols), NEW start \in C.states, C.initial = {start},
         C.final = C.states \ A.final, A.final \subseteq C.states,
         A.initial \subseteq C.initial, C.initial \subseteq A.initial \cup {sink},
         A.states \subseteq C.states, A.delta \subseteq C.delta,
         \A m \in C.delta : m \in A.delta \/ m[3] = sink
  PROVE  Complements(C, A, symbols)
<1> SUFFICES ASSUME NEW w \in Seq(symbols) PROVE Accepts(C, w) <=> ~Accepts(A, w)
  BY DEF Complements
<1>1. A.initial \in SUBSET A.states /\ C.initial \in SUBSET C.states /\ Len(w) \in Nat
      /\ A.delta \subseteq A.states \X Nat \X A.states
  <2>1. A.initial \in SUBSET A.states /\ A.delta \subseteq A.states \X Nat \X A.states
    BY NfaIs
  <2>2. C.initial \in SUBSET C.states
    BY NfaIs
  <2>3. Len(w) \in Nat
    OBVIOUS
  <2>4. QED
    BY <2>1, <2>2, <2>3
<1>2. PICK f : IsReading(A, A.initial, w, f) /\ Read(A, w) = f[Len(w)]
  BY <1>1, ReadExists
<1>3. PICK e : IsReading(C, C.initial, w, e) /\ Read(C, w) = e[Len(w)]
  BY <1>1, ReadExists
<1>4. PICK N \in Nat : N = Len(w)
  BY <1>1
<1>5. /\ f[0] = A.initial /\ \A n \in 1 .. N : f[n] = Post(A, f[n - 1], w[n])
      /\ e[0] = C.initial /\ \A n \in 1 .. N : e[n] = Post(C, e[n - 1], w[n]) /\ w[n] \in symbols
  BY <1>2, <1>3, <1>4 DEF IsReading
<1> DEFINE Follows(n) == /\ \E q \in C.states : e[n] = {q}
                         /\ f[n] \subseteq e[n] /\ e[n] \subseteq f[n] \cup {sink}
           T == {n \in Nat : n <= N => Follows(n)}
<1>6. 0 \in T
  BY <1>5
<1>7. ASSUME NEW n \in Nat, n \in T PROVE n + 1 \in T
  <2> SUFFICES ASSUME n + 1 <= N PROVE Follows(n + 1)
    OBVIOUS
  <2>1. n + 1 \in 1 .. N /\ (n + 1) - 1 = n /\ n <= N
    OBVIOUS
  <2>2. PICK a : a = w[n + 1]
    OBVIOUS
  <2>3. f[n + 1] = Post(A, f[n], a) /\ e[n + 1] = Post(C, e[n], a) /\ a \in symbols
    BY <1>5, <2>1, <2>2
  <2>4. PICK q \in C.states : e[n] = {q}
    BY <1>7, <2>1
  <2>5. f[n] \subseteq e[n] /\ e[n] \subseteq f[n] \cup {sink}
    BY <1>7, <2>1
  <2>6. PICK t \in C.states : Post(C, {q}, a) = {t} /\ <<q, a, t>> \in C.delta
    BY <2>3, <2>4, TotalPost
  <2>7. e[n + 1] = {t}
    BY <2>3, <2>4, <2>6
  <2>8. ASSUME NEW u \in f[n + 1] PROVE u = t
    <3>1. PICK s \in f[n] : <<s, a, u>> \in A.delta /\ u \in A.states
      BY <2>3 DEF Post
    <3>2. s = q
      BY <2>4, <2>5, <3>1
    <3>3. u \in Post(C, {q}, a)
      BY <3>1, <3>2 DEF Post
    <3>4. QED
      BY <2>6, <3>3
  <2>9. t \in f[n + 1] \/ t = sink
    <3>1. CASE <<q, a, t>> \in A.delta
      <4>1. PICK m \in A.delta : m = <<q, a, t>>
        BY <3>1
      <4>2. q # sink /\ t \in A.states
        BY <1>1, <4>1
      <4>3. q \in f[n]
        BY <2>4, <2>5, <4>2
      <4>4. QED
        BY <2>3, <3>1, <4>2, <4>3 DEF Post
    <3>2. CASE <<q, a, t>> \notin A.delta
      <4>1. PICK m \in C.delta : m = <<q, a, t>>
        BY <2>6
      <4>2. m \notin A.delta
        BY <3>2, <4>1
      <4>3. m[3] = sink
        BY <4>1, <4>2
      <4>4. QED
        BY <4>1, <4>3
    <3>3. QED
      BY <3>1, <3>2
  <2>10. QED
    BY <2>6, <2>7, <2>8, <2>9
<1>8. Nat \subseteq T
  <2> HIDE DEF T
  <2>1. QED
    BY <1>6, <1>7, SetInduction
<1>9. Follows(N)
  BY <1>8
<1>10. PICK q \in C.states : e[N] = {q}
  BY <1>9
<1>11. q \in A.final <=> f[N] \cap A.final # {}
  BY <1>9, <1>10
<1>12. Read(A, w) = f[N] /\ Read(C, w) = {q}
  BY <1>2, <1>3, <1>4, <1>10
<1>13. QED
  BY <1>10, <1>11, <1>12 DEF Accepts

LEMMA ComplementIs ==
  ASSUME NEW A, IsNfa(A), IsDeterministic(A), NEW symbols \in SUBSET Letters,
         NEW sink \in Nat, sink \notin A.final, \A m \in A.delta : m[1] # sink,
         NEW C, C = complement_deterministic(A, symbols, sink)
  PROVE  IsNfa(C) /\ IsTotal(C, symbols) /\ Complements(C, A, symbols)
<1>1. PICK E : E = WithInitial(A, sink)
  OBVIOUS
<1>2. PICK K : K = make_complete(E, symbols, sink)
  OBVIOUS
<1>3. /\ A.states \subseteq Nat /\ A.initial \in SUBSET A.states /\ A.final \in SUBSET A.states
      /\ A.delta \subseteq A.states \X Letters \X A.states /\ IsFiniteSet(A.states)
  BY NfaIs
<1>4. /\ E.final = A.final /\ E.delta = A.delta /\ A.states \subseteq E.states
      /\ E.states \subseteq A.states \cup {sink}
      /\ (A.initial # {} => E.initial = A.initial) /\ (A.initial = {} => E.initial = {sink})
      /\ E.initial \subseteq E.states
  BY <1>1, <1>3 DEF WithInitial
<1>5. IsNfa(E)
  <2>1. CASE A.initial # {}
    BY <1>1, <2>1 DEF WithInitial
  <2>2. CASE A.initial = {}
    <3>1. PICK Q : Q = A.states \cup {sink}
      OBVIOUS
    <3>2. E = [states |-> Q, initial |-> {sink}, final |-> A.final, delta |-> A.delta]
      BY <1>1, <2>2, <3>1 DEF WithInitial
    <3>3. IsFiniteSet(Q) /\ Q \in SUBSET Nat /\ {sink} \in SUBSET Q /\ A.final \in SUBSET Q
      BY <1>3, <3>1, FS_AddElement
    <3>4. A.delta \in SUBSET (Q \X Letters \X Q) /\ A.delta \in SUBSET (Nat \X Nat \X Nat)
      <4>1. A.delta \in SUBSET (Nat \X Nat \X Nat)
        BY DEF IsNfa
      <4>2. ASSUME NEW m \in A.delta PROVE m \in Q \X Letters \X Q
        BY <1>3, <3>1
      <4>3. QED
        BY <4>1, <4>2
    <3>5. E \in [states : SUBSET Nat, initial : SUBSET Nat, final : SUBSET Nat,
                 delta : SUBSET (Nat \X Nat \X Nat)]
      BY <3>2, <3>3, <3>4
    <3>6. E.states = Q /\ E.initial = {sink} /\ E.final = A.final /\ E.delta = A.delta
      BY <3>2
    <3>7. QED
      BY <3>3, <3>4, <3>5, <3>6 DEF IsNfa, IsAutomaton
  <2>3. QED
    BY <2>1, <2>2
<1>6. IsDeterministic(E) /\ \A m \in E.delta : m[1] # sink
  BY <1>4 DEF IsDeterministic
<1>7. /\ IsNfa(K) /\ IsTotal(K, symbols)
      /\ K.initial = E.initial /\ K.final = E.final
      /\ E.states \subseteq K.states /\ K.states \subseteq E.states \cup {sink}
      /\ E.delta \subseteq K.delta
      /\ \A m \in K.delta : m \in E.delta \/ m[3] = sink
  <2>1. IsDeterministic(E)
    BY <1>6
  <2>2. \A m \in E.delta : m[1] # sink
    BY <1>6
  <2>3. Completes(E, K, symbols, sink)
    BY <1>2, <1>5, <2>1, <2>2, CompletedIs
  <2>4. QED
    BY <2>3 DEF Completes
<1>8. C = [K EXCEPT !.final = K.states \ @]
  BY <1>1, <1>2 DEF complement_deterministic, Swapped
<1>9. PICK s, b, o, d : K = [states |-> s, initial |-> b, final |-> o, delta |-> d]
  BY <1>7 DEF IsNfa
<1>10. C = [states |-> s, initial |-> b, final |-> s \ o, delta |-> d]
  BY <1>8, <1>9
<1>11. /\ K.states = s /\ K.initial = b /\ K.final = o /\ K.delta = d
       /\ C.states = s /\ C.initial = b /\ C.final = s \ o /\ C.delta = d
  BY <1>9, <1>10
<1>12. s \in SUBSET Nat /\ b \in SUBSET Nat /\ o \in SUBSET Nat /\ d \in SUBSET (Nat \X Nat \X Nat)
       /\ IsFiniteSet(s) /\ b \subseteq s /\ d \subseteq s \X Letters \X s
  BY <1>7, <1>9, <1>11 DEF IsNfa, IsAutomaton
<1>13. IsNfa(C)
  <2>1. C \in [states : SUBSET Nat, initial : SUBSET Nat, final : SUBSET Nat,
               delta : SUBSET (Nat \X Nat \X Nat)]
    BY <1>10, <1>12
  <2>2. QED
    BY <1>11, <1>12, <2>1 DEF IsNfa, IsAutomaton
<1>14. IsTotal(C, symbols)
  BY <1>7, <1>11 DEF IsTotal, MovesBy
<1>15. PICK start \in C.states : C.initial = {start}
  <2>1. CASE A.initial # {}
    <3>1. PICK q : q \in A.initial
      BY <2>1
    <3>2. A.initial = {q}
      BY <3>1 DEF IsDeterministic
    <3>3. C.initial = {q} /\ q \in C.states
      BY <1>4, <1>7, <1>11, <2>1, <3>2
    <3>4. QED
      BY <3>3
  <2>2. CASE A.initial = {}
    <3>1. C.initial = {sink} /\ sink \in C.states
      BY <1>4, <1>7, <1>11, <2>2
    <3>2. QED
      BY <3>1
  <2>3. QED
    BY <2>1, <2>2
<1>16. /\ C.final = C.states \ A.final /\ A.final \subseteq C.states
       /\ A.initial \subseteq C.initial /\ C.initial \subseteq A.initial \cup {sink}
       /\ A.states \subseteq C.states /\ A.delta \subseteq C.delta
  BY <1>3, <1>4, <1>7, <1>11
<1>17. \A m \in C.delta : m \in A.delta \/ m[3] = sink
  BY <1>4, <1>7, <1>11
<1>18. Complements(C, A, symbols)
  BY <1>13, <1>14, <1>15, <1>16, <1>17, ComplementAccepts
<1>19. QED
  BY <1>13, <1>14, <1>18

(***************************************************************************)
(* The subset construction.  DetState states what holds of its variables,  *)
(* in order: the automaton, subset_map, the worklist, the transitions, the *)
(* final states, the pair in hand and the symbols left for it.             *)
(***************************************************************************)
Numbering(A, D, g) ==
  /\ D \subseteq SUBSET A.states /\ IsFiniteSet(D)
  /\ A.initial \in D /\ g[A.initial] = 0
  /\ \A S \in D : g[S] \in Nat /\ g[S] < Cardinality(D)
  /\ \A S, T \in D : g[S] = g[T] => S = T
  /\ \A n \in Nat : n < Cardinality(D) => \E S \in D : g[S] = n
  /\ \A S \in D : S = {} => A.initial = {}

(* Whatever holds the initial macrostate and is closed holds all of D.      *)
ReachedOnly(A, D) ==
  \A K : A.initial \in K /\ ClosedBy(K, MacroGraph(A).delta) => D \subseteq K

IsStack(A, g, L) ==
  /\ L \in Seq(Nat \X SUBSET A.states)
  /\ \A k \in 1 .. Len(L) : L[k][2] \in DOMAIN g /\ L[k][1] = g[L[k][2]]
  /\ \A k, l \in 1 .. Len(L) : k < l => L[k][1] < L[l][1]

IsWaiting(L, S) == \E k \in 1 .. Len(L) : L[k][2] = S

IsMoveOf(A, g, m) ==
  \E S \in DOMAIN g : \E T \in DOMAIN g :
    m = <<g[S], m[2], g[T]>> /\ T # {} /\ T = Post(A, S, m[2])

IsMade(A, g, d, S, a) ==
  Post(A, S, a) \in DOMAIN g /\ <<g[S], a, g[Post(A, S, a)]>> \in d

MovesMade(A, g, L, d, S, left) ==
  \A a \in SymbolsOut(A, S) : IsWaiting(L, S) \/ a \in left \/ IsMade(A, g, d, S, a)

LeftFor(S, e, left) == IF S = e[2] THEN left ELSE {}

InHand(A, g, L, e, left) ==
  left # {} => /\ e[2] \in DOMAIN g /\ e[1] = g[e[2]] /\ ~IsWaiting(L, e[2])
               /\ left \subseteq SymbolsOut(A, e[2])

MacroFinal(A, g) == {g[S] : S \in {T \in DOMAIN g : T \cap A.final # {}}}

DetPlace(A, L, left, place) ==
  /\ place = "first" => left = {}
  /\ place = "done" => left = {} /\ (L = << >> \/ A.delta = {})

DetState(A, g, L, d, F, e, left, place) ==
  /\ IsNfa(A)
  /\ Numbering(A, DOMAIN g, g)
  /\ ReachedOnly(A, DOMAIN g)
  /\ IsStack(A, g, L)
  /\ \A m \in d : IsMoveOf(A, g, m)
  /\ \A m \in d : \A k \in 1 .. Len(L) : m[1] # L[k][1]
  /\ \A S \in DOMAIN g : MovesMade(A, g, L, d, S, LeftFor(S, e, left))
  /\ InHand(A, g, L, e, left)
  /\ F = MacroFinal(A, g)
  /\ DetPlace(A, L, left, place)

LEMMA DetStateStarts ==
  ASSUME NEW A, IsNfa(A), NEW g, g = [S \in {A.initial} |-> 0],
         NEW L, L = <<<<0, A.initial>>>>,
         NEW F, F = IF A.initial \cap A.final # {} THEN {0} ELSE {}
  PROVE  DetState(A, g, L, {}, F, << >>, {}, "first")
<1>1. /\ A.initial \in SUBSET A.states /\ A.initial \subseteq A.states
  BY NfaIs
<1>2. DOMAIN g = {A.initial} /\ g[A.initial] = 0
  OBVIOUS
<1>3. IsFiniteSet(DOMAIN g) /\ Cardinality(DOMAIN g) = 1
  BY <1>2, FS_Singleton
<1>4. Numbering(A, DOMAIN g, g)
  <2>1. PICK D : D = DOMAIN g
    OBVIOUS
  <2>2. D \subseteq SUBSET A.states /\ IsFiniteSet(D) /\ A.initial \in D
    BY <1>1, <1>2, <1>3, <2>1
  <2>3. \A S \in D : S = A.initial /\ g[S] = 0
    BY <1>2, <2>1
  <2>4. \A n \in Nat : n < Cardinality(D) => n = 0
    BY <1>3, <2>1
  <2>5. \A S \in D : g[S] \in Nat /\ g[S] < Cardinality(D)
    BY <1>3, <2>1, <2>3
  <2>6. QED
    BY <2>1, <2>2, <2>3, <2>4, <2>5 DEF Numbering
<1>5. ReachedOnly(A, DOMAIN g)
  BY <1>2 DEF ReachedOnly
<1>6. Len(L) = 1 /\ L[1] = <<0, A.initial>> /\ L \in Seq(Nat \X SUBSET A.states)
  BY <1>1
<1>7. IsStack(A, g, L)
  BY <1>2, <1>6 DEF IsStack
<1>8. IsWaiting(L, A.initial)
  BY <1>6 DEF IsWaiting
<1>9. \A S \in DOMAIN g : MovesMade(A, g, L, {}, S, LeftFor(S, << >>, {}))
  BY <1>2, <1>8 DEF MovesMade
<1>10. F = MacroFinal(A, g)
  <2>1. CASE A.initial \cap A.final # {}
    BY <1>2, <2>1 DEF MacroFinal
  <2>2. CASE A.initial \cap A.final = {}
    BY <1>2, <2>2 DEF MacroFinal
  <2>3. QED
    BY <2>1, <2>2
<1>11. InHand(A, g, L, << >>, {}) /\ DetPlace(A, L, {}, "first")
  BY DEF InHand, DetPlace
<1>12. QED
  BY <1>4, <1>5, <1>7, <1>9, <1>10, <1>11 DEF DetState

LEMMA DetStateMovesOn ==
  ASSUME NEW A, NEW g, NEW L, NEW d, NEW F, NEW e, NEW left, NEW place, NEW to,
         DetState(A, g, L, d, F, e, left, place), DetPlace(A, L, left, to)
  PROVE  DetState(A, g, L, d, F, e, left, to)
BY DEF DetState

(* The last of the stack is taken off.                                      *)
IsPopped(A, g, L, R, p) ==
  /\ IsStack(A, g, R) /\ p[2] \in DOMAIN g
  /\ p[1] = g[p[2]] /\ p[1] \in Nat /\ ~IsWaiting(R, p[2])
  /\ \A S : IsWaiting(L, S) => IsWaiting(R, S) \/ S = p[2]
  /\ Len(R) = Len(L) - 1
  /\ \A k \in 1 .. Len(R) : R[k] = L[k] /\ L[k][1] < p[1]

LEMMA StackPop ==
  ASSUME NEW A, NEW g, NEW L, IsStack(A, g, L), L # << >>
  PROVE  IsPopped(A, g, L, Front(L), Last(L))
<1>1. PICK N \in Nat : N = Len(L)
  BY DEF IsStack
<1>2. PICK R : R = Front(L)
  OBVIOUS
<1>3. PICK p : p = Last(L)
  OBVIOUS
<1>4. N >= 1 /\ p = L[N]
  <2>1. N # 0
    BY <1>1, EmptySeq DEF IsStack
  <2>2. QED
    BY <1>1, <1>3, <2>1 DEF Last
<1>5. R = SubSeq(L, 1, N - 1)
  BY <1>1, <1>2 DEF Front
<1>6. /\ R \in Seq(Nat \X SUBSET A.states) /\ Len(R) = N - 1
      /\ \A k \in 1 .. N - 1 : R[k] = L[k]
  BY <1>1, <1>4, <1>5 DEF IsStack
<1>7. \A k \in 1 .. N : /\ L[k] \in Nat \X SUBSET A.states
                        /\ L[k][2] \in DOMAIN g /\ L[k][1] = g[L[k][2]]
  BY <1>1 DEF IsStack
<1>8. \A k, l \in 1 .. N : k < l => L[k][1] < L[l][1]
  BY <1>1 DEF IsStack
<1>9. IsStack(A, g, R)
  <2>1. \A k \in 1 .. N - 1 : k \in 1 .. N
    OBVIOUS
  <2>2. \A k \in 1 .. Len(R) : R[k][2] \in DOMAIN g /\ R[k][1] = g[R[k][2]]
    BY <1>6, <1>7, <2>1
  <2>3. \A k, l \in 1 .. Len(R) : k < l => R[k][1] < R[l][1]
    BY <1>6, <1>8, <2>1
  <2>4. QED
    BY <1>6, <2>2, <2>3 DEF IsStack
<1>10. N \in 1 .. N
  BY <1>4
<1>11. p[2] \in DOMAIN g /\ p[1] = g[p[2]] /\ p[1] \in Nat
  BY <1>4, <1>7, <1>10
<1>12. \A k \in 1 .. N - 1 : R[k] = L[k] /\ L[k][1] < p[1] /\ L[k][1] \in Nat
  <2>1. ASSUME NEW k \in 1 .. N - 1 PROVE L[k][1] < p[1] /\ L[k][1] \in Nat
    <3>1. k \in 1 .. N /\ k < N
      OBVIOUS
    <3>2. QED
      BY <1>4, <1>7, <1>8, <1>10, <3>1
  <2>2. QED
    BY <1>6, <2>1
<1>13. ~IsWaiting(R, p[2])
  <2>1. ASSUME NEW k \in 1 .. Len(R), R[k][2] = p[2] PROVE FALSE
    <3>1. k \in 1 .. N - 1 /\ k \in 1 .. N
      BY <1>6
    <3>2. L[k][1] < p[1] /\ L[k][1] \in Nat /\ R[k] = L[k]
      BY <1>12, <3>1
    <3>3. L[k][1] = p[1]
      BY <1>7, <1>11, <2>1, <3>1, <3>2
    <3>4. QED
      BY <1>11, <3>2, <3>3
  <2>2. QED
    BY <2>1 DEF IsWaiting
<1>14. ASSUME NEW S, IsWaiting(L, S) PROVE IsWaiting(R, S) \/ S = p[2]
  <2>1. PICK k \in 1 .. N : L[k][2] = S
    BY <1>1, <1>14 DEF IsWaiting
  <2>2. CASE k = N
    BY <1>4, <2>1, <2>2
  <2>3. CASE k # N
    <3>1. k \in 1 .. N - 1
      BY <2>3
    <3>2. k \in 1 .. Len(R) /\ R[k][2] = S
      BY <1>6, <2>1, <3>1
    <3>3. QED
      BY <3>2 DEF IsWaiting
  <2>4. QED
    BY <2>2, <2>3
<1>15. QED
  <2>1. IsPopped(A, g, L, R, p)
    BY <1>1, <1>6, <1>9, <1>11, <1>12, <1>13, <1>14 DEF IsPopped
  <2>2. QED
    BY <1>2, <1>3, <2>1

LEMMA DetStatePop ==
  ASSUME NEW A, NEW g, NEW L, NEW d, NEW F, NEW e, DetState(A, g, L, d, F, e, {}, "loop"),
         L # << >>, NEW p, p = Last(L), NEW R, R = Front(L),
         NEW left, left = SymbolsOut(A, p[2]),
         NEW to, to = IF p[2] = {} THEN "done" ELSE "loop"
  PROVE  DetState(A, g, R, d, F, p, left, to)
<1>1. /\ IsNfa(A) /\ Numbering(A, DOMAIN g, g) /\ ReachedOnly(A, DOMAIN g) /\ IsStack(A, g, L)
      /\ \A m \in d : IsMoveOf(A, g, m)
      /\ \A m \in d : \A k \in 1 .. Len(L) : m[1] # L[k][1]
      /\ \A S \in DOMAIN g : MovesMade(A, g, L, d, S, LeftFor(S, e, {}))
      /\ F = MacroFinal(A, g)
  BY DEF DetState
<1>2. /\ IsStack(A, g, R) /\ p[2] \in DOMAIN g /\ p[1] = g[p[2]] /\ p[1] \in Nat
      /\ ~IsWaiting(R, p[2])
      /\ \A S : IsWaiting(L, S) => IsWaiting(R, S) \/ S = p[2]
      /\ Len(R) = Len(L) - 1
      /\ \A k \in 1 .. Len(R) : R[k] = L[k] /\ L[k][1] < p[1]
  <2>1. IsPopped(A, g, L, R, p)
    BY <1>1, StackPop
  <2>2. QED
    BY <2>1 DEF IsPopped
<1>3. ASSUME NEW m \in d, NEW k \in 1 .. Len(R) PROVE m[1] # R[k][1]
  <2>1. Len(L) \in Nat
    BY <1>1 DEF IsStack
  <2>2. k \in 1 .. Len(L)
    BY <1>2, <2>1
  <2>3. QED
    BY <1>1, <1>2, <2>2
<1>4. ASSUME NEW S \in DOMAIN g PROVE MovesMade(A, g, R, d, S, LeftFor(S, p, left))
  <2>1. MovesMade(A, g, L, d, S, {})
    BY <1>1 DEF LeftFor
  <2>2. CASE S = p[2]
    BY <2>2 DEF MovesMade, LeftFor
  <2>3. CASE S # p[2]
    BY <1>2, <2>1, <2>3 DEF MovesMade, LeftFor
  <2>4. QED
    BY <2>2, <2>3
<1>5. InHand(A, g, R, p, left)
  BY <1>2 DEF InHand
<1>6. DetPlace(A, R, left, to)
  <2>1. CASE p[2] # {}
    BY <2>1 DEF DetPlace
  <2>2. CASE p[2] = {}
    <3>1. left = {}
      BY <2>2 DEF SymbolsOut
    <3>2. A.initial = {} /\ g[A.initial] = 0
      BY <1>1, <1>2, <2>2 DEF Numbering
    <3>3. p[1] = 0
      BY <1>2, <2>2, <3>2
    <3>4. Len(R) = 0
      <4>1. Len(R) \in Nat
        BY <1>2 DEF IsStack
      <4>2. ASSUME Len(R) # 0 PROVE FALSE
        <5>1. 1 \in 1 .. Len(R)
          BY <4>1, <4>2
        <5>2. R[1] = L[1] /\ L[1][1] < 0
          BY <1>2, <3>3, <5>1
        <5>3. R[1] \in Nat \X SUBSET A.states
          BY <1>2, <5>1 DEF IsStack
        <5>4. QED
          BY <5>2, <5>3
      <4>3. QED
        BY <4>2
    <3>5. R = << >>
      BY <1>2, <3>4, EmptySeq DEF IsStack
    <3>6. QED
      BY <2>2, <3>1, <3>5 DEF DetPlace
  <2>3. QED
    BY <2>1, <2>2
<1>7. QED
  BY <1>1, <1>2, <1>3, <1>4, <1>5, <1>6 DEF DetState

(* A symbol is handled, and its targets are known.                          *)
LEMMA DetStateKnown ==
  ASSUME NEW A, NEW g, NEW L, NEW d, NEW F, NEW e, NEW left,
         DetState(A, g, L, d, F, e, left, "loop"), NEW a \in left,
         NEW T, T = Post(A, e[2], a), T \in DOMAIN g,
         NEW dd, dd = d \cup {<<e[1], a, g[T]>>}
  PROVE  DetState(A, g, L, dd, F, e, left \ {a}, "loop")
<1>1. /\ IsNfa(A) /\ Numbering(A, DOMAIN g, g) /\ ReachedOnly(A, DOMAIN g) /\ IsStack(A, g, L)
      /\ \A m \in d : IsMoveOf(A, g, m)
      /\ \A m \in d : \A k \in 1 .. Len(L) : m[1] # L[k][1]
      /\ \A S \in DOMAIN g : MovesMade(A, g, L, d, S, LeftFor(S, e, left))
      /\ F = MacroFinal(A, g) /\ InHand(A, g, L, e, left)
  BY DEF DetState
<1>2. PICK E : E = e[2]
  OBVIOUS
<1>3. /\ E \in DOMAIN g /\ e[1] = g[E] /\ ~IsWaiting(L, E) /\ left \subseteq SymbolsOut(A, E)
  BY <1>1, <1>2 DEF InHand
<1>4. T # {}
  <2>1. IsAutomaton(A, Nat)
    BY <1>1, NfaIs
  <2>2. QED
    BY <1>2, <1>3, <2>1, PostIsNotEmpty
<1>5. ASSUME NEW m \in dd PROVE IsMoveOf(A, g, m)
  <2>1. CASE m \in d
    BY <1>1, <2>1
  <2>2. CASE m = <<g[E], a, g[T]>>
    <3>1. m[2] = a
      BY <2>2
    <3>2. QED
      BY <1>2, <1>3, <1>4, <2>2, <3>1 DEF IsMoveOf
  <2>3. QED
    BY <1>3, <2>1, <2>2
<1>6. ASSUME NEW m \in dd, NEW k \in 1 .. Len(L) PROVE m[1] # L[k][1]
  <2>1. CASE m \in d
    BY <1>1, <2>1
  <2>2. CASE m = <<g[E], a, g[T]>>
    <3>1. L[k][2] # E
      BY <1>3 DEF IsWaiting
    <3>2. L[k][2] \in DOMAIN g /\ L[k][1] = g[L[k][2]]
      BY <1>1 DEF IsStack
    <3>3. L[k][1] # g[E]
      BY <1>1, <1>3, <3>1, <3>2 DEF Numbering
    <3>4. QED
      BY <2>2, <3>3
  <2>3. QED
    BY <1>3, <2>1, <2>2
<1>7. ASSUME NEW S \in DOMAIN g PROVE MovesMade(A, g, L, dd, S, LeftFor(S, e, left \ {a}))
  <2>1. MovesMade(A, g, L, d, S, LeftFor(S, e, left))
    BY <1>1
  <2>2. ASSUME NEW b \in SymbolsOut(A, S), ~IsWaiting(L, S), b \notin LeftFor(S, e, left \ {a})
        PROVE  IsMade(A, g, dd, S, b)
    <3>1. CASE S = E /\ b = a
      BY <1>2, <1>3, <3>1 DEF IsMade
    <3>2. CASE ~(S = E /\ b = a)
      <4>1. b \notin LeftFor(S, e, left)
        BY <1>2, <2>2, <3>2 DEF LeftFor
      <4>2. IsMade(A, g, d, S, b)
        BY <2>1, <2>2, <4>1 DEF MovesMade
      <4>3. QED
        BY <4>2 DEF IsMade
    <3>3. QED
      BY <3>1, <3>2
  <2>3. QED
    BY <2>2 DEF MovesMade
<1>8. InHand(A, g, L, e, left \ {a})
  BY <1>2, <1>3 DEF InHand
<1>9. DetPlace(A, L, left \ {a}, "loop")
  BY DEF DetPlace
<1>10. QED
  BY <1>1, <1>5, <1>6, <1>7, <1>8, <1>9 DEF DetState

(* The set of its targets is new: it is numbered and has to be expanded.    *)
LEMMA NumberingGrows ==
  ASSUME NEW A, NEW D, NEW g, Numbering(A, D, g), NEW T \in SUBSET A.states, T \notin D, T # {},
         NEW n, n = Cardinality(D), NEW h, \A S \in D : h[S] = g[S], h[T] = n
  PROVE  Numbering(A, D \cup {T}, h)
<1>1. PICK X : X = D \cup {T}
  OBVIOUS
<1>2. IsFiniteSet(X) /\ Cardinality(X) = n + 1 /\ n \in Nat
  BY <1>1, FS_AddElement, FS_CardinalityType DEF Numbering
<1>3. X \subseteq SUBSET A.states /\ A.initial \in X /\ h[A.initial] = 0
  BY <1>1 DEF Numbering
<1>4. \A S \in D : g[S] \in Nat /\ g[S] < n
  BY DEF Numbering
<1>5. \A S \in X : h[S] \in Nat /\ h[S] < n + 1
  BY <1>1, <1>2, <1>4
<1>6. \A S, R \in X : h[S] = h[R] => S = R
  <2>1. \A S, R \in D : h[S] = h[R] => S = R
    BY DEF Numbering
  <2>2. \A S \in D : h[S] # n
    BY <1>2, <1>4
  <2>3. QED
    BY <1>1, <2>1, <2>2
<1>7. ASSUME NEW k \in Nat, k < n + 1 PROVE \E S \in X : h[S] = k
  <2>1. CASE k = n
    BY <1>1, <2>1
  <2>2. CASE k # n
    <3>1. k < n
      BY <1>2, <1>7, <2>2
    <3>2. PICK S \in D : g[S] = k
      BY <3>1 DEF Numbering
    <3>3. QED
      BY <1>1, <3>2
  <2>3. QED
    BY <2>1, <2>2
<1>8. \A S \in X : S = {} => A.initial = {}
  BY <1>1 DEF Numbering
<1>9. Numbering(A, X, h)
  BY <1>2, <1>3, <1>5, <1>6, <1>7, <1>8 DEF Numbering
<1>10. QED
  BY <1>1, <1>9

IsPushed(A, h, L, R, T) ==
  /\ IsStack(A, h, R) /\ IsWaiting(R, T)
  /\ \A S : IsWaiting(L, S) => IsWaiting(R, S)
  /\ \A S : IsWaiting(R, S) => IsWaiting(L, S) \/ S = T
  /\ \A k \in 1 .. Len(R) : R[k] = <<h[T], T>> \/ \E l \in 1 .. Len(L) : R[k] = L[l]

LEMMA StackPush ==
  ASSUME NEW A, NEW D, NEW g, D = DOMAIN g, Numbering(A, D, g), NEW T \in SUBSET A.states,
         NEW n, n = Cardinality(D), NEW h, \A S \in D : h[S] = g[S], h[T] = n,
         DOMAIN h = D \cup {T}, NEW L, IsStack(A, g, L), NEW R, R = Append(L, <<n, T>>)
  PROVE  IsPushed(A, h, L, R, T)
<1>1. PICK N \in Nat : N = Len(L)
  BY DEF IsStack
<1>2. n \in Nat /\ \A S \in D : g[S] \in Nat /\ g[S] < n
  BY FS_CardinalityType DEF Numbering
<1>3. PICK Z : Z = Nat \X SUBSET A.states
  OBVIOUS
<1>4. L \in Seq(Z) /\ <<n, T>> \in Z
  BY <1>2, <1>3 DEF IsStack
<1>5. /\ R \in Seq(Z) /\ Len(R) = N + 1 /\ R[N + 1] = <<n, T>>
      /\ \A k \in 1 .. N : R[k] = L[k]
  BY <1>1, <1>4
<1>6. \A k \in 1 .. N : L[k][2] \in D /\ L[k][1] = g[L[k][2]]
  BY <1>1 DEF IsStack
<1>7. \A k \in 1 .. N + 1 : k \in 1 .. N \/ k = N + 1
  OBVIOUS
<1>8. \A k \in 1 .. N + 1 : R[k][2] \in DOMAIN h /\ R[k][1] = h[R[k][2]]
  BY <1>5, <1>6, <1>7
<1>9. ASSUME NEW k \in 1 .. N + 1, NEW l \in 1 .. N + 1, k < l PROVE R[k][1] < R[l][1]
  <2>1. k \in 1 .. N
    BY <1>9
  <2>2. CASE l = N + 1
    <3>1. R[l][1] = n
      BY <1>5, <2>2
    <3>2. R[k][1] = g[L[k][2]] /\ L[k][2] \in D
      BY <1>5, <1>6, <2>1
    <3>3. QED
      BY <1>2, <3>1, <3>2
  <2>3. CASE l \in 1 .. N
    BY <1>1, <1>5, <1>9, <2>1, <2>3 DEF IsStack
  <2>4. QED
    BY <1>7, <2>2, <2>3
<1>10. IsStack(A, h, R)
  BY <1>3, <1>5, <1>8, <1>9 DEF IsStack
<1>11. IsWaiting(R, T)
  <2>1. N + 1 \in 1 .. N + 1
    OBVIOUS
  <2>2. QED
    BY <1>5, <2>1 DEF IsWaiting
<1>12. ASSUME NEW S, IsWaiting(L, S) PROVE IsWaiting(R, S)
  <2>1. PICK k \in 1 .. N : L[k][2] = S
    BY <1>1, <1>12 DEF IsWaiting
  <2>2. k \in 1 .. Len(R) /\ R[k][2] = S
    BY <1>5, <2>1
  <2>3. QED
    BY <2>2 DEF IsWaiting
<1>13. ASSUME NEW S, IsWaiting(R, S) PROVE IsWaiting(L, S) \/ S = T
  <2>1. PICK k \in 1 .. N + 1 : R[k][2] = S
    BY <1>5, <1>13 DEF IsWaiting
  <2>2. CASE k = N + 1
    BY <1>5, <2>1, <2>2
  <2>3. CASE k \in 1 .. N
    BY <1>1, <1>5, <2>1, <2>3 DEF IsWaiting
  <2>4. QED
    BY <1>7, <2>2, <2>3
<1>14. \A k \in 1 .. Len(R) : R[k] = <<h[T], T>> \/ \E l \in 1 .. Len(L) : R[k] = L[l]
  BY <1>1, <1>5, <1>7
<1>15. QED
  BY <1>10, <1>11, <1>12, <1>13, <1>14 DEF IsPushed

Pushed(L, n, T) == Append(L, <<n, T>>)
Extended(g, T, n) == [S \in DOMAIN g \cup {T} |-> IF S = T THEN n ELSE g[S]]

WithMove(d, e, a, n) == d \cup {<<e[1], a, n>>}
WithFinal(A, F, T, n) == IF T \cap A.final = {} THEN F ELSE F \cup {n}

LEMMA DetStateNew ==
  ASSUME NEW A, NEW g, NEW L, NEW d, NEW F, NEW e, NEW left,
         DetState(A, g, L, d, F, e, left, "loop"), NEW a \in left,
         NEW T, T = Post(A, e[2], a), T \notin DOMAIN g, NEW n, n = Cardinality(DOMAIN g),
         NEW to, to \in {"loop", "stopped"}
  PROVE  DetState(A, Extended(g, T, n), Pushed(L, n, T), WithMove(d, e, a, n),
                  WithFinal(A, F, T, n), e, left \ {a}, to)
<1>0. PICK h, R, dd, FF : /\ h = Extended(g, T, n) /\ R = Pushed(L, n, T)
                          /\ dd = WithMove(d, e, a, n) /\ FF = WithFinal(A, F, T, n)
  OBVIOUS
<1>19. R = Append(L, <<n, T>>)
  BY <1>0 DEF Pushed
<1>1. /\ IsNfa(A) /\ Numbering(A, DOMAIN g, g) /\ ReachedOnly(A, DOMAIN g) /\ IsStack(A, g, L)
      /\ \A m \in d : IsMoveOf(A, g, m)
      /\ \A m \in d : \A k \in 1 .. Len(L) : m[1] # L[k][1]
      /\ \A S \in DOMAIN g : MovesMade(A, g, L, d, S, LeftFor(S, e, left))
      /\ F = MacroFinal(A, g) /\ InHand(A, g, L, e, left)
  BY DEF DetState
<1>2. PICK E : E = e[2]
  OBVIOUS
<1>3. /\ E \in DOMAIN g /\ e[1] = g[E] /\ ~IsWaiting(L, E) /\ left \subseteq SymbolsOut(A, E)
  BY <1>1, <1>2 DEF InHand
<1>4. IsInput(A) /\ IsAutomaton(A, Nat)
  BY <1>1, NfaIs
<1>5. T # {} /\ T \in SUBSET A.states
  BY <1>2, <1>3, <1>4, PostIsNotEmpty, PostIsSetOfStates
<1>6. PICK D : D = DOMAIN g
  OBVIOUS
<1>7. DOMAIN h = D \cup {T} /\ h[T] = n /\ \A S \in D : h[S] = g[S]
  BY <1>0, <1>6 DEF Extended
<1>8. /\ n \in Nat /\ \A S \in D : g[S] \in Nat /\ g[S] < n
      /\ \A S, V \in D : g[S] = g[V] => S = V
  BY <1>1, <1>6, FS_CardinalityType DEF Numbering
<1>9. Numbering(A, DOMAIN h, h)
  BY <1>1, <1>5, <1>6, <1>7, NumberingGrows
<1>10. ReachedOnly(A, DOMAIN h)
  <2>1. ASSUME NEW K, A.initial \in K, ClosedBy(K, MacroGraph(A).delta) PROVE T \in K
    <3>1. E \in K /\ E \in SUBSET A.states
      BY <1>1, <1>3, <2>1 DEF ReachedOnly, Numbering
    <3>2. PICK m : m = <<E, a, T>>
      OBVIOUS
    <3>3. m \in MacroGraph(A).delta
      BY <1>2, <1>3, <1>4, <3>1, <3>2, GraphHasMoves
    <3>4. QED
      BY <2>1, <3>1, <3>2, <3>3 DEF ClosedBy
  <2>2. QED
    BY <1>1, <1>6, <1>7, <2>1 DEF ReachedOnly
<1>11. IsPushed(A, h, L, R, T)
  <2>1. Numbering(A, D, g) /\ IsStack(A, g, L) /\ T \in SUBSET A.states
    BY <1>1, <1>5, <1>6
  <2>2. n = Cardinality(D)
    BY <1>6
  <2>3. DOMAIN h = D \cup {T}
    BY <1>7
  <2>4. h[T] = n
    BY <1>7
  <2>5. \A S \in D : h[S] = g[S]
    BY <1>7
  <2>6. QED
    BY <1>6, <2>1, <2>2, <2>3, <2>4, <2>5, <1>19, StackPush
<1>12. ASSUME NEW m \in dd PROVE IsMoveOf(A, h, m)
  <2>1. CASE m \in d
    <3>1. PICK S \in D : \E V \in D : m = <<g[S], m[2], g[V]>> /\ V # {} /\ V = Post(A, S, m[2])
      BY <1>1, <1>6, <2>1 DEF IsMoveOf
    <3>2. PICK V \in D : m = <<g[S], m[2], g[V]>> /\ V # {} /\ V = Post(A, S, m[2])
      BY <3>1
    <3>3. S \in DOMAIN h /\ V \in DOMAIN h /\ m = <<h[S], m[2], h[V]>>
      BY <1>7, <3>2
    <3>4. QED
      BY <3>2, <3>3 DEF IsMoveOf
  <2>2. CASE m = <<g[E], a, n>>
    <3>1. m = <<h[E], m[2], h[T]>> /\ m[2] = a /\ E \in DOMAIN h /\ T \in DOMAIN h
      BY <1>3, <1>6, <1>7, <2>2
    <3>2. QED
      BY <1>2, <1>5, <3>1 DEF IsMoveOf
  <2>3. QED
    BY <1>0, <1>3, <2>1, <2>2 DEF WithMove
<1>13. ASSUME NEW m \in dd, NEW k \in 1 .. Len(R) PROVE m[1] # R[k][1]
  <2>1. m[1] # n
    <3>1. CASE m \in d
      <4>1. PICK S \in D : m[1] = g[S]
        BY <1>1, <1>6, <3>1 DEF IsMoveOf
      <4>2. QED
        BY <1>8, <4>1
    <3>2. CASE m = <<g[E], a, n>>
      BY <1>3, <1>6, <1>8, <3>2
    <3>3. QED
      BY <1>0, <1>3, <3>1, <3>2 DEF WithMove
  <2>2. ASSUME NEW l \in 1 .. Len(L), R[k] = L[l] PROVE m[1] # L[l][1]
    <3>1. CASE m \in d
      BY <1>1, <3>1
    <3>2. CASE m = <<g[E], a, n>>
      <4>1. L[l][2] # E
        BY <1>3 DEF IsWaiting
      <4>2. L[l][2] \in D /\ L[l][1] = g[L[l][2]]
        BY <1>1, <1>6 DEF IsStack
      <4>3. L[l][1] # g[E]
        BY <1>3, <1>6, <1>8, <4>1, <4>2
      <4>4. QED
        BY <3>2, <4>3
    <3>3. QED
      BY <1>0, <1>3, <3>1, <3>2 DEF WithMove
  <2>3. R[k] = <<n, T>> \/ \E l \in 1 .. Len(L) : R[k] = L[l]
    BY <1>7, <1>11 DEF IsPushed
  <2>4. QED
    BY <2>1, <2>2, <2>3
<1>14. ASSUME NEW S \in DOMAIN h PROVE MovesMade(A, h, R, dd, S, LeftFor(S, e, left \ {a}))
  <2>1. CASE S = T
    BY <1>11, <2>1 DEF IsPushed, MovesMade
  <2>2. CASE S \in D
    <3>1. MovesMade(A, g, L, d, S, LeftFor(S, e, left))
      BY <1>1, <1>6, <2>2
    <3>2. ASSUME NEW b \in SymbolsOut(A, S), ~IsWaiting(R, S), b \notin LeftFor(S, e, left \ {a})
          PROVE  IsMade(A, h, dd, S, b)
      <4>1. ~IsWaiting(L, S)
        BY <1>11, <3>2 DEF IsPushed
      <4>2. CASE S = E /\ b = a
        <5>1. Post(A, S, b) = T /\ h[S] = e[1]
          BY <1>2, <1>3, <1>7, <2>2, <4>2
        <5>2. T \in DOMAIN h /\ <<h[S], b, h[T]>> \in dd
          BY <1>0, <1>7, <4>2, <5>1 DEF WithMove
        <5>3. QED
          BY <5>1, <5>2 DEF IsMade
      <4>3. CASE ~(S = E /\ b = a)
        <5>1. b \notin LeftFor(S, e, left)
          BY <1>2, <3>2, <4>3 DEF LeftFor
        <5>2. IsMade(A, g, d, S, b)
          BY <3>1, <3>2, <4>1, <5>1 DEF MovesMade
        <5>3. PICK V : V = Post(A, S, b)
          OBVIOUS
        <5>4. V \in D /\ <<g[S], b, g[V]>> \in d
          BY <1>6, <5>2, <5>3 DEF IsMade
        <5>5. V \in DOMAIN h /\ <<h[S], b, h[V]>> \in dd
          BY <1>0, <1>7, <2>2, <5>4 DEF WithMove
        <5>6. QED
          BY <5>3, <5>5 DEF IsMade
      <4>4. QED
        BY <4>2, <4>3
    <3>3. QED
      BY <3>2 DEF MovesMade
  <2>3. QED
    BY <1>7, <2>1, <2>2
<1>15. InHand(A, h, R, e, left \ {a})
  <2>1. ~IsWaiting(R, E)
    BY <1>3, <1>6, <1>11 DEF IsPushed
  <2>2. QED
    BY <1>2, <1>3, <1>6, <1>7, <2>1 DEF InHand
<1>16. DetPlace(A, R, left \ {a}, to)
  BY DEF DetPlace
<1>17. MacroFinal(A, h) = FF
  <2>1. PICK Y : Y = {S \in D : S \cap A.final # {}}
    OBVIOUS
  <2>2. PICK X : X = {S \in DOMAIN h : S \cap A.final # {}}
    OBVIOUS
  <2>3. F = {g[S] : S \in Y} /\ MacroFinal(A, h) = {h[S] : S \in X}
    BY <1>1, <1>6, <2>1, <2>2 DEF MacroFinal
  <2>4. \A S \in Y : S \in D /\ h[S] = g[S]
    BY <1>7, <2>1
  <2>8. {h[S] : S \in Y} = F
    BY <2>3, <2>4
  <2>5. CASE T \cap A.final = {}
    <3>1. X = Y
      BY <1>7, <2>1, <2>2, <2>5
    <3>2. QED
      BY <1>0, <2>3, <2>5, <2>8, <3>1 DEF WithFinal
  <2>6. CASE T \cap A.final # {}
    <3>1. X = Y \cup {T}
      BY <1>7, <2>1, <2>2, <2>6
    <3>2. {h[S] : S \in Y \cup {T}} = {h[S] : S \in Y} \cup {h[T]}
      OBVIOUS
    <3>4. QED
      BY <1>0, <1>7, <2>3, <2>6, <2>8, <3>1, <3>2 DEF WithFinal
  <2>7. QED
    BY <2>5, <2>6
<1>18. DetState(A, h, R, dd, FF, e, left \ {a}, to)
  BY <1>1, <1>9, <1>10, <1>11, <1>12, <1>13, <1>14, <1>15, <1>16, <1>17 DEF DetState, IsPushed
<1>20. QED
  BY <1>0, <1>18

(* At the end all the macrostates are there and have all their transitions. *)
LEMMA DetStateMade ==
  ASSUME NEW A, NEW g, NEW L, NEW d, NEW F, NEW e, NEW left,
         DetState(A, g, L, d, F, e, left, "done"), NEW S \in DOMAIN g,
         NEW a, Post(A, S, a) # {}
  PROVE  IsMade(A, g, d, S, a)
<1>1. MovesMade(A, g, L, d, S, LeftFor(S, e, left)) /\ IsNfa(A) /\ DetPlace(A, L, left, "done")
  BY DEF DetState
<1>2. a \in SymbolsOut(A, S)
  BY <1>1, NfaIs, PostIsNotEmpty
<1>3. A.delta # {}
  BY <1>2 DEF SymbolsOut
<1>4. L = << >> /\ left = {}
  BY <1>1, <1>3 DEF DetPlace
<1>5. ~IsWaiting(L, S)
  <2>1. Len(L) = 0
    BY <1>4
  <2>2. 1 .. Len(L) = {}
    BY <2>1
  <2>3. QED
    BY <2>2 DEF IsWaiting
<1>6. QED
  BY <1>1, <1>2, <1>4, <1>5 DEF MovesMade, LeftFor

LEMMA DetStateLeast ==
  ASSUME NEW A, NEW g, NEW L, NEW d, NEW F, NEW e, NEW left,
         DetState(A, g, L, d, F, e, left, "done")
  PROVE  IsLeastClosed(DOMAIN g, {A.initial}, MacroGraph(A).delta)
<1>1. IsNfa(A) /\ Numbering(A, DOMAIN g, g) /\ ReachedOnly(A, DOMAIN g)
  BY DEF DetState
<1>2. IsInput(A) /\ IsAutomaton(A, Nat)
  BY <1>1, NfaIs
<1>3. ASSUME NEW m \in MacroGraph(A).delta, m[1] \in DOMAIN g PROVE m[3] \in DOMAIN g
  <2>1. m[2] \in SymbolsOut(A, m[1]) /\ m[3] = Post(A, m[1], m[2])
    BY <1>2, GraphMoves
  <2>2. Post(A, m[1], m[2]) # {}
    BY <1>2, <2>1, PostIsNotEmpty
  <2>3. IsMade(A, g, d, m[1], m[2])
    BY <1>3, <2>2, DetStateMade
  <2>4. QED
    BY <2>1, <2>3 DEF IsMade
<1>4. A.initial \in DOMAIN g
  BY <1>1 DEF Numbering
<1>5. QED
  BY <1>1, <1>3, <1>4 DEF IsLeastClosed, ClosedBy, ReachedOnly

DetResult(A, B, g) ==
  /\ IsDeterminized(A, B, DOMAIN g, g) /\ IsNfa(B)
  /\ B.states = 0 .. Cardinality(DOMAIN g) - 1
  /\ IsLeastClosed(DOMAIN g, {A.initial}, MacroGraph(A).delta)

LEMMA DetStateResult ==
  ASSUME NEW A, NEW g, NEW L, NEW d, NEW F, NEW e, NEW left,
         DetState(A, g, L, d, F, e, left, "done"),
         NEW B, B = [states |-> 0 .. Cardinality(DOMAIN g) - 1, initial |-> {0},
                     final |-> F, delta |-> d]
  PROVE  DetResult(A, B, g)
<1>1. /\ IsNfa(A) /\ Numbering(A, DOMAIN g, g) /\ F = MacroFinal(A, g)
      /\ \A m \in d : IsMoveOf(A, g, m)
  BY DEF DetState
<1>2. PICK D : D = DOMAIN g
  OBVIOUS
<1>3. PICK n \in Nat : n = Cardinality(D)
  BY <1>1, <1>2, FS_CardinalityType DEF Numbering
<1>4. /\ D \subseteq SUBSET A.states /\ A.initial \in D /\ g[A.initial] = 0
      /\ \A S \in D : g[S] \in Nat /\ g[S] < n
      /\ \A S, T \in D : g[S] = g[T] => S = T
      /\ \A k \in Nat : k < n => \E S \in D : g[S] = k
  BY <1>1, <1>2, <1>3 DEF Numbering
<1>5. /\ B.states = 0 .. n - 1 /\ B.initial = {0} /\ B.final = F /\ B.delta = d
  BY <1>2, <1>3
<1>6. B.states = {g[S] : S \in D}
  <2>1. \A S \in D : g[S] \in 0 .. n - 1
    BY <1>3, <1>4
  <2>2. ASSUME NEW k \in 0 .. n - 1 PROVE \E S \in D : g[S] = k
    <3>1. k \in Nat /\ k < n
      BY <1>3
    <3>2. QED
      BY <1>4, <3>1
  <2>3. PICK Y : Y = {g[S] : S \in D}
    OBVIOUS
  <2>4. Y \subseteq 0 .. n - 1
    BY <2>1, <2>3
  <2>5. 0 .. n - 1 \subseteq Y
    BY <2>2, <2>3
  <2>6. QED
    BY <1>5, <2>3, <2>4, <2>5
<1>7. B.final = {g[S] : S \in {T \in D : T \cap A.final # {}}}
  BY <1>1, <1>2, <1>5 DEF MacroFinal
<1>8. ASSUME NEW m \in d
      PROVE  m[1] \in B.states /\ m[2] \in Letters /\ m[3] \in B.states /\ m = <<m[1], m[2], m[3]>>
  <2>1. PICK S \in D : \E T \in D : m = <<g[S], m[2], g[T]>> /\ T # {} /\ T = Post(A, S, m[2])
    BY <1>1, <1>2 DEF IsMoveOf
  <2>2. PICK T \in D : m = <<g[S], m[2], g[T]>> /\ T # {} /\ T = Post(A, S, m[2])
    BY <2>1
  <2>7. PICK y : y \in Post(A, S, m[2])
    BY <2>2
  <2>3. PICK x \in S : <<x, m[2], y>> \in A.delta
    BY <2>7 DEF Post
  <2>4. m[2] \in Letters
    <3>1. A.delta \subseteq A.states \X Letters \X A.states
      BY <1>1, NfaIs
    <3>2. QED
      BY <2>3, <3>1
  <2>5. m[1] = g[S] /\ m[3] = g[T]
    BY <2>2
  <2>6. QED
    BY <1>6, <2>2, <2>4, <2>5
<1>9. B.delta \subseteq B.states \X Letters \X B.states
  <2>1. ASSUME NEW m \in d PROVE m \in B.states \X Letters \X B.states
    BY <1>8
  <2>2. QED
    BY <1>5, <2>1
<1>10. B.delta \subseteq B.states \X Nat \X B.states /\ B.delta \subseteq Nat \X Nat \X Nat
  <2>1. Letters \subseteq Nat /\ B.states \subseteq Nat
    BY <1>3, <1>5, JobsAssumption
  <2>2. QED
    BY <1>9, <2>1
<1>11. ASSUME NEW S \in D, NEW a, Post(A, S, a) # {} PROVE Post(A, S, a) \in D
  <2>1. IsMade(A, g, d, S, a)
    BY <1>2, <1>11, DetStateMade
  <2>2. QED
    BY <1>2, <2>1 DEF IsMade
<1>12. ASSUME NEW S \in D, NEW T \in D, NEW a
       PROVE  <<g[S], a, g[T]>> \in B.delta <=> T # {} /\ T = Post(A, S, a)
  <2>1. ASSUME <<g[S], a, g[T]>> \in B.delta PROVE T # {} /\ T = Post(A, S, a)
    <3>1. PICK m \in d : m = <<g[S], a, g[T]>>
      BY <1>5, <2>1
    <3>2. PICK U \in D : \E V \in D : m = <<g[U], m[2], g[V]>> /\ V # {} /\ V = Post(A, U, m[2])
      BY <1>1, <1>2 DEF IsMoveOf
    <3>3. PICK V \in D : m = <<g[U], m[2], g[V]>> /\ V # {} /\ V = Post(A, U, m[2])
      BY <3>2
    <3>4. g[S] = g[U] /\ g[T] = g[V] /\ m[2] = a
      BY <3>1, <3>3
    <3>5. S = U /\ T = V
      BY <1>4, <3>4
    <3>6. QED
      BY <3>3, <3>4, <3>5
  <2>2. ASSUME T # {}, T = Post(A, S, a) PROVE <<g[S], a, g[T]>> \in B.delta
    <3>1. IsMade(A, g, d, S, a)
      BY <1>2, <2>2, DetStateMade
    <3>2. QED
      BY <1>5, <2>2, <3>1 DEF IsMade
  <2>3. QED
    BY <2>1, <2>2
<1>13. B.initial = {g[A.initial]}
  BY <1>4, <1>5
<1>14. IsDeterminized(A, B, D, g)
  BY <1>4, <1>6, <1>7, <1>10, <1>11, <1>12, <1>13 DEF IsDeterminized
<1>15. IsNfa(B)
  <2>1. B.states \in SUBSET Nat /\ IsFiniteSet(B.states)
    BY <1>3, <1>5, FS_Interval
  <2>2. B.initial \subseteq B.states /\ B.final \subseteq B.states
    BY <1>4, <1>6, <1>7, <1>13
  <2>3. B \in [states : SUBSET Nat, initial : SUBSET Nat, final : SUBSET Nat,
               delta : SUBSET (Nat \X Nat \X Nat)]
    <3>1. PICK s : s = 0 .. n - 1
      OBVIOUS
    <3>2. B = [states |-> s, initial |-> {0}, final |-> F, delta |-> d]
      BY <1>2, <1>3, <3>1
    <3>3. s \in SUBSET Nat /\ {0} \in SUBSET Nat /\ F \in SUBSET Nat
          /\ d \in SUBSET (Nat \X Nat \X Nat)
      BY <1>5, <1>10, <2>1, <2>2, <3>1
    <3>4. QED
      BY <3>2, <3>3
  <2>4. QED
    BY <1>9, <2>1, <2>2, <2>3 DEF IsNfa, IsAutomaton
<1>16. IsLeastClosed(D, {A.initial}, MacroGraph(A).delta)
  BY <1>2, DetStateLeast
<1>17. QED
  BY <1>2, <1>3, <1>5, <1>14, <1>15, <1>16 DEF DetResult

(* The variables of the construction.                                       *)
DetHolds == DetState(original, subset_map, macro_worklist, macro_delta, macro_final,
                     expanding, symbols_left, det_at)

LEMMA DetHoldsAtCall ==
  ASSUME NEW A, IsNfa(A), NEW stop, DetCalled(A, stop)
  PROVE  DetHolds
<1> USE DEF DetCalled
<1>1. DetState(A, subset_map, macro_worklist, {}, macro_final, << >>, {}, "first")
  BY DetStateStarts
<1>2. QED
  BY <1>1 DEF DetHolds

LEMMA LeastSymbol ==
  ASSUME NEW T \in SUBSET Nat, T # {}
  PROVE  LeastOf(T) \in T
BY LeastElement DEF LeastOf

LEMMA DetHoldsOn ==
  ASSUME DetHolds, DetNext
  PROVE  DetHolds'
<1> USE DEF DetHolds
<1>1. CASE DetFirst
  <2>1. UNCHANGED <<original, subset_map, macro_worklist, macro_delta, macro_final,
                    expanding, symbols_left>>
    BY <1>1 DEF DetFirst
  <2>2. DetPlace(original, macro_worklist, symbols_left, det_at')
    <3>1. DetPlace(original, macro_worklist, symbols_left, det_at)
      BY DEF DetState
    <3>2. QED
      BY <1>1, <3>1 DEF DetFirst, DetPlace
  <2>3. DetState(original, subset_map, macro_worklist, macro_delta, macro_final,
                 expanding, symbols_left, det_at')
    BY <2>2, DetStateMovesOn
  <2>4. QED
    BY <2>1, <2>3
<1>2. CASE DetFinish
  <2>1. UNCHANGED <<original, subset_map, macro_worklist, macro_delta, macro_final,
                    expanding, symbols_left>>
    BY <1>2 DEF DetFinish
  <2>2. DetPlace(original, macro_worklist, symbols_left, det_at')
    BY <1>2 DEF DetFinish, DetPlace
  <2>3. DetState(original, subset_map, macro_worklist, macro_delta, macro_final,
                 expanding, symbols_left, det_at')
    BY <2>2, DetStateMovesOn
  <2>4. QED
    BY <2>1, <2>3
<1>3. CASE DetPop
  <2>1. /\ det_at = "loop" /\ symbols_left = {} /\ macro_worklist # << >>
        /\ expanding' = Last(macro_worklist) /\ macro_worklist' = Front(macro_worklist)
        /\ symbols_left' = SymbolsOut(original, expanding'[2])
        /\ det_at' = IF expanding'[2] = {} THEN "done" ELSE "loop"
        /\ UNCHANGED <<original, subset_map, macro_delta, macro_final>>
    BY <1>3 DEF DetPop, SymbolsOut
  <2>2. DetState(original, subset_map, macro_worklist, macro_delta, macro_final,
                 expanding, {}, "loop")
    BY <2>1
  <2>3. DetState(original, subset_map, macro_worklist', macro_delta, macro_final,
                 expanding', symbols_left', det_at')
    BY <2>1, <2>2, DetStatePop
  <2>4. QED
    BY <2>1, <2>3
<1>4. CASE DetSymbol
  <2>1. PICK a : a = LeastOf(symbols_left)
    OBVIOUS
  <2>2. PICK T : T = Post(original, expanding[2], a)
    OBVIOUS
  <2>3. /\ det_at = "loop" /\ symbols_left # {} /\ symbols_left' = symbols_left \ {a}
        /\ UNCHANGED <<original, expanding>>
    BY <1>4, <2>1 DEF DetSymbol
  <2>4. a \in symbols_left
    <3>1. /\ IsNfa(original) /\ InHand(original, subset_map, macro_worklist, expanding, symbols_left)
      BY DEF DetState
    <3>2. IsInput(original)
      BY <3>1, NfaIs
    <3>3. SymbolsOut(original, expanding[2]) \subseteq Nat
      BY <3>2, SymbolsAreNumbers
    <3>4. QED
      BY <2>1, <2>3, <3>1, <3>3, LeastSymbol DEF InHand
  <2>5. DetState(original, subset_map, macro_worklist, macro_delta, macro_final,
                 expanding, symbols_left, "loop")
    BY <2>3
  <2>6. CASE T \in DOMAIN subset_map
    <3>1. /\ macro_delta' = macro_delta \cup {<<expanding[1], a, subset_map[T]>>}
          /\ UNCHANGED <<subset_map, macro_final, macro_worklist, det_at>>
      BY <1>4, <2>1, <2>2, <2>6 DEF DetSymbol
    <3>2. DetState(original, subset_map, macro_worklist, macro_delta', macro_final,
                   expanding, symbols_left \ {a}, "loop")
      BY <2>2, <2>4, <2>5, <2>6, <3>1, DetStateKnown
    <3>3. QED
      BY <2>3, <3>1, <3>2
  <2>7. CASE T \notin DOMAIN subset_map
    <3>1. PICK n : n = Cardinality(DOMAIN subset_map)
      OBVIOUS
    <3>2. /\ subset_map' = [S \in DOMAIN subset_map \cup {T} |->
                              IF S = T THEN n ELSE subset_map[S]]
          /\ macro_final' = IF T \cap original.final = {} THEN macro_final
                            ELSE macro_final \cup {n}
          /\ macro_worklist' = Append(macro_worklist, <<n, T>>)
          /\ macro_delta' = macro_delta \cup {<<expanding[1], a, n>>}
          /\ det_at' \in {"loop", "stopped"}
      BY <1>4, <2>1, <2>2, <2>7, <3>1 DEF DetSymbol, num_of_macrostates
    <3>3. DetState(original, subset_map', macro_worklist', macro_delta', macro_final',
                   expanding, symbols_left \ {a}, det_at')
      <4>1. PICK h, R, dd, F, to : /\ h = subset_map' /\ R = macro_worklist' /\ dd = macro_delta'
                                   /\ F = macro_final' /\ to = det_at'
        OBVIOUS
      <4>2. h = Extended(subset_map, T, n)
        BY <3>2, <4>1 DEF Extended
      <4>3. R = Append(macro_worklist, <<n, T>>)
        BY <3>2, <4>1
      <4>7. dd = WithMove(macro_delta, expanding, a, n)
        BY <3>2, <4>1 DEF WithMove
      <4>8. to \in {"loop", "stopped"}
        BY <3>2, <4>1
      <4>4. F = WithFinal(original, macro_final, T, n)
        BY <3>2, <4>1 DEF WithFinal
      <4>5. PICK A, g, L, d, f, e, left : /\ A = original /\ g = subset_map /\ L = macro_worklist
                                          /\ d = macro_delta /\ f = macro_final /\ e = expanding
                                          /\ left = symbols_left
        OBVIOUS
      <4>6. DetState(A, g, L, d, f, e, left, "loop")
        BY <2>5, <4>5
      <4>9. a \in left
        BY <2>4, <4>5
      <4>13. T = Post(A, e[2], a)
        BY <2>2, <4>5
      <4>14. T \notin DOMAIN g
        BY <2>7, <4>5
      <4>15. n = Cardinality(DOMAIN g)
        BY <3>1, <4>5
      <4> HIDE DEF DetHolds
      <4>10. /\ h = Extended(g, T, n) /\ R = Pushed(L, n, T) /\ dd = WithMove(d, e, a, n)
             /\ F = WithFinal(A, f, T, n)
        BY <4>2, <4>3, <4>4, <4>5, <4>7 DEF Pushed
      <4>11. DetState(A, h, R, dd, F, e, left \ {a}, to)
        <5>1. DetState(A, Extended(g, T, n), Pushed(L, n, T), WithMove(d, e, a, n),
                       WithFinal(A, f, T, n), e, left \ {a}, to)
          BY <4>6, <4>8, <4>9, <4>13, <4>14, <4>15, DetStateNew
        <5>2. QED
          BY <4>10, <5>1
      <4>12. QED
        BY <4>1, <4>5, <4>11
    <3>4. QED
      BY <2>3, <3>3
  <2>8. QED
    BY <2>6, <2>7
<1>5. QED
  BY <1>1, <1>2, <1>3, <1>4 DEF DetNext

LEMMA LeastIsOne ==
  ASSUME NEW C, NEW K, NEW S, NEW D, IsLeastClosed(C, S, D), IsLeastClosed(K, S, D)
  PROVE  C = K
<1>1. C \subseteq K
  BY DEF IsLeastClosed
<1>2. K \subseteq C
  BY DEF IsLeastClosed
<1>3. QED
  BY <1>1, <1>2

(* The transitions of the subset automaton between macrostates of D.        *)
ExactMoves(A, D) ==
  {m \in D \X {k[2] : k \in A.delta} \X D : m[3] # {} /\ m[3] = Post(A, m[1], m[2])}
MovesThrough(g, moves) == {<<g[m[1]], m[2], g[m[3]]>> : m \in moves}

LEMMA MovesAreExact ==
  ASSUME NEW A, NEW g, NEW L, NEW d, NEW F, NEW e, NEW left, NEW place,
         DetState(A, g, L, d, F, e, left, place)
  PROVE  d \subseteq MovesThrough(g, ExactMoves(A, DOMAIN g))
<1> SUFFICES ASSUME NEW m \in d PROVE m \in MovesThrough(g, ExactMoves(A, DOMAIN g))
  OBVIOUS
<1>1. PICK D : D = DOMAIN g
  OBVIOUS
<1>2. PICK S \in D : \E V \in D : m = <<g[S], m[2], g[V]>> /\ V # {} /\ V = Post(A, S, m[2])
  BY <1>1 DEF DetState, IsMoveOf
<1>3. PICK V \in D : m = <<g[S], m[2], g[V]>> /\ V # {} /\ V = Post(A, S, m[2])
  BY <1>2
<1>4. PICK a : a = m[2]
  OBVIOUS
<1>5. a \in {k[2] : k \in A.delta}
  <2>1. PICK y : y \in Post(A, S, a)
    BY <1>3, <1>4
  <2>2. PICK x \in S : <<x, a, y>> \in A.delta
    BY <2>1 DEF Post
  <2>3. PICK k \in A.delta : k = <<x, a, y>>
    BY <2>2
  <2>4. k[2] = a
    BY <2>3
  <2>5. QED
    BY <2>4
<1>6. PICK n : n = <<S, a, V>>
  OBVIOUS
<1>7. n \in ExactMoves(A, D)
  BY <1>3, <1>4, <1>5, <1>6 DEF ExactMoves
<1>8. m = <<g[n[1]], n[2], g[n[3]]>>
  BY <1>3, <1>4, <1>6
<1>9. QED
  BY <1>1, <1>7, <1>8 DEF MovesThrough

LEMMA MovesAreAll ==
  ASSUME NEW A, NEW g, NEW L, NEW d, NEW F, NEW e, NEW left,
         DetState(A, g, L, d, F, e, left, "done")
  PROVE  MovesThrough(g, ExactMoves(A, DOMAIN g)) \subseteq d
<1> SUFFICES ASSUME NEW m \in ExactMoves(A, DOMAIN g)
             PROVE  <<g[m[1]], m[2], g[m[3]]>> \in d
  BY DEF MovesThrough
<1>1. m[1] \in DOMAIN g /\ m[3] # {} /\ m[3] = Post(A, m[1], m[2])
  BY DEF ExactMoves
<1>2. IsMade(A, g, d, m[1], m[2])
  BY <1>1, DetStateMade
<1>3. QED
  BY <1>1, <1>2 DEF IsMade

LEMMA SubsetsHold ==
  ASSUME DetHolds
  PROVE  SubsetConstruction
<1>1. PICK A, g, L, d, F, e, left, place :
        /\ A = original /\ g = subset_map /\ L = macro_worklist /\ d = macro_delta
        /\ F = macro_final /\ e = expanding /\ left = symbols_left /\ place = det_at
  OBVIOUS
<1>2. DetState(A, g, L, d, F, e, left, place)
  BY <1>1 DEF DetHolds
<1>3. /\ IsNfa(A) /\ Numbering(A, DOMAIN g, g) /\ IsStack(A, g, L) /\ F = MacroFinal(A, g)
      /\ \A m \in d : \A k \in 1 .. Len(L) : m[1] # L[k][1]
  BY <1>2 DEF DetState
<1>4. PICK n \in Nat : n = Cardinality(DOMAIN g)
  BY <1>3, FS_CardinalityType DEF Numbering
<1>5. {g[S] : S \in DOMAIN g} = 0 .. n - 1
  <2>1. \A S \in DOMAIN g : g[S] \in 0 .. n - 1
    BY <1>3, <1>4 DEF Numbering
  <2>2. ASSUME NEW k \in 0 .. n - 1 PROVE \E S \in DOMAIN g : g[S] = k
    <3>1. k \in Nat /\ k < n
      BY <1>4
    <3>2. QED
      BY <1>3, <1>4, <3>1 DEF Numbering
  <2>3. PICK Y : Y = {g[S] : S \in DOMAIN g}
    OBVIOUS
  <2>4. Y \subseteq 0 .. n - 1
    BY <2>1, <2>3
  <2>5. 0 .. n - 1 \subseteq Y
    BY <2>2, <2>3
  <2>6. QED
    BY <2>3, <2>4, <2>5
<1>6. ASSUME NEW k \in 1 .. Len(L), NEW l \in 1 .. Len(L), k # l PROVE L[k] # L[l]
  <2>1. Len(L) \in Nat /\ L[k][1] \in Nat /\ L[l][1] \in Nat
    BY <1>3 DEF IsStack
  <2>2. k < l \/ l < k
    BY <1>6, <2>1
  <2>3. L[k][1] < L[l][1] \/ L[l][1] < L[k][1]
    BY <1>3, <2>2 DEF IsStack
  <2>4. L[k][1] # L[l][1]
    BY <2>1, <2>3
  <2>5. QED
    BY <2>4
<1>7. \A k \in 1 .. Len(L) : L[k][1] = g[L[k][2]] /\ \A m \in d : m[1] # L[k][1]
  BY <1>3 DEF IsStack
<1>8. PICK X : X = ExactMoves(A, DOMAIN g)
  OBVIOUS
<1>9. d \subseteq MovesThrough(g, X)
  BY <1>2, <1>8, MovesAreExact
<1>10. ASSUME place = "done" PROVE DOMAIN g = Macrostates /\ d = MovesThrough(g, X)
  <2>1. DetState(A, g, L, d, F, e, left, "done")
    BY <1>2, <1>10
  <2>2. d = MovesThrough(g, X)
    BY <1>8, <1>9, <2>1, MovesAreAll
  <2>3. IsLeastClosed(DOMAIN g, {original.initial}, MacroMoves)
    BY <1>1, <2>1, DetStateLeast DEF MacroMoves
  <2>4. IsInput(original)
    BY <1>1, <1>3, NfaIs
  <2>5. IsLeastClosed(Macrostates, {original.initial}, MacroMoves)
    BY <2>4, MacrostatesAreLeast
  <2>6. QED
    BY <2>2, <2>3, <2>5, LeastIsOne
<1>11. {subset_map[S] : S \in DOMAIN subset_map} = 0 .. num_of_macrostates - 1
  BY <1>1, <1>4, <1>5 DEF num_of_macrostates
<1>12. \A k, l \in 1 .. Len(macro_worklist) : k # l => macro_worklist[k] # macro_worklist[l]
  BY <1>1, <1>6
<1>13. \A k \in 1 .. Len(macro_worklist) :
         /\ macro_worklist[k][1] = subset_map[macro_worklist[k][2]]
         /\ \A m \in macro_delta : m[1] # macro_worklist[k][1]
  BY <1>1, <1>7
<1>14. LET exact == {m \in (DOMAIN subset_map) \X {k[2] : k \in original.delta} \X
                           (DOMAIN subset_map) :
                       m[3] # {} /\ m[3] = Post(original, m[1], m[2])}
       IN /\ macro_delta \subseteq {<<subset_map[m[1]], m[2], subset_map[m[3]]>> : m \in exact}
          /\ det_at = "done" =>
               /\ DOMAIN subset_map = Macrostates
               /\ macro_delta = {<<subset_map[m[1]], m[2], subset_map[m[3]]>> : m \in exact}
  <2>1. macro_delta \subseteq MovesThrough(subset_map, ExactMoves(original, DOMAIN subset_map))
    BY <1>1, <1>8, <1>9
  <2>2. det_at = "done" =>
          /\ DOMAIN subset_map = Macrostates
          /\ macro_delta = MovesThrough(subset_map, ExactMoves(original, DOMAIN subset_map))
    BY <1>1, <1>8, <1>10
  <2>3. QED
    BY <2>1, <2>2, Zenon DEF ExactMoves, MovesThrough
<1>15. macro_final = {subset_map[S] : S \in {T \in DOMAIN subset_map :
                                               T \cap original.final # {}}}
  BY <1>1, <1>3 DEF MacroFinal
<1>16. QED
  BY <1>11, <1>12, <1>13, <1>14, <1>15, Zenon DEF SubsetConstruction

LEMMA DetHoldsResult ==
  ASSUME DetHolds, det_at = "done"
  PROVE  DetResult(original, Determinized, subset_map)
<1>1. DetState(original, subset_map, macro_worklist, macro_delta, macro_final, expanding,
               symbols_left, "done")
  BY DEF DetHolds
<1>2. Determinized = [states |-> 0 .. Cardinality(DOMAIN subset_map) - 1, initial |-> {0},
                      final |-> macro_final, delta |-> macro_delta]
  BY DEF Determinized, num_of_macrostates
<1>3. QED
  BY <1>1, <1>2, DetStateResult

(* Every macrostate of the result is where some word leads to.              *)
LEMMA MacrostateIsRead ==
  ASSUME NEW A, IsNfa(A), NEW D, IsLeastClosed(D, {A.initial}, MacroGraph(A).delta),
         NEW S \in D
  PROVE  \E w \in Seq(Nat) : S = Read(A, w)
<1>1. IsInput(A) /\ A.initial \in SUBSET A.states
  BY NfaIs
<1>2. PICK K : K = {Read(A, w) : w \in Seq(Nat)}
  OBVIOUS
<1>3. A.initial \in K
  <2>1. << >> \in Seq(Nat)
    OBVIOUS
  <2>2. Read(A, << >>) = A.initial
    BY <1>1, ReadEmpty
  <2>3. QED
    BY <1>2, <2>1, <2>2
<1>4. ASSUME NEW m \in MacroGraph(A).delta, m[1] \in K PROVE m[3] \in K
  <2>1. PICK w \in Seq(Nat) : m[1] = Read(A, w)
    BY <1>2, <1>4
  <2>2. m[2] \in Nat /\ m[3] = Post(A, m[1], m[2])
    BY <1>1, GraphMoves
  <2>6. Read(A, Append(w, m[2])) = Post(A, Read(A, w), m[2])
    <3>1. PICK a : a = m[2]
      OBVIOUS
    <3>2. a \in Nat
      BY <2>2, <3>1
    <3>3. A.initial \in SUBSET A.states
      BY <1>1
    <3>4. Read(A, Append(w, a)) = Post(A, Read(A, w), a)
      BY <3>2, <3>3, ReadAppend
    <3>5. QED
      BY <3>1, <3>4
  <2>3. Read(A, Append(w, m[2])) = m[3]
    BY <2>1, <2>2, <2>6
  <2>4. Append(w, m[2]) \in Seq(Nat)
    BY <2>2
  <2>5. QED
    BY <1>2, <2>3, <2>4
<1>5. D \subseteq K
  BY <1>3, <1>4 DEF IsLeastClosed, ClosedBy
<1>6. QED
  BY <1>2, <1>5

(* Nothing can be read from no state.                                       *)
LEMMA NothingIsMadeOfNothing ==
  ASSUME NEW A, NEW B, NEW g, IsNfa(A), DetResult(A, B, g), A.initial = {}
  PROVE  B.delta = {} /\ B.final = {} /\ B.initial = {0} /\ B.states = {0}
<1>1. PICK D : D = DOMAIN g
  OBVIOUS
<1>2. IsInput(A)
  BY NfaIs
<1>3. D = {{}}
  <2>1. {} \in D
    BY <1>1 DEF DetResult, IsDeterminized
  <2>2. ClosedBy({{}}, MacroGraph(A).delta)
    <3>1. ASSUME NEW m \in MacroGraph(A).delta, m[1] = {} PROVE FALSE
      <4>1. m[2] \in SymbolsOut(A, {})
        BY <1>2, <3>1, GraphMoves
      <4>2. QED
        BY <4>1 DEF SymbolsOut
    <3>2. QED
      BY <3>1 DEF ClosedBy
  <2>3. D \subseteq {{}}
    BY <1>1, <2>2 DEF DetResult, IsLeastClosed
  <2>4. QED
    BY <2>1, <2>3
<1>4. /\ B.states = {g[S] : S \in D} /\ B.initial = {g[A.initial]}
      /\ B.final = {g[S] : S \in {T \in D : T \cap A.final # {}}}
      /\ B.delta \subseteq B.states \X Nat \X B.states
      /\ \A S, T \in D : \A a : <<g[S], a, g[T]>> \in B.delta <=> T # {} /\ T = Post(A, S, a)
  BY <1>1 DEF DetResult, IsDeterminized
<1>5. B.states = {g[{}]} /\ B.initial = {g[{}]} /\ B.final = {}
  BY <1>3, <1>4
<1>6. B.delta = {}
  <2>1. ASSUME NEW m \in B.delta PROVE FALSE
    <3>1. m = <<g[{}], m[2], g[{}]>>
      BY <1>4, <1>5
    <3>2. QED
      BY <1>3, <1>4, <3>1
  <2>2. QED
    BY <2>1
<1>7. g[{}] = 0
  <2>1. Cardinality(DOMAIN g) = 1
    BY <1>1, <1>3, FS_Singleton
  <2>2. B.states = 0 .. 0
    BY <2>1 DEF DetResult
  <2>3. QED
    BY <1>5, <2>2
<1>8. QED
  BY <1>5, <1>6, <1>7

(***************************************************************************)
(* The product.  ProductBase and ProductPlace state what holds of its      *)
(* variables, in order: the arguments, the map of pairs and its inverse,   *)
(* the worklist, the initial and final states, the transitions, the state  *)
(* in hand with the pairs left for it and the pass.                        *)
(***************************************************************************)
PairMovesOf(A, B, p) ==
  {m \in Letters \X A.states \X B.states :
     IF m[1] < first_epsilon
       THEN <<p[1], m[1], m[2]>> \in A.delta /\ <<p[2], m[1], m[3]>> \in B.delta
       ELSE \/ <<p[1], m[1], m[2]>> \in A.delta /\ m[3] = p[2]
            \/ <<p[2], m[1], m[3]>> \in B.delta /\ m[2] = p[1]}

OfSymbols(A, B, p) == {v \in PairMovesOf(A, B, p) : v[1] < first_epsilon}
OfLhs(A, B, p) ==
  {v \in PairMovesOf(A, B, p) :
     v[1] >= first_epsilon /\ <<p[1], v[1], v[2]>> \in A.delta /\ v[3] = p[2]}
OfRhs(A, B, p) ==
  {v \in PairMovesOf(A, B, p) :
     v[1] >= first_epsilon /\ <<p[2], v[1], v[3]>> \in B.delta /\ v[2] = p[1]}

(* The passes that follow.                                                  *)
Later(A, B, p, ps) ==
  IF ps = "symbols" THEN OfLhs(A, B, p) \cup OfRhs(A, B, p)
  ELSE IF ps = "lhs epsilons" THEN OfRhs(A, B, p) ELSE {}

Remaining(A, B, inv, src, left, ps) ==
  IF ps = "idle" THEN {} ELSE left \cup Later(A, B, inv[src + 1], ps)

IsFinalPair(A, B, c, p) ==
  IF c = "Or" THEN p[1] \in A.final \/ p[2] \in B.final
              ELSE p[1] \in A.final /\ p[2] \in B.final
FinalPairs(A, B, c, inv) == {q \in 0 .. Len(inv) - 1 : IsFinalPair(A, B, c, inv[q + 1])}

StoredRight(A, B, st, inv) ==
  /\ inv \in Seq(A.states \X B.states)
  /\ \A n \in 1 .. Len(inv) : inv[n] \in DOMAIN st /\ st[inv[n]] = n - 1
  /\ \A p \in DOMAIN st : st[p] \in Nat /\ st[p] < Len(inv) /\ inv[st[p] + 1] = p

ListRight(inv, L) ==
  /\ L \in Seq(Nat)
  /\ \A k \in 1 .. Len(L) : L[k] < Len(inv)
  /\ \A k, l \in 1 .. Len(L) : k < l => L[k] < L[l]

IsMoveOfPairs(A, B, inv, m) ==
  /\ m = <<m[1], m[2], m[3]>> /\ m[2] \in Letters
  /\ m[1] \in Nat /\ m[1] < Len(inv) /\ m[3] \in Nat /\ m[3] < Len(inv)
  /\ <<m[2], inv[m[3] + 1][1], inv[m[3] + 1][2]>> \in PairMovesOf(A, B, inv[m[1] + 1])

IsConnected(st, d, q, v) ==
  <<v[2], v[3]>> \in DOMAIN st /\ <<q, v[1], st[<<v[2], v[3]>>]>> \in d

IsExpanded(A, B, st, inv, L, d, src, rest, q) ==
  \A v \in PairMovesOf(A, B, inv[q + 1]) :
    q \in ToSet(L) \/ (q = src /\ v \in rest) \/ IsConnected(st, d, q, v)

SourceRight(A, B, inv, L, src, left, ps) ==
  ps # "idle" => /\ src \in Nat /\ src < Len(inv) /\ src \notin ToSet(L)
                 /\ left \subseteq PairMovesOf(A, B, inv[src + 1])

ProductBase(A, B, c, st, inv, L, fin, d, src, left, ps) ==
  /\ IsNfa(A) /\ IsNfa(B)
  /\ StoredRight(A, B, st, inv)
  /\ ListRight(inv, L)
  /\ fin = FinalPairs(A, B, c, inv)
  /\ \A m \in d : IsMoveOfPairs(A, B, inv, m)
  /\ \A m \in d : m[1] \notin ToSet(L)
  /\ \A q \in Nat : q < Len(inv) =>
       IsExpanded(A, B, st, inv, L, d, src, Remaining(A, B, inv, src, left, ps), q)
  /\ SourceRight(A, B, inv, L, src, left, ps)

LEMMA PassesAreAll ==
  ASSUME NEW A, NEW B, NEW p
  PROVE  PairMovesOf(A, B, p) = OfSymbols(A, B, p) \cup OfLhs(A, B, p) \cup OfRhs(A, B, p)
<1> SUFFICES ASSUME NEW v \in PairMovesOf(A, B, p)
             PROVE  v \in OfSymbols(A, B, p) \/ v \in OfLhs(A, B, p) \/ v \in OfRhs(A, B, p)
  BY DEF OfSymbols, OfLhs, OfRhs
<1>1. v[1] \in Nat /\ first_epsilon \in Nat
  <2>1. v[1] \in Letters
    BY DEF PairMovesOf
  <2>2. QED
    BY <2>1, JobsAssumption
<1>2. CASE v[1] < first_epsilon
  BY <1>2 DEF OfSymbols
<1>3. CASE ~(v[1] < first_epsilon)
  <2>1. v[1] >= first_epsilon
    BY <1>1, <1>3
  <2>2. \/ <<p[1], v[1], v[2]>> \in A.delta /\ v[3] = p[2]
        \/ <<p[2], v[1], v[3]>> \in B.delta /\ v[2] = p[1]
    BY <1>3 DEF PairMovesOf
  <2>3. QED
    BY <2>1, <2>2 DEF OfLhs, OfRhs
<1>4. QED
  BY <1>2, <1>3

(* The worklist.                                                            *)
LEMMA ListCounts ==
  ASSUME NEW inv, NEW L, ListRight(inv, L)
  PROVE  Cardinality(ToSet(L)) = Len(L)
<1>1. PICK N \in Nat : N = Len(L)
  BY DEF ListRight
<1>2. L \in [1 .. N -> ToSet(L)] /\ \A t \in ToSet(L) : \E k \in 1 .. N : L[k] = t
  BY <1>1 DEF ListRight, ToSet
<1>3. ASSUME NEW k \in 1 .. N, NEW l \in 1 .. N, L[k] = L[l] PROVE k = l
  <2>1. L[k] \in Nat /\ L[l] \in Nat
    BY <1>1 DEF ListRight
  <2>2. k < l => L[k] < L[l]
    BY <1>1 DEF ListRight
  <2>3. l < k => L[l] < L[k]
    BY <1>1 DEF ListRight
  <2>4. QED
    BY <1>3, <2>1, <2>2, <2>3
<1>4. ExistsBijection(1 .. N, ToSet(L))
  BY <1>2, <1>3 DEF ExistsBijection, Bijection, Injection, Surjection, IsInjective
<1>5. IsFiniteSet(1 .. N) /\ Cardinality(1 .. N) = N
  BY FS_Interval
<1>6. QED
  BY <1>1, <1>4, <1>5, FS_Bijection

LEMMA StorageCounts ==
  ASSUME NEW A, NEW B, NEW st, NEW inv, StoredRight(A, B, st, inv)
  PROVE  Cardinality(DOMAIN st) = Len(inv)
<1>1. PICK N \in Nat : N = Len(inv)
  BY DEF StoredRight
<1>2. \A n \in 1 .. N : inv[n] \in DOMAIN st /\ st[inv[n]] = n - 1
  BY <1>1 DEF StoredRight
<1>3. ASSUME NEW p \in DOMAIN st PROVE \E n \in 1 .. N : inv[n] = p
  <2>1. st[p] \in Nat /\ st[p] < N /\ inv[st[p] + 1] = p
    BY <1>1 DEF StoredRight
  <2>2. st[p] + 1 \in 1 .. N
    BY <2>1
  <2>3. QED
    BY <2>1, <2>2
<1>4. \A n, k \in 1 .. N : inv[n] = inv[k] => n = k
  BY <1>2
<1>5. inv \in [1 .. N -> DOMAIN st]
  BY <1>1, <1>2 DEF StoredRight
<1>6. ExistsBijection(1 .. N, DOMAIN st)
  BY <1>3, <1>4, <1>5 DEF ExistsBijection, Bijection, Injection, Surjection, IsInjective
<1>7. IsFiniteSet(1 .. N) /\ Cardinality(1 .. N) = N
  BY FS_Interval
<1>8. QED
  BY <1>1, <1>6, <1>7, FS_Bijection

IsListPopped(inv, L, R, q) ==
  /\ ListRight(inv, R) /\ q \in Nat /\ q < Len(inv) /\ q \notin ToSet(R)
  /\ ToSet(L) = ToSet(R) \cup {q}

LEMMA ListPop ==
  ASSUME NEW inv, NEW L, ListRight(inv, L), L # << >>
  PROVE  IsListPopped(inv, L, Front(L), Last(L))
<1>1. PICK N \in Nat : N = Len(L)
  BY DEF ListRight
<1>2. PICK R : R = Front(L)
  OBVIOUS
<1>3. N >= 1
  BY <1>1, EmptySeq DEF ListRight
<1>4. PICK q : q = L[N]
  OBVIOUS
<1>5. R = SubSeq(L, 1, N - 1) /\ Last(L) = q
  BY <1>1, <1>2, <1>4 DEF Front, Last
<1>6. /\ R \in Seq(Nat) /\ Len(R) = N - 1
      /\ \A k \in 1 .. N - 1 : R[k] = L[k]
  BY <1>1, <1>3, <1>5 DEF ListRight
<1>7. N \in 1 .. N /\ \A k \in 1 .. N - 1 : k \in 1 .. N /\ k < N
  BY <1>3
<1>8. \A k \in 1 .. N : L[k] \in Nat /\ L[k] < Len(inv)
  BY <1>1 DEF ListRight
<1>9. \A k, l \in 1 .. N : k < l => L[k] < L[l]
  BY <1>1 DEF ListRight
<1>10. ListRight(inv, R)
  <2>1. \A k \in 1 .. Len(R) : R[k] < Len(inv)
    BY <1>6, <1>7, <1>8
  <2>2. ASSUME NEW k \in 1 .. N - 1, NEW l \in 1 .. N - 1, k < l PROVE R[k] < R[l]
    <3>1. L[k] < L[l]
      BY <1>7, <1>9, <2>2
    <3>2. QED
      BY <1>6, <3>1
  <2>3. QED
    BY <1>6, <2>1, <2>2 DEF ListRight
<1>11. ToSet(R) = {L[k] : k \in 1 .. N - 1} /\ ToSet(L) = {L[k] : k \in 1 .. N}
  <2>1. DOMAIN R = 1 .. N - 1 /\ DOMAIN L = 1 .. N
    BY <1>1, <1>6 DEF ListRight
  <2>2. QED
    BY <1>6, <2>1 DEF ToSet
<1>12. q \notin ToSet(R)
  <2>1. \A k \in 1 .. N - 1 : L[k] < q /\ L[k] \in Nat /\ q \in Nat
    BY <1>4, <1>7, <1>8, <1>9
  <2>2. QED
    BY <1>11, <2>1
<1>13. ToSet(L) = ToSet(R) \cup {q}
  <2>1. \A k \in 1 .. N : k \in 1 .. N - 1 \/ k = N
    OBVIOUS
  <2>2. QED
    BY <1>4, <1>7, <1>11, <2>1
<1>14. q \in Nat /\ q < Len(inv)
  BY <1>4, <1>7, <1>8
<1>15. IsListPopped(inv, L, R, q)
  BY <1>10, <1>12, <1>13, <1>14 DEF IsListPopped
<1>16. QED
  BY <1>2, <1>5, <1>15

LEMMA ListPush ==
  ASSUME NEW inv, NEW L, ListRight(inv, L), NEW n, n = Len(inv), n \in Nat,
         NEW longer, Len(longer) = n + 1
  PROVE  ListRight(longer, Append(L, n)) /\ ToSet(Append(L, n)) = ToSet(L) \cup {n}
<1>1. PICK N \in Nat : N = Len(L)
  BY DEF ListRight
<1>2. PICK R : R = Append(L, n)
  OBVIOUS
<1>3. /\ R \in Seq(Nat) /\ Len(R) = N + 1 /\ R[N + 1] = n
      /\ \A k \in 1 .. N : R[k] = L[k]
  BY <1>1, <1>2 DEF ListRight
<1>4. \A k \in 1 .. N + 1 : k \in 1 .. N \/ k = N + 1
  OBVIOUS
<1>5. \A k \in 1 .. N : L[k] \in Nat /\ L[k] < n
  BY <1>1 DEF ListRight
<1>6. \A k \in 1 .. N + 1 : R[k] < n + 1
  BY <1>3, <1>4, <1>5
<1>7. ASSUME NEW k \in 1 .. N + 1, NEW l \in 1 .. N + 1, k < l PROVE R[k] < R[l]
  <2>1. k \in 1 .. N
    BY <1>7
  <2>2. CASE l = N + 1
    BY <1>3, <1>5, <2>1, <2>2
  <2>3. CASE l \in 1 .. N
    BY <1>1, <1>3, <1>7, <2>1, <2>3 DEF ListRight
  <2>4. QED
    BY <1>4, <2>2, <2>3
<1>8. ListRight(longer, R)
  BY <1>3, <1>6, <1>7 DEF ListRight
<1>9. ToSet(R) = ToSet(L) \cup {n}
  <2>1. DOMAIN L = 1 .. N /\ DOMAIN R = 1 .. N + 1
    BY <1>1, <1>3 DEF ListRight
  <2>2. N + 1 \in 1 .. N + 1 /\ \A k \in 1 .. N : k \in 1 .. N + 1
    OBVIOUS
  <2>3. ASSUME NEW x \in ToSet(R) PROVE x \in ToSet(L) \cup {n}
    BY <1>3, <1>4, <2>1 DEF ToSet
  <2>4. ASSUME NEW x \in ToSet(L) \cup {n} PROVE x \in ToSet(R)
    BY <1>3, <2>1, <2>2 DEF ToSet
  <2>5. QED
    BY <2>3, <2>4
<1>10. QED
  BY <1>2, <1>8, <1>9

(* A new pair is stored.                                                    *)
StoredAt(st, p, n) == [x \in DOMAIN st \cup {p} |-> IF x = p THEN n ELSE st[x]]
FinalWith(A, B, c, fin, p, n) == IF IsFinalPair(A, B, c, p) THEN fin \cup {n} ELSE fin

IsStoring(st, inv, p, n, sn, longer) ==
  /\ n \in Nat /\ Len(inv) = n /\ Len(longer) = n + 1 /\ longer[n + 1] = p
  /\ \A k \in 1 .. n : longer[k] = inv[k]
  /\ DOMAIN sn = DOMAIN st \cup {p} /\ sn[p] = n
  /\ \A x \in DOMAIN st : sn[x] = st[x]

LEMMA StoreKeeps ==
  ASSUME NEW A, NEW B, NEW st, NEW inv, StoredRight(A, B, st, inv),
         NEW p \in A.states \X B.states, p \notin DOMAIN st, NEW n, n = Len(inv)
  PROVE  /\ StoredRight(A, B, StoredAt(st, p, n), Append(inv, p))
         /\ IsStoring(st, inv, p, n, StoredAt(st, p, n), Append(inv, p))
<1>1. PICK sn : sn = StoredAt(st, p, n)
  OBVIOUS
<1>2. PICK longer : longer = Append(inv, p)
  OBVIOUS
<1>3. n \in Nat /\ inv \in Seq(A.states \X B.states)
  BY DEF StoredRight
<1>4. DOMAIN sn = DOMAIN st \cup {p} /\ sn[p] = n /\ \A x \in DOMAIN st : sn[x] = st[x]
  BY <1>1 DEF StoredAt
<1>5. /\ longer \in Seq(A.states \X B.states) /\ Len(longer) = n + 1 /\ longer[n + 1] = p
      /\ \A k \in 1 .. n : longer[k] = inv[k]
  BY <1>2, <1>3
<1>6. \A k \in 1 .. n + 1 : k \in 1 .. n \/ k = n + 1
  BY <1>3
<1>7. \A k \in 1 .. n : inv[k] \in DOMAIN st /\ st[inv[k]] = k - 1
  BY DEF StoredRight
<1>8. (n + 1) - 1 = n
  BY <1>3
<1>9. \A k \in 1 .. n + 1 : longer[k] \in DOMAIN sn /\ sn[longer[k]] = k - 1
  BY <1>4, <1>5, <1>6, <1>7, <1>8
<1>10. ASSUME NEW x \in DOMAIN sn
       PROVE  sn[x] \in Nat /\ sn[x] < n + 1 /\ longer[sn[x] + 1] = x
  <2>1. CASE x = p
    BY <1>3, <1>4, <1>5, <2>1
  <2>2. CASE x \in DOMAIN st
    <3>1. st[x] \in Nat /\ st[x] < n /\ inv[st[x] + 1] = x
      BY <2>2 DEF StoredRight
    <3>2. st[x] + 1 \in 1 .. n
      BY <1>3, <3>1
    <3>3. sn[x] = st[x] /\ longer[st[x] + 1] = x
      BY <1>4, <1>5, <2>2, <3>1, <3>2
    <3>4. QED
      BY <1>3, <3>1, <3>3
  <2>3. QED
    BY <1>4, <2>1, <2>2
<1>11. StoredRight(A, B, sn, longer)
  BY <1>5, <1>9, <1>10 DEF StoredRight
<1>12. IsStoring(st, inv, p, n, sn, longer)
  BY <1>3, <1>4, <1>5 DEF IsStoring
<1>13. QED
  BY <1>1, <1>2, <1>11, <1>12

LEMMA BaseStored ==
  ASSUME NEW A, NEW B, NEW c, NEW st, NEW inv, NEW L, NEW fin, NEW d, NEW src, NEW left, NEW ps,
         ProductBase(A, B, c, st, inv, L, fin, d, src, left, ps),
         NEW p \in A.states \X B.states, p \notin DOMAIN st, NEW n, n = Len(inv)
  PROVE  ProductBase(A, B, c, StoredAt(st, p, n), Append(inv, p), Append(L, n),
                     FinalWith(A, B, c, fin, p, n), d, src, left, ps)
<1>1. /\ IsNfa(A) /\ IsNfa(B) /\ StoredRight(A, B, st, inv) /\ ListRight(inv, L)
      /\ fin = FinalPairs(A, B, c, inv)
      /\ \A m \in d : IsMoveOfPairs(A, B, inv, m)
      /\ \A m \in d : m[1] \notin ToSet(L)
      /\ \A q \in Nat : q < Len(inv) =>
           IsExpanded(A, B, st, inv, L, d, src, Remaining(A, B, inv, src, left, ps), q)
      /\ SourceRight(A, B, inv, L, src, left, ps)
  BY DEF ProductBase
<1>2. PICK sn : sn = StoredAt(st, p, n)
  OBVIOUS
<1>3. PICK longer : longer = Append(inv, p)
  OBVIOUS
<1>4. PICK R : R = Append(L, n)
  OBVIOUS
<1>5. StoredRight(A, B, sn, longer) /\ IsStoring(st, inv, p, n, sn, longer)
  BY <1>1, <1>2, <1>3, StoreKeeps
<1>6. /\ n \in Nat /\ Len(inv) = n /\ Len(longer) = n + 1 /\ longer[n + 1] = p
      /\ \A k \in 1 .. n : longer[k] = inv[k]
      /\ DOMAIN sn = DOMAIN st \cup {p} /\ sn[p] = n
      /\ \A x \in DOMAIN st : sn[x] = st[x]
  BY <1>5 DEF IsStoring
<1>7. ListRight(longer, R) /\ ToSet(R) = ToSet(L) \cup {n}
  <2>1. n \in Nat
    BY <1>6
  <2>2. Len(longer) = n + 1
    BY <1>6
  <2>3. ListRight(inv, L)
    BY <1>1
  <2>4. ListRight(longer, Append(L, n)) /\ ToSet(Append(L, n)) = ToSet(L) \cup {n}
    BY <2>1, <2>2, <2>3, ListPush
  <2>5. QED
    BY <1>4, <2>4
<1>8. \A q \in Nat : q < n => q + 1 \in 1 .. n /\ longer[q + 1] = inv[q + 1]
  BY <1>6
<1>9. \A q \in Nat : q < n + 1 => q < n \/ q = n
  BY <1>6
<1>10. FinalPairs(A, B, c, longer) = FinalWith(A, B, c, fin, p, n)
  <2>1. \A q : q \in FinalPairs(A, B, c, longer) <=>
                 q \in Nat /\ q < n + 1 /\ IsFinalPair(A, B, c, longer[q + 1])
    BY <1>6 DEF FinalPairs
  <2>2. \A q : q \in fin <=> q \in Nat /\ q < n /\ IsFinalPair(A, B, c, inv[q + 1])
    BY <1>1, <1>6 DEF FinalPairs
  <2>3. \A q \in Nat : q < n => q < n + 1
    BY <1>6
  <2>4. n < n + 1
    BY <1>6
  <2>5. CASE IsFinalPair(A, B, c, p)
    <3>1. \A q : q \in FinalPairs(A, B, c, longer) <=> q \in fin \cup {n}
      BY <1>6, <1>8, <1>9, <2>1, <2>2, <2>3, <2>4, <2>5
    <3>2. QED
      BY <2>5, <3>1 DEF FinalWith
  <2>6. CASE ~IsFinalPair(A, B, c, p)
    <3>1. \A q : q \in FinalPairs(A, B, c, longer) <=> q \in fin
      BY <1>6, <1>8, <1>9, <2>1, <2>2, <2>3, <2>4, <2>6
    <3>2. QED
      BY <2>6, <3>1 DEF FinalWith
  <2>7. QED
    BY <2>5, <2>6
<1>11. ASSUME NEW m \in d PROVE IsMoveOfPairs(A, B, longer, m) /\ m[1] \notin ToSet(R)
  <2>1. IsMoveOfPairs(A, B, inv, m) /\ m[1] \notin ToSet(L)
    BY <1>1
  <2>2. m[1] \in Nat /\ m[1] < n /\ m[3] \in Nat /\ m[3] < n
    BY <1>6, <2>1 DEF IsMoveOfPairs
  <2>3. longer[m[1] + 1] = inv[m[1] + 1] /\ longer[m[3] + 1] = inv[m[3] + 1]
    BY <1>8, <2>2
  <2>4. m[1] < n + 1 /\ m[3] < n + 1 /\ m[1] # n
    BY <1>6, <2>2
  <2>5. IsMoveOfPairs(A, B, longer, m)
    BY <1>6, <2>1, <2>2, <2>3, <2>4 DEF IsMoveOfPairs
  <2>6. QED
    BY <1>7, <2>1, <2>4, <2>5
<1>12. SourceRight(A, B, longer, R, src, left, ps)
       /\ Remaining(A, B, longer, src, left, ps) = Remaining(A, B, inv, src, left, ps)
  <2>1. CASE ps = "idle"
    BY <2>1 DEF SourceRight, Remaining
  <2>2. CASE ps # "idle"
    <3>1. /\ src \in Nat /\ src < n /\ src \notin ToSet(L)
          /\ left \subseteq PairMovesOf(A, B, inv[src + 1])
      BY <1>1, <1>6, <2>2 DEF SourceRight
    <3>2. longer[src + 1] = inv[src + 1] /\ src < n + 1 /\ src # n
      BY <1>6, <1>8, <3>1
    <3>3. QED
      BY <1>6, <1>7, <2>2, <3>1, <3>2 DEF SourceRight, Remaining
  <2>3. QED
    BY <2>1, <2>2
<1>13. PICK rest : rest = Remaining(A, B, inv, src, left, ps)
  OBVIOUS
<1>14. ASSUME NEW q \in Nat, q < n + 1 PROVE IsExpanded(A, B, sn, longer, R, d, src, rest, q)
  <2>1. CASE q = n
    BY <1>7, <2>1 DEF IsExpanded
  <2>2. CASE q < n
    <3>1. IsExpanded(A, B, st, inv, L, d, src, rest, q) /\ longer[q + 1] = inv[q + 1]
      BY <1>1, <1>6, <1>8, <1>13, <2>2
    <3>2. ASSUME NEW v, IsConnected(st, d, q, v) PROVE IsConnected(sn, d, q, v)
      <4>1. <<v[2], v[3]>> \in DOMAIN st /\ <<q, v[1], st[<<v[2], v[3]>>]>> \in d
        BY <3>2 DEF IsConnected
      <4>2. PICK x : x = <<v[2], v[3]>>
        OBVIOUS
      <4>3. x \in DOMAIN st /\ <<q, v[1], st[x]>> \in d
        BY <4>1, <4>2
      <4>4. x \in DOMAIN sn /\ <<q, v[1], sn[x]>> \in d
        BY <1>6, <4>3
      <4>5. QED
        BY <4>2, <4>4 DEF IsConnected
    <3>3. QED
      BY <1>7, <3>1, <3>2 DEF IsExpanded
  <2>3. QED
    BY <1>9, <1>14, <2>1, <2>2
<1>15. ProductBase(A, B, c, sn, longer, R, FinalWith(A, B, c, fin, p, n), d, src, left, ps)
  BY <1>1, <1>5, <1>6, <1>7, <1>10, <1>11, <1>12, <1>13, <1>14 DEF ProductBase
<1>16. QED
  BY <1>2, <1>3, <1>4, <1>15

(* A pair of targets that is stored is connected.                           *)
LEMMA BaseConnected ==
  ASSUME NEW A, NEW B, NEW c, NEW st, NEW inv, NEW L, NEW fin, NEW d, NEW src, NEW left, NEW ps,
         ProductBase(A, B, c, st, inv, L, fin, d, src, left, ps), ps # "idle",
         NEW v \in left, <<v[2], v[3]>> \in DOMAIN st
  PROVE  ProductBase(A, B, c, st, inv, L, fin, d \cup {<<src, v[1], st[<<v[2], v[3]>>]>>},
                     src, left \ {v}, ps)
<1>1. /\ IsNfa(A) /\ IsNfa(B) /\ StoredRight(A, B, st, inv) /\ ListRight(inv, L)
      /\ fin = FinalPairs(A, B, c, inv)
      /\ \A m \in d : IsMoveOfPairs(A, B, inv, m)
      /\ \A m \in d : m[1] \notin ToSet(L)
      /\ \A q \in Nat : q < Len(inv) =>
           IsExpanded(A, B, st, inv, L, d, src, Remaining(A, B, inv, src, left, ps), q)
      /\ SourceRight(A, B, inv, L, src, left, ps)
  BY DEF ProductBase
<1>2. PICK x : x = <<v[2], v[3]>>
  OBVIOUS
<1>3. PICK k : k = st[x]
  OBVIOUS
<1>4. PICK dd : dd = d \cup {<<src, v[1], k>>}
  OBVIOUS
<1>5. /\ src \in Nat /\ src < Len(inv) /\ src \notin ToSet(L)
      /\ left \subseteq PairMovesOf(A, B, inv[src + 1])
  BY <1>1 DEF SourceRight
<1>6. k \in Nat /\ k < Len(inv) /\ inv[k + 1] = x /\ x \in DOMAIN st
  BY <1>1, <1>2, <1>3 DEF StoredRight
<1>7. v \in PairMovesOf(A, B, inv[src + 1])
  BY <1>5
<1>8. v \in Letters \X A.states \X B.states /\ v = <<v[1], v[2], v[3]>> /\ v[1] \in Letters
  BY <1>7 DEF PairMovesOf
<1>9. ASSUME NEW m \in dd PROVE IsMoveOfPairs(A, B, inv, m) /\ m[1] \notin ToSet(L)
  <2>1. CASE m \in d
    BY <1>1, <2>1
  <2>2. CASE m = <<src, v[1], k>>
    <3>1. m[1] = src /\ m[2] = v[1] /\ m[3] = k
      BY <2>2
    <3>2. inv[k + 1][1] = v[2] /\ inv[k + 1][2] = v[3]
      BY <1>2, <1>6
    <3>3. <<m[2], inv[m[3] + 1][1], inv[m[3] + 1][2]>> = v
      BY <1>8, <3>1, <3>2
    <3>4. IsMoveOfPairs(A, B, inv, m)
      BY <1>5, <1>6, <1>7, <1>8, <2>2, <3>1, <3>3 DEF IsMoveOfPairs
    <3>5. QED
      BY <1>5, <3>1, <3>4
  <2>3. QED
    BY <1>4, <2>1, <2>2
<1>10. ASSUME NEW q \in Nat, q < Len(inv)
       PROVE  IsExpanded(A, B, st, inv, L, dd, src, Remaining(A, B, inv, src, left \ {v}, ps), q)
  <2>1. IsExpanded(A, B, st, inv, L, d, src, Remaining(A, B, inv, src, left, ps), q)
    BY <1>1, <1>10
  <2>2. ASSUME NEW u \in PairMovesOf(A, B, inv[q + 1])
        PROVE  q \in ToSet(L) \/ (q = src /\ u \in Remaining(A, B, inv, src, left \ {v}, ps))
               \/ IsConnected(st, dd, q, u)
    <3>1. CASE q \in ToSet(L)
      BY <3>1
    <3>2. CASE q = src /\ u \in Remaining(A, B, inv, src, left, ps)
      <4>1. CASE u = v
        <5>1. IsConnected(st, dd, q, u)
          BY <1>2, <1>3, <1>4, <1>6, <3>2, <4>1 DEF IsConnected
        <5>2. QED
          BY <5>1
      <4>2. CASE u # v
        BY <3>2, <4>2 DEF Remaining
      <4>3. QED
        BY <4>1, <4>2
    <3>3. CASE IsConnected(st, d, q, u)
      BY <1>4, <3>3 DEF IsConnected
    <3>4. QED
      BY <2>1, <2>2, <3>1, <3>2, <3>3 DEF IsExpanded
  <2>3. QED
    BY <2>2 DEF IsExpanded
<1>11. SourceRight(A, B, inv, L, src, left \ {v}, ps)
  BY <1>5 DEF SourceRight
<1>12. ProductBase(A, B, c, st, inv, L, fin, dd, src, left \ {v}, ps)
  BY <1>1, <1>9, <1>10, <1>11 DEF ProductBase
<1>13. QED
  BY <1>2, <1>3, <1>4, <1>12

(* A product state is taken off the worklist, and goes through the passes.  *)
LEMMA BaseTaken ==
  ASSUME NEW A, NEW B, NEW c, NEW st, NEW inv, NEW L, NEW fin, NEW d, NEW src, NEW left,
         ProductBase(A, B, c, st, inv, L, fin, d, src, left, "idle"), L # << >>,
         NEW q, q = Last(L)
  PROVE  ProductBase(A, B, c, st, inv, Front(L), fin, d, q, OfSymbols(A, B, inv[q + 1]),
                     "symbols")
<1>1. /\ IsNfa(A) /\ IsNfa(B) /\ StoredRight(A, B, st, inv) /\ ListRight(inv, L)
      /\ fin = FinalPairs(A, B, c, inv)
      /\ \A m \in d : IsMoveOfPairs(A, B, inv, m)
      /\ \A m \in d : m[1] \notin ToSet(L)
      /\ \A r \in Nat : r < Len(inv) => IsExpanded(A, B, st, inv, L, d, src, {}, r)
  BY DEF ProductBase, Remaining
<1>2. PICK R : R = Front(L)
  OBVIOUS
<1>3. /\ ListRight(inv, R) /\ q \in Nat /\ q < Len(inv) /\ q \notin ToSet(R)
      /\ ToSet(L) = ToSet(R) \cup {q}
  <2>1. IsListPopped(inv, L, R, q)
    BY <1>1, <1>2, ListPop
  <2>2. QED
    BY <2>1 DEF IsListPopped
<1>4. PICK p : p = inv[q + 1]
  OBVIOUS
<1>5. PICK rest : rest = Remaining(A, B, inv, q, OfSymbols(A, B, p), "symbols")
  OBVIOUS
<1>6. rest = PairMovesOf(A, B, p)
  BY <1>4, <1>5, PassesAreAll DEF Remaining, Later
<1>7. ASSUME NEW r \in Nat, r < Len(inv) PROVE IsExpanded(A, B, st, inv, R, d, q, rest, r)
  <2>1. IsExpanded(A, B, st, inv, L, d, src, {}, r)
    BY <1>1, <1>7
  <2>2. CASE r = q
    BY <1>4, <1>6, <2>2 DEF IsExpanded
  <2>3. CASE r # q
    BY <1>3, <2>1, <2>3 DEF IsExpanded
  <2>4. QED
    BY <2>2, <2>3
<1>8. SourceRight(A, B, inv, R, q, OfSymbols(A, B, p), "symbols")
  BY <1>3, <1>4 DEF SourceRight, OfSymbols
<1>9. \A m \in d : m[1] \notin ToSet(R)
  BY <1>1, <1>3
<1>10. ProductBase(A, B, c, st, inv, R, fin, d, q, OfSymbols(A, B, p), "symbols")
  BY <1>1, <1>3, <1>5, <1>7, <1>8, <1>9 DEF ProductBase
<1>11. QED
  BY <1>2, <1>4, <1>10

LEMMA BasePassed ==
  ASSUME NEW A, NEW B, NEW c, NEW st, NEW inv, NEW L, NEW fin, NEW d, NEW src, NEW left, NEW ps,
         ProductBase(A, B, c, st, inv, L, fin, d, src, left, ps), NEW more, NEW to,
         Remaining(A, B, inv, src, left, ps) = Remaining(A, B, inv, src, more, to),
         SourceRight(A, B, inv, L, src, more, to)
  PROVE  ProductBase(A, B, c, st, inv, L, fin, d, src, more, to)
<1>1. PICK rest : rest = Remaining(A, B, inv, src, left, ps)
  OBVIOUS
<1>2. \A q \in Nat : q < Len(inv) => IsExpanded(A, B, st, inv, L, d, src, rest, q)
  BY <1>1 DEF ProductBase
<1>3. rest = Remaining(A, B, inv, src, more, to)
  BY <1>1
<1>4. QED
  BY <1>2, <1>3 DEF ProductBase

InitialUnderWay(A, B, st, inv, init, left) ==
  /\ ~Trivial(A) /\ ~Trivial(B)
  /\ \A q : q \in init <=> q \in Nat /\ q < Len(inv)
  /\ \A v \in left : /\ v = <<0, v[2], v[3]>> /\ v[2] \in A.initial /\ v[3] \in B.initial
                     /\ <<v[2], v[3]>> \notin DOMAIN st
  /\ \A s \in A.initial : \A t \in B.initial : <<0, s, t>> \in left \/ <<s, t>> \in DOMAIN st
  /\ DOMAIN st \subseteq A.initial \X B.initial

InitialStored(A, B, inv, init) ==
  /\ \A q \in init : q \in Nat /\ q < Len(inv) /\ inv[q + 1] \in A.initial \X B.initial
  /\ \A p \in A.initial \X B.initial : \E q \in init : inv[q + 1] = p

ProductPlace(A, B, st, inv, L, init, left, ps, place) ==
  /\ ps \in {"symbols", "lhs epsilons", "rhs epsilons", "idle"}
  /\ place \in {"called", "initial", "loop", "done"}
  /\ place # "loop" => ps = "idle"
  /\ place = "loop" /\ ps = "idle" => left = {}
  /\ place = "called" => inv = << >> /\ L = << >> /\ init = {} /\ DOMAIN st = {}
  /\ place = "initial" => InitialUnderWay(A, B, st, inv, init, left)
  /\ place = "loop" => ~Trivial(A) /\ ~Trivial(B) /\ InitialStored(A, B, inv, init)
  /\ place = "done" =>
       /\ L = << >>
       /\ \/ ~Trivial(A) /\ ~Trivial(B) /\ InitialStored(A, B, inv, init)
          \/ (Trivial(A) \/ Trivial(B)) /\ inv = << >> /\ init = {}

LEMMA SymbolPairsAre ==
  ASSUME IsNfa(lhs), IsNfa(rhs), NEW p \in lhs.states \X rhs.states
  PROVE  SymbolPairs(p[1], p[2]) = OfSymbols(lhs, rhs, p)
<1>1. PICK A, B : A = lhs /\ B = rhs
  OBVIOUS
<1>2. A.delta \subseteq A.states \X Letters \X A.states
  <2>1. IsNfa(A)
    BY <1>1
  <2>2. QED
    BY <2>1, NfaIs
<1>3. B.delta \subseteq B.states \X Letters \X B.states
  <2>1. IsNfa(B)
    BY <1>1
  <2>2. QED
    BY <2>1, NfaIs
<1>4. PICK s, t : p = <<s, t>>
  OBVIOUS
<1>5. PICK X : X = SymbolPairs(s, t)
  OBVIOUS
<1>6. X = {<<mn[1][2], mn[1][3], mn[2][3]>> : mn \in
             {mn \in A.delta \X B.delta :
                /\ mn[1][1] = s /\ mn[2][1] = t
                /\ mn[1][2] = mn[2][2] /\ mn[1][2] < first_epsilon}}
  BY <1>1, <1>5 DEF SymbolPairs
<1>7. ASSUME NEW v \in X PROVE v \in OfSymbols(A, B, p)
  <2>1. PICK mn \in A.delta \X B.delta :
          /\ mn[1][1] = s /\ mn[2][1] = t /\ mn[1][2] = mn[2][2] /\ mn[1][2] < first_epsilon
          /\ v = <<mn[1][2], mn[1][3], mn[2][3]>>
    BY <1>6
  <2>2. PICK m \in A.delta, k \in B.delta : mn = <<m, k>>
    OBVIOUS
  <2>3. /\ m[1] = s /\ k[1] = t /\ m[2] = k[2] /\ m[2] < first_epsilon
        /\ v = <<m[2], m[3], k[3]>>
    BY <2>1, <2>2
  <2>4. /\ m = <<s, m[2], m[3]>> /\ k = <<t, m[2], k[3]>> /\ m[2] \in Letters
        /\ m[3] \in A.states /\ k[3] \in B.states
    BY <1>2, <1>3, <2>3
  <2>5. v[1] = m[2] /\ v[2] = m[3] /\ v[3] = k[3]
    BY <2>3
  <2>6. QED
    BY <1>4, <2>3, <2>4, <2>5 DEF OfSymbols, PairMovesOf
<1>8. ASSUME NEW v \in OfSymbols(A, B, p) PROVE v \in X
  <2>1. /\ v = <<v[1], v[2], v[3]>> /\ v[1] < first_epsilon
        /\ <<s, v[1], v[2]>> \in A.delta /\ <<t, v[1], v[3]>> \in B.delta
    BY <1>4 DEF OfSymbols, PairMovesOf
  <2>2. PICK mn : mn = <<<<s, v[1], v[2]>>, <<t, v[1], v[3]>>>>
    OBVIOUS
  <2>3. mn \in A.delta \X B.delta
    BY <2>1, <2>2
  <2>4. mn[1][1] = s /\ mn[2][1] = t /\ mn[1][2] = mn[2][2] /\ mn[1][2] < first_epsilon
    BY <2>1, <2>2
  <2>5. v = <<mn[1][2], mn[1][3], mn[2][3]>>
    BY <2>1, <2>2
  <2>6. QED
    BY <1>6, <2>3, <2>4, <2>5
<1>9. QED
  BY <1>1, <1>4, <1>5, <1>7, <1>8

LEMMA EpsilonPairsAre ==
  ASSUME IsNfa(lhs), IsNfa(rhs), NEW p \in lhs.states \X rhs.states
  PROVE  /\ LhsEpsilonPairs(p[1], p[2]) = OfLhs(lhs, rhs, p)
         /\ RhsEpsilonPairs(p[1], p[2]) = OfRhs(lhs, rhs, p)
<1>1. PICK A, B : A = lhs /\ B = rhs
  OBVIOUS
<1>2. \A m \in A.delta : /\ m = <<m[1], m[2], m[3]>> /\ m[1] \in A.states /\ m[2] \in Letters
                         /\ m[3] \in A.states
  <2>1. IsNfa(A)
    BY <1>1
  <2>2. A.delta \subseteq A.states \X Letters \X A.states
    BY <2>1, NfaIs
  <2>3. QED
    BY <2>2
<1>3. \A m \in B.delta : /\ m = <<m[1], m[2], m[3]>> /\ m[1] \in B.states /\ m[2] \in Letters
                         /\ m[3] \in B.states
  <2>1. IsNfa(B)
    BY <1>1
  <2>2. B.delta \subseteq B.states \X Letters \X B.states
    BY <2>1, NfaIs
  <2>3. QED
    BY <2>2
<1>4. PICK s \in A.states, t \in B.states : p = <<s, t>> /\ p[1] = s /\ p[2] = t
  BY <1>1
<1>11. first_epsilon \in Nat /\ \A a \in Letters : a \in Nat
  BY JobsAssumption
<1>5. PICK X : X = LhsEpsilonPairs(s, t)
  OBVIOUS
<1>6. X = {<<m[2], m[3], t>> : m \in {k \in A.delta : k[1] = s /\ k[2] >= first_epsilon}}
  BY <1>1, <1>5 DEF LhsEpsilonPairs
<1>7. X = OfLhs(A, B, p)
  <2>1. ASSUME NEW v \in X PROVE v \in OfLhs(A, B, p)
    <3>1. PICK m \in A.delta : m[1] = s /\ m[2] >= first_epsilon /\ v = <<m[2], m[3], t>>
      BY <1>6
    <3>2. /\ v[1] = m[2] /\ v[2] = m[3] /\ v[3] = t /\ <<s, v[1], v[2]>> \in A.delta
          /\ v \in Letters \X A.states \X B.states /\ v[1] >= first_epsilon
      BY <1>2, <3>1
    <3>3. ~(v[1] < first_epsilon)
      BY <1>2, <1>11, <3>1, <3>2
    <3>4. QED
      BY <1>4, <3>2, <3>3 DEF OfLhs, PairMovesOf
  <2>2. ASSUME NEW v \in OfLhs(A, B, p) PROVE v \in X
    <3>1. /\ v = <<v[1], v[2], v[3]>> /\ v[1] >= first_epsilon /\ <<s, v[1], v[2]>> \in A.delta
          /\ v[3] = t
      BY <1>4 DEF OfLhs, PairMovesOf
    <3>2. PICK m \in A.delta : m = <<s, v[1], v[2]>>
      BY <3>1
    <3>3. m[1] = s /\ m[2] >= first_epsilon /\ v = <<m[2], m[3], t>>
      BY <3>1, <3>2
    <3>4. QED
      BY <1>6, <3>3
  <2>3. QED
    BY <2>1, <2>2
<1>8. PICK Y : Y = RhsEpsilonPairs(s, t)
  OBVIOUS
<1>9. Y = {<<m[2], s, m[3]>> : m \in {k \in B.delta : k[1] = t /\ k[2] >= first_epsilon}}
  BY <1>1, <1>8 DEF RhsEpsilonPairs
<1>10. Y = OfRhs(A, B, p)
  <2>1. ASSUME NEW v \in Y PROVE v \in OfRhs(A, B, p)
    <3>1. PICK m \in B.delta : m[1] = t /\ m[2] >= first_epsilon /\ v = <<m[2], s, m[3]>>
      BY <1>9
    <3>2. /\ v[1] = m[2] /\ v[3] = m[3] /\ v[2] = s /\ <<t, v[1], v[3]>> \in B.delta
          /\ v \in Letters \X A.states \X B.states /\ v[1] >= first_epsilon
      BY <1>3, <3>1
    <3>3. ~(v[1] < first_epsilon)
      BY <1>3, <1>11, <3>1, <3>2
    <3>4. QED
      BY <1>4, <3>2, <3>3 DEF OfRhs, PairMovesOf
  <2>2. ASSUME NEW v \in OfRhs(A, B, p) PROVE v \in Y
    <3>1. /\ v = <<v[1], v[2], v[3]>> /\ v[1] >= first_epsilon /\ <<t, v[1], v[3]>> \in B.delta
          /\ v[2] = s
      BY <1>4 DEF OfRhs, PairMovesOf
    <3>2. PICK m \in B.delta : m = <<t, v[1], v[3]>>
      BY <3>1
    <3>3. m[1] = t /\ m[2] >= first_epsilon /\ v = <<m[2], s, m[3]>>
      BY <3>1, <3>2
    <3>4. QED
      BY <1>9, <3>3
  <2>3. QED
    BY <2>1, <2>2
<1>12. QED
  BY <1>1, <1>4, <1>5, <1>7, <1>8, <1>10

(* The pair that comes first.                                               *)
LEMMA FirstPair ==
  ASSUME pairs_left \subseteq Nat \X Nat \X Nat, pairs_left # {}
  PROVE  NextPair \in pairs_left
<1>1. PICK T : T = pairs_left
  OBVIOUS
<1>2. \A v \in T : v = <<v[1], v[2], v[3]>> /\ v[1] \in Nat /\ v[2] \in Nat /\ v[3] \in Nat
  BY <1>1
<1>3. PICK x : x \in {v[1] : v \in T} /\ \A a \in {v[1] : v \in T} : x <= a
  <2>1. {v[1] : v \in T} \in SUBSET Nat /\ {v[1] : v \in T} # {}
    BY <1>1, <1>2
  <2>2. QED
    BY <2>1, LeastElement
<1>4. PICK U : U = {v \in T : v[1] = x}
  OBVIOUS
<1>5. PICK y : y \in {v[2] : v \in U} /\ \A a \in {v[2] : v \in U} : y <= a
  <2>1. {v[2] : v \in U} \in SUBSET Nat /\ {v[2] : v \in U} # {}
    BY <1>2, <1>3, <1>4
  <2>2. QED
    BY <2>1, LeastElement
<1>6. PICK W : W = {v \in U : v[2] = y}
  OBVIOUS
<1>7. PICK z : z \in {v[3] : v \in W} /\ \A a \in {v[3] : v \in W} : z <= a
  <2>1. {v[3] : v \in W} \in SUBSET Nat /\ {v[3] : v \in W} # {}
    BY <1>2, <1>4, <1>5, <1>6
  <2>2. QED
    BY <2>1, LeastElement
<1>8. PICK p \in W : p[3] = z
  BY <1>7
<1>9. p \in T /\ p[1] = x /\ p[2] = y
  BY <1>4, <1>6, <1>8
<1>10. ASSUME NEW q \in T PROVE p = q \/ PairBefore(p, q)
  <2>1. x <= q[1] /\ x \in Nat /\ q[1] \in Nat
    BY <1>2, <1>3, <1>9
  <2>2. CASE q[1] # x
    BY <1>9, <2>1, <2>2 DEF PairBefore
  <2>3. CASE q[1] = x
    <3>1. q \in U
      BY <1>4, <2>3
    <3>2. y <= q[2] /\ y \in Nat /\ q[2] \in Nat
      BY <1>2, <1>5, <1>9, <3>1
    <3>3. CASE q[2] # y
      BY <1>9, <2>3, <3>2, <3>3 DEF PairBefore
    <3>4. CASE q[2] = y
      <4>1. z <= q[3] /\ z \in Nat /\ q[3] \in Nat
        BY <1>2, <1>6, <1>7, <1>8, <1>9, <3>1, <3>4
      <4>2. CASE q[3] # z
        BY <1>8, <1>9, <2>3, <3>4, <4>1, <4>2 DEF PairBefore
      <4>3. CASE q[3] = z
        BY <1>2, <1>8, <1>9, <2>3, <3>4, <4>3
      <4>4. QED
        BY <4>2, <4>3
    <3>5. QED
      BY <3>3, <3>4
  <2>4. QED
    BY <2>2, <2>3
<1>11. QED
  BY <1>1, <1>9, <1>10 DEF NextPair

(* Initial states stay what they are when a pair is stored.                 *)
LEMMA InitialKept ==
  ASSUME NEW A, NEW B, NEW inv, NEW init, InitialStored(A, B, inv, init), NEW S, inv \in Seq(S),
         NEW p
  PROVE  InitialStored(A, B, Append(inv, p), init)
<1>1. \A k \in 1 .. Len(inv) : Append(inv, p)[k] = inv[k]
  OBVIOUS
<1>2. Len(Append(inv, p)) = Len(inv) + 1 /\ Len(inv) \in Nat
  OBVIOUS
<1>3. \A q \in init : /\ q \in Nat /\ q < Len(inv) /\ Append(inv, p)[q + 1] = inv[q + 1]
  BY <1>1, <1>2 DEF InitialStored
<1>4. \A q \in init : q < Len(Append(inv, p))
  BY <1>2, <1>3
<1>5. QED
  BY <1>3, <1>4 DEF InitialStored

(* A pair of initial states is stored.                                      *)
LEMMA InitialGoesOn ==
  ASSUME NEW A, NEW B, NEW st, NEW inv, StoredRight(A, B, st, inv), NEW init, NEW left,
         InitialUnderWay(A, B, st, inv, init, left), NEW v \in left, NEW n, n = Len(inv),
         NEW p, p = <<v[2], v[3]>>
  PROVE  InitialUnderWay(A, B, StoredAt(st, p, n), Append(inv, p), init \cup {n}, left \ {v})
<1>1. inv \in Seq(A.states \X B.states)
  BY DEF StoredRight
<1>2. Len(inv) \in Nat /\ Len(Append(inv, p)) = Len(inv) + 1
  BY <1>1
<1>3. DOMAIN StoredAt(st, p, n) = DOMAIN st \cup {p}
  BY DEF StoredAt
<1>4. \A q : q \in init \cup {n} <=> q \in Nat /\ q < Len(Append(inv, p))
  BY <1>2 DEF InitialUnderWay
<1>5. v = <<0, v[2], v[3]>> /\ v[2] \in A.initial /\ v[3] \in B.initial
  BY DEF InitialUnderWay
<1>6. ASSUME NEW u \in left \ {v}
      PROVE  /\ u = <<0, u[2], u[3]>> /\ u[2] \in A.initial /\ u[3] \in B.initial
             /\ <<u[2], u[3]>> \notin DOMAIN st \cup {p}
  <2>1. /\ u = <<0, u[2], u[3]>> /\ u[2] \in A.initial /\ u[3] \in B.initial
        /\ <<u[2], u[3]>> \notin DOMAIN st
    BY DEF InitialUnderWay
  <2>2. u[2] # v[2] \/ u[3] # v[3]
    BY <1>5, <2>1
  <2>3. QED
    BY <2>1, <2>2
<1>7. ASSUME NEW s \in A.initial, NEW t \in B.initial
      PROVE  <<0, s, t>> \in left \ {v} \/ <<s, t>> \in DOMAIN st \cup {p}
  <2>1. <<0, s, t>> \in left \/ <<s, t>> \in DOMAIN st
    BY DEF InitialUnderWay
  <2>2. CASE v = <<0, s, t>>
    BY <2>2
  <2>3. CASE v # <<0, s, t>>
    BY <2>1, <2>3
  <2>4. QED
    BY <2>2, <2>3
<1>8. DOMAIN st \cup {p} \subseteq A.initial \X B.initial
  BY <1>5 DEF InitialUnderWay
<1>9. QED
  BY <1>3, <1>4, <1>6, <1>7, <1>8 DEF InitialUnderWay

LEMMA InitialIsOver ==
  ASSUME NEW A, NEW B, NEW st, NEW inv, StoredRight(A, B, st, inv), NEW init,
         InitialUnderWay(A, B, st, inv, init, {})
  PROVE  ~Trivial(A) /\ ~Trivial(B) /\ InitialStored(A, B, inv, init)
<1>1. inv \in Seq(A.states \X B.states)
  BY DEF StoredRight
<1>2. Len(inv) \in Nat
  BY <1>1
<1>3. DOMAIN st = A.initial \X B.initial
  <2>1. \A s \in A.initial : \A t \in B.initial : <<s, t>> \in DOMAIN st
    BY DEF InitialUnderWay
  <2>2. DOMAIN st \subseteq A.initial \X B.initial
    BY DEF InitialUnderWay
  <2>3. QED
    BY <2>1, <2>2
<1>4. ASSUME NEW q \in init
      PROVE  q \in Nat /\ q < Len(inv) /\ inv[q + 1] \in A.initial \X B.initial
  <2>1. q \in Nat /\ q < Len(inv)
    BY DEF InitialUnderWay
  <2>2. q + 1 \in 1 .. Len(inv)
    BY <1>2, <2>1
  <2>3. QED
    BY <1>3, <2>1, <2>2 DEF StoredRight
<1>5. ASSUME NEW p \in A.initial \X B.initial
      PROVE  \E q \in init : inv[q + 1] = p
  <2>1. st[p] \in Nat /\ st[p] < Len(inv) /\ inv[st[p] + 1] = p
    BY <1>3 DEF StoredRight
  <2>2. st[p] \in init
    BY <2>1 DEF InitialUnderWay
  <2>3. QED
    BY <2>1, <2>2
<1>6. ~Trivial(A) /\ ~Trivial(B)
  BY DEF InitialUnderWay
<1>7. InitialStored(A, B, inv, init)
  BY <1>4, <1>5 DEF InitialStored
<1>8. QED
  BY <1>6, <1>7

(* While no state is in hand, nothing depends on what was in hand.          *)
LEMMA BaseIdle ==
  ASSUME NEW A, NEW B, NEW c, NEW st, NEW inv, NEW L, NEW fin, NEW d, NEW src, NEW left,
         ProductBase(A, B, c, st, inv, L, fin, d, src, left, "idle"), NEW more
  PROVE  ProductBase(A, B, c, st, inv, L, fin, d, src, more, "idle")
<1>1. Remaining(A, B, inv, src, left, "idle") = Remaining(A, B, inv, src, more, "idle")
  BY DEF Remaining
<1>2. SourceRight(A, B, inv, L, src, more, "idle")
  BY DEF SourceRight
<1>3. QED
  BY <1>1, <1>2, BasePassed

LEMMA BaseNothing ==
  ASSUME NEW A, IsNfa(A), NEW B, IsNfa(B), NEW c, NEW src, NEW left, NEW st, DOMAIN st = {}
  PROVE  ProductBase(A, B, c, st, << >>, << >>, {}, {}, src, left, "idle")
<1>1. PICK inv : inv = << >>
  OBVIOUS
<1>2. Len(inv) = 0 /\ inv \in Seq(A.states \X B.states) /\ inv \in Seq(Nat)
  BY <1>1
<1>3. StoredRight(A, B, st, inv)
  BY <1>2 DEF StoredRight
<1>4. ListRight(inv, inv)
  BY <1>2 DEF ListRight
<1>5. {} = FinalPairs(A, B, c, inv)
  BY <1>2 DEF FinalPairs
<1>6. SourceRight(A, B, inv, inv, src, left, "idle")
  BY DEF SourceRight
<1>7. \A q \in Nat : ~(q < Len(inv))
  BY <1>2
<1>8. ProductBase(A, B, c, st, inv, inv, {}, {}, src, left, "idle")
  BY <1>3, <1>4, <1>5, <1>6, <1>7 DEF ProductBase
<1>9. QED
  BY <1>1, <1>8

(* The variables of the product.                                            *)
ProductHolds ==
  /\ ProductBase(lhs, rhs, condition, product_storage, inverted, product_worklist,
                 product_final, product_delta, product_source, pairs_left, pass)
  /\ ProductPlace(lhs, rhs, product_storage, inverted, product_worklist, product_initial,
                  pairs_left, pass, product_at)

LEMMA ProductHoldsAtCall ==
  ASSUME NEW A, IsNfa(A), NEW B, IsNfa(B), NEW c, ProductCalled(A, B, c)
  PROVE  ProductHolds
<1>1. /\ lhs = A /\ rhs = B /\ condition = c
      /\ product_storage = NothingStored /\ inverted = << >>
      /\ product_worklist = << >>
      /\ product_initial = {} /\ product_final = {} /\ product_delta = {}
      /\ pairs_left = {} /\ pass = "idle"
      /\ product_at = "called"
  BY DEF ProductCalled
<1>2. DOMAIN NothingStored = {}
  BY DEF NothingStored
<1>3. ProductBase(A, B, c, NothingStored, << >>, << >>, {}, {}, product_source, {}, "idle")
  BY <1>2, BaseNothing
<1>4. ProductPlace(A, B, NothingStored, << >>, << >>, {}, {}, "idle", "called")
  BY <1>2 DEF ProductPlace
<1>5. QED
  BY <1>1, <1>3, <1>4 DEF ProductHolds

LEMMA HoldsWhenCalled ==
  ASSUME ProductHolds, product_at = "called"
  PROVE  /\ IsNfa(lhs) /\ IsNfa(rhs) /\ inverted = << >> /\ product_worklist = << >>
         /\ product_initial = {} /\ DOMAIN product_storage = {} /\ product_final = {}
         /\ product_delta = {} /\ pass = "idle"
<1>1. /\ IsNfa(lhs) /\ IsNfa(rhs)
      /\ product_final = FinalPairs(lhs, rhs, condition, inverted)
      /\ \A m \in product_delta : IsMoveOfPairs(lhs, rhs, inverted, m)
  BY DEF ProductHolds, ProductBase
<1>2. /\ inverted = << >> /\ product_worklist = << >>
      /\ product_initial = {} /\ DOMAIN product_storage = {} /\ pass = "idle"
  BY DEF ProductHolds, ProductPlace
<1>3. Len(inverted) = 0
  BY <1>2
<1>4. product_final = {}
  BY <1>1, <1>3 DEF FinalPairs
<1>5. product_delta = {}
  <2>1. ASSUME NEW m \in product_delta PROVE FALSE
    <3>1. m[1] \in Nat /\ m[1] < 0
      BY <1>1, <1>3 DEF IsMoveOfPairs
    <3>2. QED
      BY <3>1
  <2>2. QED
    BY <2>1
<1>6. QED
  BY <1>1, <1>2, <1>4, <1>5

LEMMA ProductTakesOver ==
  ASSUME ProductHolds, product_at = "called", IsNfa(rhs'),
         UNCHANGED <<lhs, condition, product_storage, inverted, product_worklist,
                     product_initial, product_final, product_delta, product_source,
                     pairs_left, pass, product_at>>
  PROVE  ProductHolds'
<1>1. /\ IsNfa(lhs) /\ inverted = << >> /\ product_worklist = << >>
      /\ product_initial = {} /\ DOMAIN product_storage = {} /\ product_final = {}
      /\ product_delta = {} /\ pass = "idle"
  BY HoldsWhenCalled
<1>2. PICK A, B, c, st, src, left :
        /\ A = lhs /\ B = rhs' /\ c = condition /\ st = product_storage /\ src = product_source
        /\ left = pairs_left
  OBVIOUS
<1>3. IsNfa(A) /\ IsNfa(B) /\ DOMAIN st = {}
  BY <1>1, <1>2
<1>4. ProductBase(A, B, c, st, << >>, << >>, {}, {}, src, left, "idle")
  BY <1>3, BaseNothing
<1>5. ProductPlace(A, B, st, << >>, << >>, {}, left, "idle", "called")
  BY <1>3 DEF ProductPlace
<1>6. /\ lhs' = A /\ rhs' = B /\ condition' = c /\ product_storage' = st /\ inverted' = << >>
      /\ product_worklist' = << >> /\ product_initial' = {} /\ product_final' = {}
      /\ product_delta' = {} /\ product_source' = src /\ pairs_left' = left /\ pass' = "idle"
      /\ product_at' = "called"
  BY <1>1, <1>2
<1>7. QED
  BY <1>4, <1>5, <1>6 DEF ProductHolds

(* The pairs left for the state in hand are triples of numbers.             *)
LEMMA LeftAreNumbers ==
  ASSUME NEW A, NEW B, NEW c, NEW st, NEW inv, NEW L, NEW fin, NEW d, NEW src, NEW left, NEW ps,
         ProductBase(A, B, c, st, inv, L, fin, d, src, left, ps), ps # "idle"
  PROVE  left \subseteq Letters \X A.states \X B.states /\ left \subseteq Nat \X Nat \X Nat
<1>1. left \subseteq Letters \X A.states \X B.states
  BY DEF ProductBase, SourceRight, PairMovesOf
<1>2. A.states \in SUBSET Nat /\ B.states \in SUBSET Nat
  BY NfaIs DEF ProductBase
<1>3. Letters \subseteq Nat
  BY JobsAssumption
<1>4. QED
  BY <1>1, <1>2, <1>3

LEMMA ConnectsKnown ==
  ASSUME ProductHolds, ConnectPair, NEW v, v = NextPair, v \in pairs_left,
         <<v[2], v[3]>> \in DOMAIN product_storage, pass # "idle"
  PROVE  ProductHolds'
<1>1. PICK A, B, c, st, inv, L, fin, d, src, left, ps :
        /\ A = lhs /\ B = rhs /\ c = condition /\ st = product_storage /\ inv = inverted
        /\ L = product_worklist /\ fin = product_final /\ d = product_delta
        /\ src = product_source /\ left = pairs_left /\ ps = pass
  OBVIOUS
<1>2. ProductBase(A, B, c, st, inv, L, fin, d, src, left, ps)
  BY <1>1 DEF ProductHolds
<1>3. /\ product_storage' = st /\ inverted' = inv /\ product_worklist' = L
      /\ product_final' = fin /\ product_delta' = d \cup {<<src, v[1], st[<<v[2], v[3]>>]>>}
      /\ pairs_left' = left \ {v} /\ product_at = "loop"
      /\ UNCHANGED <<lhs, rhs, condition, product_initial, product_source, pass, product_at>>
  BY <1>1 DEF ConnectPair, Unstored
<1>4. ps # "idle"
  BY <1>1
<1>5. v \in left
  BY <1>1
<1>6. <<v[2], v[3]>> \in DOMAIN st
  BY <1>1
<1>7. PICK dd : dd = d \cup {<<src, v[1], st[<<v[2], v[3]>>]>>}
  OBVIOUS
<1>8. ProductBase(A, B, c, st, inv, L, fin, dd, src, left \ {v}, ps)
  BY <1>2, <1>4, <1>5, <1>6, <1>7, BaseConnected
<1>9. PICK init : init = product_initial
  OBVIOUS
<1>10. ProductPlace(A, B, st, inv, L, init, left, ps, "loop")
  BY <1>1, <1>3, <1>9 DEF ProductHolds
<1>11. ProductPlace(A, B, st, inv, L, init, left \ {v}, ps, "loop")
  BY <1>10 DEF ProductPlace
<1>12. QED
  BY <1>1, <1>3, <1>7, <1>8, <1>9, <1>11 DEF ProductHolds

LEMMA ConnectsNew ==
  ASSUME ProductHolds, ConnectPair, NEW v, v = NextPair, v \in pairs_left,
         <<v[2], v[3]>> \notin DOMAIN product_storage, pass # "idle"
  PROVE  ProductHolds'
<1>1. PICK A, B, c, st, inv, L, fin, d, src, left, ps :
        /\ A = lhs /\ B = rhs /\ c = condition /\ st = product_storage /\ inv = inverted
        /\ L = product_worklist /\ fin = product_final /\ d = product_delta
        /\ src = product_source /\ left = pairs_left /\ ps = pass
  OBVIOUS
<1>2. ProductBase(A, B, c, st, inv, L, fin, d, src, left, ps)
  BY <1>1 DEF ProductHolds
<1>3. PICK n, p : n = Len(inv) /\ p = <<v[2], v[3]>>
  OBVIOUS
<1>4. PICK sn, longer, more, last : /\ sn = StoredAt(st, p, n) /\ longer = Append(inv, p)
                                    /\ more = Append(L, n)
                                    /\ last = FinalWith(A, B, c, fin, p, n)
  OBVIOUS
<1>5. v \in left /\ ps # "idle" /\ p \notin DOMAIN st
  BY <1>1, <1>3
<1>6. p \in A.states \X B.states
  <2>1. left \subseteq Letters \X A.states \X B.states
    BY <1>2, <1>5, LeftAreNumbers
  <2>2. QED
    BY <1>3, <1>5, <2>1
<1>7. IsFinalPair(A, B, c, p) <=> final_condition(v[2], v[3])
  BY <1>1, <1>3 DEF IsFinalPair, final_condition
<1>8. /\ product_storage' = sn /\ inverted' = longer /\ product_worklist' = more
      /\ product_final' = last
  <2>1. Store(v[2], v[3])
    BY <1>1, <1>3, <1>5 DEF ConnectPair
  <2>2. NewProductState = n
    BY <1>1, <1>3 DEF NewProductState
  <2>3. product_storage' = sn
    BY <1>1, <1>3, <1>4, <2>1, <2>2 DEF Store, StoredAt
  <2>4. inverted' = longer /\ product_worklist' = more
    BY <1>1, <1>3, <1>4, <2>1, <2>2 DEF Store
  <2>5. product_final' = last
    BY <1>1, <1>4, <1>7, <2>1, <2>2 DEF Store, FinalWith
  <2>6. QED
    BY <2>3, <2>4, <2>5
<1>9. /\ product_delta' = d \cup {<<src, v[1], n>>} /\ pairs_left' = left \ {v}
      /\ product_at = "loop"
      /\ UNCHANGED <<lhs, rhs, condition, product_initial, product_source, pass, product_at>>
  <2>1. NewProductState = n
    BY <1>1, <1>3 DEF NewProductState
  <2>2. p \notin DOMAIN product_storage
    BY <1>1, <1>5
  <2>3. product_delta' = d \cup {<<src, v[1], n>>}
    BY <1>1, <1>3, <2>1, <2>2 DEF ConnectPair
  <2>4. QED
    BY <1>1, <2>3 DEF ConnectPair
<1>10. ProductBase(A, B, c, sn, longer, more, last, d, src, left, ps)
  BY <1>2, <1>3, <1>4, <1>5, <1>6, BaseStored
<1>11. sn[p] = n /\ p \in DOMAIN sn
  BY <1>4 DEF StoredAt
<1>12. PICK dd : dd = d \cup {<<src, v[1], sn[<<v[2], v[3]>>]>>}
  OBVIOUS
<1>13. ProductBase(A, B, c, sn, longer, more, last, dd, src, left \ {v}, ps)
  <2>1. v \in left
    BY <1>5
  <2>2. ps # "idle"
    BY <1>5
  <2>3. <<v[2], v[3]>> \in DOMAIN sn
    BY <1>3, <1>11
  <2>4. QED
    BY <1>10, <1>12, <2>1, <2>2, <2>3, BaseConnected
<1>14. product_delta' = dd
  BY <1>3, <1>9, <1>11, <1>12
<1>15. PICK init : init = product_initial
  OBVIOUS
<1>16. ProductPlace(A, B, st, inv, L, init, left, ps, "loop")
  BY <1>1, <1>9, <1>15 DEF ProductHolds
<1>17. ProductPlace(A, B, sn, longer, more, init, left \ {v}, ps, "loop")
  <2>1. /\ ps \in {"symbols", "lhs epsilons", "rhs epsilons", "idle"}
        /\ ~Trivial(A) /\ ~Trivial(B) /\ InitialStored(A, B, inv, init)
    BY <1>16 DEF ProductPlace
  <2>2. inv \in Seq(A.states \X B.states)
    BY <1>2 DEF ProductBase, StoredRight
  <2>3. InitialStored(A, B, longer, init)
    BY <1>4, <2>1, <2>2, InitialKept
  <2>4. QED
    BY <1>5, <2>1, <2>3 DEF ProductPlace
<1>18. QED
  BY <1>1, <1>8, <1>9, <1>13, <1>14, <1>15, <1>17 DEF ProductHolds

LEMMA StoresInitial ==
  ASSUME ProductHolds, StoreInitial, pairs_left # {}
  PROVE  ProductHolds'
<1>1. PICK A, B, c, st, inv, L, fin, d, src, left :
        /\ A = lhs /\ B = rhs /\ c = condition /\ st = product_storage /\ inv = inverted
        /\ L = product_worklist /\ fin = product_final /\ d = product_delta
        /\ src = product_source /\ left = pairs_left
  OBVIOUS
<1>2. PICK v \in pairs_left :
        /\ Store(v[2], v[3])
        /\ product_initial' = product_initial \cup {NewProductState}
        /\ pairs_left' = pairs_left \ {v}
        /\ UNCHANGED product_at
  BY DEF StoreInitial
<1>3. /\ product_at = "initial"
      /\ UNCHANGED <<lhs, rhs, condition, product_delta, product_source, pass>>
  BY DEF StoreInitial
<1>4. PICK init : init = product_initial
  OBVIOUS
<1>5. /\ pass = "idle" /\ InitialUnderWay(A, B, st, inv, init, left)
  BY <1>1, <1>3, <1>4 DEF ProductHolds, ProductPlace
<1>6. ProductBase(A, B, c, st, inv, L, fin, d, src, left, "idle")
  BY <1>1, <1>5 DEF ProductHolds
<1>7. PICK n, p : n = Len(inv) /\ p = <<v[2], v[3]>>
  OBVIOUS
<1>8. PICK sn, longer, more, last : /\ sn = StoredAt(st, p, n) /\ longer = Append(inv, p)
                                    /\ more = Append(L, n)
                                    /\ last = FinalWith(A, B, c, fin, p, n)
  OBVIOUS
<1>9. v \in left
  BY <1>1
<1>10. p \notin DOMAIN st /\ p \in A.initial \X B.initial
  BY <1>5, <1>7, <1>9 DEF InitialUnderWay
<1>11. p \in A.states \X B.states
  <2>1. IsNfa(A) /\ IsNfa(B)
    BY <1>6 DEF ProductBase
  <2>2. A.initial \subseteq A.states /\ B.initial \subseteq B.states
    BY <2>1, NfaIs
  <2>3. QED
    BY <1>10, <2>2
<1>12. IsFinalPair(A, B, c, p) <=> final_condition(v[2], v[3])
  BY <1>1, <1>7 DEF IsFinalPair, final_condition
<1>13. NewProductState = n
  BY <1>1, <1>7 DEF NewProductState
<1>14. product_storage' = sn
  BY <1>1, <1>2, <1>7, <1>8, <1>13 DEF Store, StoredAt
<1>15. inverted' = longer /\ product_worklist' = more
  BY <1>1, <1>2, <1>7, <1>8, <1>13 DEF Store
<1>16. product_final' = last
  BY <1>1, <1>2, <1>8, <1>12, <1>13 DEF Store, FinalWith
<1>17. ProductBase(A, B, c, sn, longer, more, last, d, src, left, "idle")
  BY <1>6, <1>7, <1>8, <1>10, <1>11, BaseStored
<1>18. ProductBase(A, B, c, sn, longer, more, last, d, src, left \ {v}, "idle")
  BY <1>17, BaseIdle
<1>19. InitialUnderWay(A, B, sn, longer, init \cup {n}, left \ {v})
  <2>1. StoredRight(A, B, st, inv)
    BY <1>6 DEF ProductBase
  <2>2. InitialUnderWay(A, B, st, inv, init, left)
    BY <1>5
  <2>3. QED
    BY <1>7, <1>8, <1>9, <2>1, <2>2, InitialGoesOn
<1>20. ProductPlace(A, B, sn, longer, more, init \cup {n}, left \ {v}, "idle", "initial")
  BY <1>19 DEF ProductPlace
<1>21. product_initial' = init \cup {n} /\ pairs_left' = left \ {v} /\ product_at' = "initial"
       /\ pass' = "idle"
  BY <1>1, <1>2, <1>3, <1>4, <1>5, <1>13
<1>22. QED
  BY <1>1, <1>3, <1>14, <1>15, <1>16, <1>18, <1>20, <1>21 DEF ProductHolds

LEMMA TakesState ==
  ASSUME ProductHolds, TakeProductState
  PROVE  ProductHolds'
<1>1. PICK A, B, c, st, inv, L, fin, d, src, left, q, init :
        /\ A = lhs /\ B = rhs /\ c = condition /\ st = product_storage /\ inv = inverted
        /\ L = product_worklist /\ fin = product_final /\ d = product_delta
        /\ src = product_source /\ left = pairs_left /\ q = Last(product_worklist)
        /\ init = product_initial
  OBVIOUS
<1>2. /\ product_at = "loop" /\ pass = "idle" /\ L # << >>
      /\ product_source' = q /\ product_worklist' = Front(L) /\ pass' = "symbols"
      /\ pairs_left' = SymbolPairs(inv[q + 1][1], inv[q + 1][2])
      /\ UNCHANGED <<lhs, rhs, condition, product_storage, inverted, product_initial,
                     product_final, product_delta, product_at>>
  BY <1>1 DEF TakeProductState
<1>3. ProductBase(A, B, c, st, inv, L, fin, d, src, left, "idle")
  BY <1>1, <1>2 DEF ProductHolds
<1>4. ProductBase(A, B, c, st, inv, Front(L), fin, d, q, OfSymbols(A, B, inv[q + 1]), "symbols")
  BY <1>1, <1>2, <1>3, BaseTaken
<1>5. inv[q + 1] \in A.states \X B.states
  <2>1. StoredRight(A, B, st, inv) /\ SourceRight(A, B, inv, Front(L), q,
                                                  OfSymbols(A, B, inv[q + 1]), "symbols")
    BY <1>4 DEF ProductBase
  <2>2. q \in Nat /\ q < Len(inv)
    BY <2>1 DEF SourceRight
  <2>3. QED
    BY <2>1, <2>2 DEF StoredRight
<1>6. PICK p : p = inv[q + 1]
  OBVIOUS
<1>7. SymbolPairs(p[1], p[2]) = OfSymbols(A, B, p)
  <2>1. IsNfa(lhs) /\ IsNfa(rhs)
    BY <1>1, <1>3 DEF ProductBase
  <2>2. p \in lhs.states \X rhs.states
    BY <1>1, <1>5, <1>6
  <2>3. SymbolPairs(p[1], p[2]) = OfSymbols(lhs, rhs, p)
    BY <2>1, <2>2, SymbolPairsAre
  <2>4. QED
    BY <1>1, <2>3
<1>8. pairs_left' = OfSymbols(A, B, inv[q + 1])
  BY <1>2, <1>6, <1>7
<1>9. ProductPlace(A, B, st, inv, L, init, left, "idle", "loop")
  BY <1>1, <1>2 DEF ProductHolds
<1>10. ProductPlace(A, B, st, inv, Front(L), init, OfSymbols(A, B, inv[q + 1]), "symbols", "loop")
  BY <1>9 DEF ProductPlace
<1>11. QED
  BY <1>1, <1>2, <1>4, <1>8, <1>10 DEF ProductHolds

(* What is in hand, in one of the passes.                                   *)
LEMMA SourceIs ==
  ASSUME ProductHolds, pass # "idle"
  PROVE  /\ IsNfa(lhs) /\ IsNfa(rhs) /\ inverted[product_source + 1] \in lhs.states \X rhs.states
         /\ product_source \in Nat /\ product_source < Len(inverted)
         /\ product_source \notin ToSet(product_worklist)
<1>1. /\ IsNfa(lhs) /\ IsNfa(rhs) /\ StoredRight(lhs, rhs, product_storage, inverted)
      /\ SourceRight(lhs, rhs, inverted, product_worklist, product_source, pairs_left, pass)
  BY DEF ProductHolds, ProductBase
<1>2. /\ product_source \in Nat /\ product_source < Len(inverted)
      /\ product_source \notin ToSet(product_worklist)
  BY <1>1 DEF SourceRight
<1>3. inverted[product_source + 1] \in lhs.states \X rhs.states
  BY <1>1, <1>2 DEF StoredRight
<1>4. QED
  BY <1>1, <1>2, <1>3

(* The pass is over, and the next one begins with the pairs more.           *)
LEMMA PassGoesOn ==
  ASSUME ProductHolds, product_at = "loop", pass # "idle", pairs_left = {},
         NEW more, NEW to, to \in {"lhs epsilons", "rhs epsilons", "idle"},
         Remaining(lhs, rhs, inverted, product_source, {}, pass) =
           Remaining(lhs, rhs, inverted, product_source, more, to),
         more \subseteq PairMovesOf(lhs, rhs, inverted[product_source + 1]),
         to = "idle" => more = {},
         pairs_left' = more, pass' = to,
         UNCHANGED <<lhs, rhs, condition, product_storage, inverted, product_worklist,
                     product_initial, product_final, product_delta, product_source, product_at>>
  PROVE  ProductHolds'
<1>1. PICK A, B, c, st, inv, L, fin, d, src, ps, init :
        /\ A = lhs /\ B = rhs /\ c = condition /\ st = product_storage /\ inv = inverted
        /\ L = product_worklist /\ fin = product_final /\ d = product_delta
        /\ src = product_source /\ ps = pass /\ init = product_initial
  OBVIOUS
<1>2. ProductBase(A, B, c, st, inv, L, fin, d, src, {}, ps)
  BY <1>1 DEF ProductHolds
<1>3. Remaining(A, B, inv, src, {}, ps) = Remaining(A, B, inv, src, more, to)
  BY <1>1
<1>4. SourceRight(A, B, inv, L, src, more, to)
  BY <1>1, SourceIs DEF SourceRight
<1>5. ProductBase(A, B, c, st, inv, L, fin, d, src, more, to)
  BY <1>2, <1>3, <1>4, BasePassed
<1>6. ProductPlace(A, B, st, inv, L, init, {}, ps, "loop")
  BY <1>1 DEF ProductHolds
<1>7. ProductPlace(A, B, st, inv, L, init, more, to, "loop")
  BY <1>6 DEF ProductPlace
<1>8. QED
  BY <1>1, <1>5, <1>7 DEF ProductHolds

LEMMA PassesLhs ==
  ASSUME ProductHolds, LhsEpsilons
  PROVE  ProductHolds'
<1>1. PICK p : p = inverted[product_source + 1]
  OBVIOUS
<1>2. /\ product_at = "loop" /\ pass = "symbols" /\ pairs_left = {}
      /\ pairs_left' = LhsEpsilonPairs(p[1], p[2]) /\ pass' = "lhs epsilons"
      /\ UNCHANGED <<lhs, rhs, condition, product_storage, inverted, product_worklist,
                     product_initial, product_final, product_delta, product_source, product_at>>
  BY <1>1 DEF LhsEpsilons, lhs_source, rhs_source
<1>3. IsNfa(lhs) /\ IsNfa(rhs) /\ p \in lhs.states \X rhs.states
  BY <1>1, <1>2, SourceIs
<1>4. pairs_left' = OfLhs(lhs, rhs, p)
  BY <1>2, <1>3, EpsilonPairsAre
<1>5. PICK more : more = OfLhs(lhs, rhs, p)
  OBVIOUS
<1>6. more \subseteq PairMovesOf(lhs, rhs, p)
  BY <1>5 DEF OfLhs
<1>7. Remaining(lhs, rhs, inverted, product_source, {}, "symbols") =
        Remaining(lhs, rhs, inverted, product_source, more, "lhs epsilons")
  BY <1>1, <1>5 DEF Remaining, Later
<1>8. QED
  BY <1>1, <1>2, <1>4, <1>5, <1>6, <1>7, PassGoesOn

LEMMA PassesRhs ==
  ASSUME ProductHolds, RhsEpsilons
  PROVE  ProductHolds'
<1>1. PICK p : p = inverted[product_source + 1]
  OBVIOUS
<1>2. /\ product_at = "loop" /\ pass = "lhs epsilons" /\ pairs_left = {}
      /\ pairs_left' = RhsEpsilonPairs(p[1], p[2]) /\ pass' = "rhs epsilons"
      /\ UNCHANGED <<lhs, rhs, condition, product_storage, inverted, product_worklist,
                     product_initial, product_final, product_delta, product_source, product_at>>
  BY <1>1 DEF RhsEpsilons, lhs_source, rhs_source
<1>3. IsNfa(lhs) /\ IsNfa(rhs) /\ p \in lhs.states \X rhs.states
  BY <1>1, <1>2, SourceIs
<1>4. pairs_left' = OfRhs(lhs, rhs, p)
  BY <1>2, <1>3, EpsilonPairsAre
<1>5. PICK more : more = OfRhs(lhs, rhs, p)
  OBVIOUS
<1>6. more \subseteq PairMovesOf(lhs, rhs, p)
  BY <1>5 DEF OfRhs
<1>7. Remaining(lhs, rhs, inverted, product_source, {}, "lhs epsilons") =
        Remaining(lhs, rhs, inverted, product_source, more, "rhs epsilons")
  BY <1>1, <1>5 DEF Remaining, Later
<1>8. QED
  BY <1>1, <1>2, <1>4, <1>5, <1>6, <1>7, PassGoesOn

LEMMA StateLeft ==
  ASSUME ProductHolds, LeaveProductState
  PROVE  ProductHolds'
<1>1. PICK more : more = {}
  OBVIOUS
<1>2. /\ product_at = "loop" /\ pass = "rhs epsilons" /\ pairs_left = {}
      /\ pairs_left' = more /\ pass' = "idle"
      /\ UNCHANGED <<lhs, rhs, condition, product_storage, inverted, product_worklist,
                     product_initial, product_final, product_delta, product_source, product_at>>
  BY <1>1 DEF LeaveProductState
<1>3. Remaining(lhs, rhs, inverted, product_source, {}, "rhs epsilons") =
        Remaining(lhs, rhs, inverted, product_source, more, "idle")
  BY <1>1 DEF Remaining, Later
<1>4. more \subseteq PairMovesOf(lhs, rhs, inverted[product_source + 1])
  BY <1>1
<1>5. QED
  BY <1>1, <1>2, <1>3, <1>4, PassGoesOn

LEMMA ProductHoldsOn ==
  ASSUME ProductHolds, ProductNext
  PROVE  ProductHolds'
<1>1. CASE EarlyReturn
  <2>1. /\ product_at = "called" /\ (Trivial(lhs) \/ Trivial(rhs)) /\ product_at' = "done"
        /\ UNCHANGED <<lhs, rhs, condition, product_storage, inverted, product_worklist,
                       product_initial, product_final, product_delta, product_source,
                       pairs_left, pass>>
    BY <1>1 DEF EarlyReturn
  <2>2. /\ inverted = << >> /\ product_worklist = << >> /\ product_initial = {} /\ pass = "idle"
    BY <2>1, HoldsWhenCalled
  <2>3. ProductPlace(lhs, rhs, product_storage, inverted, product_worklist, product_initial,
                     pairs_left, pass, "done")
    BY <2>1, <2>2 DEF ProductPlace
  <2>4. QED
    BY <2>1, <2>3 DEF ProductHolds
<1>2. CASE StartProduct
  <2>1. /\ product_at = "called" /\ ~Trivial(lhs) /\ ~Trivial(rhs) /\ product_at' = "initial"
        /\ pairs_left' = {<<0, s, t>> : s \in lhs.initial, t \in rhs.initial}
        /\ UNCHANGED <<lhs, rhs, condition, product_storage, inverted, product_worklist,
                       product_initial, product_final, product_delta, product_source, pass>>
    BY <1>2 DEF StartProduct
  <2>2. PICK A, B, c, st, src, left, more :
          /\ A = lhs /\ B = rhs /\ c = condition /\ st = product_storage /\ src = product_source
          /\ left = pairs_left /\ more = pairs_left'
    OBVIOUS
  <2>3. /\ IsNfa(A) /\ IsNfa(B) /\ DOMAIN st = {}
        /\ inverted = << >> /\ product_worklist = << >> /\ product_initial = {}
        /\ product_final = {} /\ product_delta = {} /\ pass = "idle"
    BY <2>1, <2>2, HoldsWhenCalled
  <2>4. ProductBase(A, B, c, st, << >>, << >>, {}, {}, src, more, "idle")
    BY <2>3, BaseNothing
  <2>5. InitialUnderWay(A, B, st, << >>, {}, more)
    <3>1. more = {<<0, s, t>> : s \in A.initial, t \in B.initial}
      BY <2>1, <2>2
    <3>2. ASSUME NEW v \in more
          PROVE  /\ v = <<0, v[2], v[3]>> /\ v[2] \in A.initial /\ v[3] \in B.initial
                 /\ <<v[2], v[3]>> \notin DOMAIN st
      BY <2>3, <3>1
    <3>3. \A s \in A.initial : \A t \in B.initial : <<0, s, t>> \in more
      BY <3>1
    <3>4. \A q : ~(q \in Nat /\ q < Len(<< >>))
      OBVIOUS
    <3>5. ~Trivial(A) /\ ~Trivial(B)
      BY <2>1, <2>2
    <3>6. QED
      BY <2>3, <3>2, <3>3, <3>4, <3>5 DEF InitialUnderWay
  <2>6. ProductPlace(A, B, st, << >>, << >>, {}, more, "idle", "initial")
    BY <2>5 DEF ProductPlace
  <2>7. QED
    BY <2>1, <2>2, <2>3, <2>4, <2>6 DEF ProductHolds
<1>3. CASE StoreInitial
  <2>1. CASE pairs_left # {}
    BY <1>3, <2>1, StoresInitial
  <2>2. CASE pairs_left = {}
    <3>1. /\ product_at = "initial" /\ product_at' = "loop"
          /\ UNCHANGED <<lhs, rhs, condition, product_storage, inverted, product_worklist,
                         product_initial, product_final, product_delta, product_source,
                         pairs_left, pass>>
      BY <1>3, <2>2 DEF StoreInitial, Unstored
    <3>2. PICK A, B, st, inv, init :
            /\ A = lhs /\ B = rhs /\ st = product_storage /\ inv = inverted
            /\ init = product_initial
      OBVIOUS
    <3>3. pass = "idle" /\ InitialUnderWay(A, B, st, inv, init, {})
      BY <2>2, <3>1, <3>2 DEF ProductHolds, ProductPlace
    <3>4. StoredRight(A, B, st, inv)
      BY <3>2 DEF ProductHolds, ProductBase
    <3>5. ~Trivial(A) /\ ~Trivial(B) /\ InitialStored(A, B, inv, init)
      BY <3>3, <3>4, InitialIsOver
    <3>6. ProductPlace(A, B, st, inv, product_worklist, init, {}, "idle", "loop")
      BY <3>5 DEF ProductPlace
    <3>7. QED
      BY <2>2, <3>1, <3>2, <3>3, <3>6 DEF ProductHolds
  <2>3. QED
    BY <2>1, <2>2
<1>4. CASE TakeProductState
  BY <1>4, TakesState
<1>5. CASE ConnectPair
  <2>1. product_at = "loop" /\ pairs_left # {}
    BY <1>5 DEF ConnectPair
  <2>2. pass # "idle"
    BY <2>1 DEF ProductHolds, ProductPlace
  <2>3. PICK v : v = NextPair
    OBVIOUS
  <2>4. v \in pairs_left
    <3>1. ProductBase(lhs, rhs, condition, product_storage, inverted, product_worklist,
                      product_final, product_delta, product_source, pairs_left, pass)
      BY DEF ProductHolds
    <3>2. pairs_left \subseteq Nat \X Nat \X Nat
      BY <2>2, <3>1, LeftAreNumbers
    <3>3. QED
      BY <2>1, <2>3, <3>2, FirstPair
  <2>5. CASE <<v[2], v[3]>> \in DOMAIN product_storage
    BY <1>5, <2>2, <2>3, <2>4, <2>5, ConnectsKnown
  <2>6. CASE <<v[2], v[3]>> \notin DOMAIN product_storage
    BY <1>5, <2>2, <2>3, <2>4, <2>6, ConnectsNew
  <2>7. QED
    BY <2>5, <2>6
<1>6. CASE LhsEpsilons
  BY <1>6, PassesLhs
<1>7. CASE RhsEpsilons
  BY <1>7, PassesRhs
<1>8. CASE LeaveProductState
  BY <1>8, StateLeft
<1>9. CASE ReturnProduct
  <2>1. /\ product_at = "loop" /\ pass = "idle" /\ product_worklist = << >>
        /\ product_at' = "done"
        /\ UNCHANGED <<lhs, rhs, condition, product_storage, inverted, product_worklist,
                       product_initial, product_final, product_delta, product_source,
                       pairs_left, pass>>
    BY <1>9 DEF ReturnProduct
  <2>2. ProductPlace(lhs, rhs, product_storage, inverted, product_worklist, product_initial,
                     pairs_left, pass, "done")
    BY <2>1 DEF ProductHolds, ProductPlace
  <2>3. QED
    BY <2>1, <2>2 DEF ProductHolds
<1>10. QED
  BY <1>1, <1>2, <1>3, <1>4, <1>5, <1>6, <1>7, <1>8, <1>9 DEF ProductNext

(* The transitions of a product state, as moves of its pair.                *)
MovesFrom(inv, d, q) ==
  {<<m[2], inv[m[3] + 1][1], inv[m[3] + 1][2]>> : m \in {k \in d : k[1] = q}}

LEMMA MovesAreOfPair ==
  ASSUME NEW A, NEW B, NEW inv, NEW d, \A m \in d : IsMoveOfPairs(A, B, inv, m), NEW q
  PROVE  MovesFrom(inv, d, q) \subseteq PairMovesOf(A, B, inv[q + 1])
<1> SUFFICES ASSUME NEW v \in MovesFrom(inv, d, q)
             PROVE  v \in PairMovesOf(A, B, inv[q + 1])
  OBVIOUS
<1>1. PICK m \in d : m[1] = q /\ v = <<m[2], inv[m[3] + 1][1], inv[m[3] + 1][2]>>
  BY DEF MovesFrom
<1>2. IsMoveOfPairs(A, B, inv, m)
  BY <1>1
<1>3. <<m[2], inv[m[3] + 1][1], inv[m[3] + 1][2]>> \in PairMovesOf(A, B, inv[m[1] + 1])
  BY <1>2 DEF IsMoveOfPairs
<1>4. QED
  BY <1>1, <1>3

LEMMA PairHasMoves ==
  ASSUME NEW A, NEW B, NEW st, NEW inv, NEW L, NEW d, NEW src, NEW rest, NEW q,
         StoredRight(A, B, st, inv), IsExpanded(A, B, st, inv, L, d, src, rest, q),
         q \notin ToSet(L), q # src \/ rest = {}
  PROVE  PairMovesOf(A, B, inv[q + 1]) \subseteq MovesFrom(inv, d, q)
<1> SUFFICES ASSUME NEW v \in PairMovesOf(A, B, inv[q + 1]) PROVE v \in MovesFrom(inv, d, q)
  OBVIOUS
<1>1. IsConnected(st, d, q, v)
  BY DEF IsExpanded
<1>2. PICK p : p = <<v[2], v[3]>>
  OBVIOUS
<1>3. p \in DOMAIN st /\ <<q, v[1], st[p]>> \in d
  BY <1>1, <1>2 DEF IsConnected
<1>4. inv[st[p] + 1] = p
  BY <1>3 DEF StoredRight
<1>5. v = <<v[1], v[2], v[3]>>
  BY DEF PairMovesOf
<1>6. PICK m \in d : m = <<q, v[1], st[p]>>
  BY <1>3
<1>7. m[1] = q /\ m[2] = v[1] /\ m[3] = st[p]
  BY <1>6
<1>8. v = <<m[2], inv[m[3] + 1][1], inv[m[3] + 1][2]>>
  BY <1>2, <1>4, <1>5, <1>7
<1>9. QED
  BY <1>7, <1>8 DEF MovesFrom

LEMMA InitialPairs ==
  ASSUME NEW A, NEW B, NEW inv, NEW init, InitialStored(A, B, inv, init)
  PROVE  {inv[q + 1] : q \in init} = A.initial \X B.initial
<1>1. \A q \in init : inv[q + 1] \in A.initial \X B.initial
  BY DEF InitialStored
<1>2. \A p \in A.initial \X B.initial : \E q \in init : inv[q + 1] = p
  BY DEF InitialStored
<1>3. PICK X : X = {inv[q + 1] : q \in init}
  OBVIOUS
<1>4. PICK Y : Y = A.initial \X B.initial
  OBVIOUS
<1>5. \A p \in X : p \in Y
  BY <1>1, <1>3, <1>4
<1>6. \A p \in Y : p \in X
  BY <1>2, <1>3, <1>4
<1>7. X = Y
  BY <1>5, <1>6
<1>8. QED
  BY <1>3, <1>4, <1>7

LEMMA PairsHold ==
  ASSUME ProductHolds
  PROVE  PairsExpandedOnce
<1>1. PICK A, B, c, st, inv, L, fin, d, src, rest, init :
        /\ A = lhs /\ B = rhs /\ c = condition /\ st = product_storage /\ inv = inverted
        /\ L = product_worklist /\ fin = product_final /\ d = product_delta
        /\ src = product_source /\ init = product_initial
        /\ rest = Remaining(lhs, rhs, inverted, product_source, pairs_left, pass)
  OBVIOUS
<1>2. /\ StoredRight(A, B, st, inv) /\ ListRight(inv, L) /\ fin = FinalPairs(A, B, c, inv)
      /\ \A m \in d : IsMoveOfPairs(A, B, inv, m)
      /\ \A m \in d : m[1] \notin ToSet(L)
      /\ \A q \in Nat : q < Len(inv) => IsExpanded(A, B, st, inv, L, d, src, rest, q)
  BY <1>1 DEF ProductHolds, ProductBase
<1>3. Len(inv) \in Nat
  BY <1>2 DEF StoredRight
<1>4. \A q \in Stored : q \in Nat /\ q < Len(inv)
  BY <1>1, <1>3 DEF Stored
<1>5. \A q : PairOf(q) = inv[q + 1]
  BY <1>1 DEF PairOf
<1>6. \A q : MovesOf(q) = MovesFrom(inv, d, q)
  <2>1. \A q : MovesOf(q) = {<<m[2], inv[m[3] + 1][1], inv[m[3] + 1][2]>> :
                               m \in {k \in d : k[1] = q}}
    BY <1>1 DEF MovesOf, PairOf
  <2>2. QED
    BY <2>1 DEF MovesFrom
<1>7. \A p : PairMoves(p) = PairMovesOf(A, B, p)
  BY <1>1 DEF PairMoves, PairMovesOf
<1>8. \A q \in Stored : product_storage[PairOf(q)] = q
  <2>1. ASSUME NEW q \in Nat, q < Len(inv) PROVE st[inv[q + 1]] = q
    <3>1. q + 1 \in 1 .. Len(inv) /\ (q + 1) - 1 = q
      BY <1>3, <2>1
    <3>2. QED
      BY <1>2, <3>1 DEF StoredRight
  <2>2. QED
    BY <1>1, <1>4, <1>5, <2>1
<1>9. Cardinality(DOMAIN product_storage) = Len(inverted)
  BY <1>1, <1>2, StorageCounts
<1>10. Cardinality(ToSet(product_worklist)) = Len(product_worklist)
  BY <1>1, <1>2, ListCounts
<1>11. \A q \in ToSet(product_worklist) : MovesOf(q) = {}
  <2>1. ASSUME NEW q \in ToSet(L) PROVE MovesFrom(inv, d, q) = {}
    BY <1>2 DEF MovesFrom
  <2>2. QED
    BY <1>1, <1>6, <2>1
<1>12. \A q \in Stored : MovesOf(q) \subseteq PairMoves(PairOf(q))
  <2>1. ASSUME NEW q PROVE MovesFrom(inv, d, q) \subseteq PairMovesOf(A, B, inv[q + 1])
    BY <1>2, MovesAreOfPair
  <2>2. QED
    BY <1>5, <1>6, <1>7, <2>1
<1>13. \A q \in Stored \ ToSet(product_worklist) :
         pass = "idle" \/ q # product_source => MovesOf(q) = PairMoves(PairOf(q))
  <2> SUFFICES ASSUME NEW q \in Stored \ ToSet(product_worklist),
                      pass = "idle" \/ q # product_source
               PROVE  MovesOf(q) = PairMoves(PairOf(q))
    OBVIOUS
  <2>1. IsExpanded(A, B, st, inv, L, d, src, rest, q)
    BY <1>2, <1>4
  <2>2. q \notin ToSet(L)
    BY <1>1
  <2>3. q # src \/ rest = {}
    BY <1>1 DEF Remaining
  <2>4. PairMovesOf(A, B, inv[q + 1]) \subseteq MovesFrom(inv, d, q)
    BY <1>2, <2>1, <2>2, <2>3, PairHasMoves
  <2>5. MovesFrom(inv, d, q) \subseteq PairMovesOf(A, B, inv[q + 1])
    BY <1>2, MovesAreOfPair
  <2>6. QED
    BY <1>5, <1>6, <1>7, <2>4, <2>5
<1>14. product_final = {q \in Stored : final_condition(PairOf(q)[1], PairOf(q)[2])}
  <2>1. ASSUME NEW q
        PROVE  IsFinalPair(A, B, c, inv[q + 1]) <=> final_condition(PairOf(q)[1], PairOf(q)[2])
    BY <1>1, <1>5 DEF IsFinalPair, final_condition
  <2>2. Stored = 0 .. Len(inv) - 1
    BY <1>1 DEF Stored
  <2>3. fin = {q \in 0 .. Len(inv) - 1 : IsFinalPair(A, B, c, inv[q + 1])}
    BY <1>2 DEF FinalPairs
  <2>4. QED
    BY <1>1, <2>1, <2>2, <2>3
<1>15. product_at \in {"loop", "done"} /\ inverted # << >> =>
         {PairOf(q) : q \in product_initial} = lhs.initial \X rhs.initial
  <2> SUFFICES ASSUME product_at \in {"loop", "done"}, inverted # << >>
               PROVE  {PairOf(q) : q \in product_initial} = lhs.initial \X rhs.initial
    OBVIOUS
  <2>1. InitialStored(A, B, inv, init)
    BY <1>1 DEF ProductHolds, ProductPlace
  <2>2. {inv[q + 1] : q \in init} = A.initial \X B.initial
    BY <2>1, InitialPairs
  <2>3. QED
    BY <1>1, <2>2 DEF PairOf
<1>16. QED
  BY <1>8, <1>9, <1>10, <1>11, <1>12, <1>13, <1>14, <1>15 DEF PairsExpandedOnce

(***************************************************************************)
(* The language of the product.  Without its epsilons an automaton closes  *)
(* its initial states and the targets of its moves under them.             *)
(***************************************************************************)
Closure(A, S) == ClosedUnder(A, S, Silent(A))

LEMMA ClosureIsLeast ==
  ASSUME NEW A, IsNfa(A), NEW S \in SUBSET A.states
  PROVE  Closure(A, S) \in SUBSET A.states /\ IsLeastClosed(Closure(A, S), S, Silent(A))
<1>1. IsFiniteSet(A.states) /\ IsAutomaton(A, Nat)
  BY NfaIs
<1>2. Silent(A) \subseteq A.states \X Nat \X A.states
  BY <1>1 DEF Silent, IsAutomaton
<1>3. ClosedUnder(A, S, Silent(A)) \in SUBSET A.states
  BY <1>1, <1>2, ClosedUnderIsLeast
<1>4. IsLeastClosed(ClosedUnder(A, S, Silent(A)), S, Silent(A))
  BY <1>1, <1>2, ClosedUnderIsLeast
<1>5. QED
  BY <1>3, <1>4 DEF Closure

MovesThenSilent(A, S, a, t) ==
  \E s \in S : \E u \in A.states : <<s, a, u>> \in A.delta /\ t \in Closure(A, {u})

MovesClosed(A) == UNION {{<<m[1], m[2], t>> : t \in Closure(A, {m[3]})} :
                           m \in {k \in A.delta : k[2] < first_epsilon}}

IsMoveClosed(A, x) ==
  \E m \in A.delta : m[2] < first_epsilon /\ \E t \in Closure(A, {m[3]}) : x = <<m[1], m[2], t>>

LEMMA ClosedMoves == \A A, x : x \in MovesClosed(A) <=> IsMoveClosed(A, x)
<1> SUFFICES ASSUME NEW A, NEW x PROVE x \in MovesClosed(A) <=> IsMoveClosed(A, x)
  OBVIOUS
<1>1. ASSUME x \in MovesClosed(A) PROVE IsMoveClosed(A, x)
  <2>1. PICK K \in {{<<m[1], m[2], t>> : t \in Closure(A, {m[3]})} :
                     m \in {k \in A.delta : k[2] < first_epsilon}} : x \in K
    BY <1>1 DEF MovesClosed
  <2>2. PICK m \in {k \in A.delta : k[2] < first_epsilon} :
          K = {<<m[1], m[2], t>> : t \in Closure(A, {m[3]})}
    BY <2>1
  <2>3. m \in A.delta /\ m[2] < first_epsilon
    BY <2>2
  <2>4. PICK t \in Closure(A, {m[3]}) : x = <<m[1], m[2], t>>
    BY <2>1, <2>2
  <2>5. QED
    BY <2>3, <2>4 DEF IsMoveClosed
<1>2. ASSUME IsMoveClosed(A, x) PROVE x \in MovesClosed(A)
  <2>1. PICK m \in A.delta : m[2] < first_epsilon
                             /\ \E t \in Closure(A, {m[3]}) : x = <<m[1], m[2], t>>
    BY <1>2 DEF IsMoveClosed
  <2>2. PICK K : K = {<<m[1], m[2], t>> : t \in Closure(A, {m[3]})}
    OBVIOUS
  <2>3. x \in K
    BY <2>1, <2>2
  <2>4. K \in {{<<k[1], k[2], t>> : t \in Closure(A, {k[3]})} :
                k \in {l \in A.delta : l[2] < first_epsilon}}
    BY <2>1, <2>2
  <2>5. QED
    BY <2>3, <2>4 DEF MovesClosed
<1>3. QED
  BY <1>1, <1>2

LEMMA WithoutEpsilonsIs ==
  ASSUME NEW A, IsNfa(A), NEW E, E = WithoutEpsilons(A)
  PROVE  /\ E.states = A.states /\ E.final = A.final /\ E.initial = Closure(A, A.initial)
         /\ \A S : \A a \in Nat : \A t :
              t \in Post(E, S, a) <=> a < first_epsilon /\ MovesThenSilent(A, S, a, t)
<1>6. /\ E.states = A.states /\ E.final = A.final /\ E.initial = Closure(A, A.initial)
      /\ E.delta = MovesClosed(A)
  <2>1. E = [states |-> A.states, initial |-> Closure(A, A.initial), final |-> A.final,
             delta |-> MovesClosed(A)]
    BY Zenon DEF WithoutEpsilons, Closure, MovesClosed
  <2>2. QED
    BY <2>1
<1>1. \A x : x \in E.delta <=> IsMoveClosed(A, x)
  BY <1>6, ClosedMoves
<1>2. \A m \in A.delta : m = <<m[1], m[2], m[3]>> /\ m[1] \in A.states /\ m[3] \in A.states
  <2>1. A.delta \subseteq A.states \X Nat \X A.states
    BY NfaIs DEF IsAutomaton
  <2>2. QED
    BY <2>1
<1>3. ASSUME NEW S, NEW a \in Nat, NEW t, t \in Post(E, S, a)
      PROVE  a < first_epsilon /\ MovesThenSilent(A, S, a, t)
  <2>1. PICK s \in S : <<s, a, t>> \in E.delta
    BY <1>3 DEF Post
  <2>2. PICK m \in A.delta : m[2] < first_epsilon
                             /\ \E x \in Closure(A, {m[3]}) : <<s, a, t>> = <<m[1], m[2], x>>
    BY <1>1, <2>1 DEF IsMoveClosed
  <2>3. m[1] = s /\ m[2] = a /\ t \in Closure(A, {m[3]})
    BY <2>2
  <2>4. <<s, a, m[3]>> \in A.delta /\ m[3] \in A.states
    BY <1>2, <2>3
  <2>5. QED
    BY <2>2, <2>3, <2>4 DEF MovesThenSilent
<1>4. ASSUME NEW S, NEW a \in Nat, NEW t, a < first_epsilon, MovesThenSilent(A, S, a, t)
      PROVE  t \in Post(E, S, a)
  <2>1. PICK s \in S : \E u \in A.states : <<s, a, u>> \in A.delta /\ t \in Closure(A, {u})
    BY <1>4 DEF MovesThenSilent
  <2>2. PICK u \in A.states : <<s, a, u>> \in A.delta /\ t \in Closure(A, {u})
    BY <2>1
  <2>3. PICK m \in A.delta : m = <<s, a, u>>
    BY <2>2
  <2>4. m[1] = s /\ m[2] = a /\ m[3] = u
    BY <2>3
  <2>5. \E x \in Closure(A, {m[3]}) : <<s, a, t>> = <<m[1], m[2], x>>
    BY <2>2, <2>4
  <2>6. <<s, a, t>> \in E.delta
    BY <1>1, <1>4, <2>4, <2>5 DEF IsMoveClosed
  <2>7. t \in A.states
    <3>1. {u} \in SUBSET A.states
      OBVIOUS
    <3>2. Closure(A, {u}) \in SUBSET A.states
      BY <3>1, ClosureIsLeast
    <3>3. QED
      BY <2>2, <3>2
  <2>8. QED
    BY <1>6, <2>6, <2>7 DEF Post
<1>5. QED
  BY <1>3, <1>4, <1>6

LEMMA TrivialAcceptsNothing ==
  ASSUME NEW A, IsNfa(A), Trivial(A), NEW w, Len(w) \in Nat
  PROVE  ~Accepts(WithoutEpsilons(A), w)
<1>1. PICK E : E = WithoutEpsilons(A)
  OBVIOUS
<1>2. E.states = A.states /\ E.final = A.final /\ E.initial = Closure(A, A.initial)
  BY <1>1, WithoutEpsilonsIs
<1>3. CASE A.final = {}
  BY <1>1, <1>2, <1>3 DEF Accepts
<1>4. CASE A.initial = {}
  <2>1. {} \in SUBSET A.states
    OBVIOUS
  <2>2. IsLeastClosed(Closure(A, {}), {}, Silent(A))
    BY <2>1, ClosureIsLeast
  <2>3. ClosedBy({}, Silent(A))
    BY DEF ClosedBy
  <2>4. Closure(A, {}) = {}
    BY <2>2, <2>3 DEF IsLeastClosed
  <2>5. E.initial = {}
    BY <1>2, <1>4, <2>4
  <2>6. ASSUME NEW q \in Read(E, w) PROVE FALSE
    <3>1. E.initial \in SUBSET E.states
      BY <2>5
    <3>2. PICK path : LeadsTo(E, w, Len(w), path, q)
      BY <2>6, <3>1, ReadHasRun
    <3>3. QED
      BY <2>5, <3>2 DEF LeadsTo
  <2>7. QED
    BY <1>1, <2>6 DEF Accepts
<1>5. QED
  BY <1>3, <1>4 DEF Trivial

(* The states of S are those of the pairs of X and Y.                       *)
StandFor(st, inv, S, X, Y) ==
  /\ \A k \in S : k \in Nat /\ k < Len(inv) /\ inv[k + 1][1] \in X /\ inv[k + 1][2] \in Y
  /\ \A x \in X : \A y \in Y : <<x, y>> \in DOMAIN st /\ st[<<x, y>>] \in S

(* A finished product.                                                      *)
IsProduct(A, B, st, inv, P) ==
  /\ IsNfa(A) /\ IsNfa(B) /\ StoredRight(A, B, st, inv)
  /\ IsNfa(P) /\ P.states = 0 .. Len(inv) - 1
  /\ \A m \in P.delta : IsMoveOfPairs(A, B, inv, m)
  /\ \A q \in P.states : \A v \in PairMovesOf(A, B, inv[q + 1]) : IsConnected(st, P.delta, q, v)
  /\ InitialStored(A, B, inv, P.initial)

LEMMA ProductState ==
  ASSUME NEW A, NEW B, NEW st, NEW inv, NEW P, IsProduct(A, B, st, inv, P)
  PROVE  /\ \A k : k \in P.states <=> k \in Nat /\ k < Len(inv)
         /\ \A k \in P.states :
              /\ inv[k + 1] = <<inv[k + 1][1], inv[k + 1][2]>>
              /\ inv[k + 1][1] \in A.states /\ inv[k + 1][2] \in B.states
              /\ inv[k + 1] \in DOMAIN st /\ st[inv[k + 1]] = k
         /\ \A p \in DOMAIN st : st[p] \in P.states /\ inv[st[p] + 1] = p
<1>1. inv \in Seq(A.states \X B.states) /\ P.states = 0 .. Len(inv) - 1
      /\ StoredRight(A, B, st, inv)
  BY DEF IsProduct, StoredRight
<1>2. Len(inv) \in Nat
  BY <1>1
<1>3. \A k : k \in P.states <=> k \in Nat /\ k < Len(inv)
  BY <1>1, <1>2
<1>4. ASSUME NEW k \in P.states
      PROVE  /\ inv[k + 1] = <<inv[k + 1][1], inv[k + 1][2]>>
             /\ inv[k + 1][1] \in A.states /\ inv[k + 1][2] \in B.states
             /\ inv[k + 1] \in DOMAIN st /\ st[inv[k + 1]] = k
  <2>1. k + 1 \in 1 .. Len(inv) /\ (k + 1) - 1 = k
    BY <1>2, <1>3
  <2>2. inv[k + 1] \in A.states \X B.states
    BY <1>1, <2>1
  <2>3. inv[k + 1] \in DOMAIN st /\ st[inv[k + 1]] = (k + 1) - 1
    BY <1>1, <2>1 DEF StoredRight
  <2>4. QED
    BY <2>1, <2>2, <2>3
<1>5. \A p \in DOMAIN st : st[p] \in P.states /\ inv[st[p] + 1] = p
  BY <1>1, <1>3 DEF StoredRight
<1>6. QED
  BY <1>3, <1>4, <1>5

(* A silent move of the product is one of either side.                      *)
LEMMA SilentMove ==
  ASSUME NEW A, NEW B, NEW st, NEW inv, NEW P, IsProduct(A, B, st, inv, P),
         NEW m \in Silent(P)
  PROVE  /\ m[1] \in P.states /\ m[3] \in P.states
         /\ \/ /\ <<inv[m[1] + 1][1], m[2], inv[m[3] + 1][1]>> \in Silent(A)
               /\ inv[m[3] + 1][2] = inv[m[1] + 1][2]
            \/ /\ <<inv[m[1] + 1][2], m[2], inv[m[3] + 1][2]>> \in Silent(B)
               /\ inv[m[3] + 1][1] = inv[m[1] + 1][1]
<1>1. m \in P.delta /\ m[2] >= first_epsilon
  BY DEF Silent
<1>2. IsMoveOfPairs(A, B, inv, m)
  BY <1>1 DEF IsProduct
<1>3. PICK p, r, a : p = inv[m[1] + 1] /\ r = inv[m[3] + 1] /\ a = m[2]
  OBVIOUS
<1>4. a \in Letters /\ a \in Nat /\ first_epsilon \in Nat
  BY <1>2, <1>3, JobsAssumption DEF IsMoveOfPairs
<1>5. PICK v : v = <<a, r[1], r[2]>>
  OBVIOUS
<1>6. v \in PairMovesOf(A, B, p)
  BY <1>2, <1>3, <1>5 DEF IsMoveOfPairs
<1>7. ~(v[1] < first_epsilon)
  BY <1>1, <1>3, <1>4, <1>5
<1>8. \/ <<p[1], v[1], v[2]>> \in A.delta /\ v[3] = p[2]
      \/ <<p[2], v[1], v[3]>> \in B.delta /\ v[2] = p[1]
  BY <1>6, <1>7 DEF PairMovesOf
<1>9. v[1] = a /\ v[2] = r[1] /\ v[3] = r[2]
  BY <1>5
<1>10. m[1] \in P.states /\ m[3] \in P.states
  <2>1. m[1] \in Nat /\ m[1] < Len(inv) /\ m[3] \in Nat /\ m[3] < Len(inv)
    BY <1>2 DEF IsMoveOfPairs
  <2>2. QED
    BY <2>1, ProductState
<1>11. ASSUME <<p[1], a, r[1]>> \in A.delta PROVE <<p[1], a, r[1]>> \in Silent(A)
  BY <1>1, <1>3, <1>11 DEF Silent
<1>12. ASSUME <<p[2], a, r[2]>> \in B.delta PROVE <<p[2], a, r[2]>> \in Silent(B)
  BY <1>1, <1>3, <1>12 DEF Silent
<1>13. \/ <<p[1], a, r[1]>> \in Silent(A) /\ r[2] = p[2]
       \/ <<p[2], a, r[2]>> \in Silent(B) /\ r[1] = p[1]
  BY <1>8, <1>9, <1>11, <1>12
<1>14. QED
  BY <1>3, <1>10, <1>13

LEMMA SilentOfProduct ==
  ASSUME NEW A, NEW B, NEW st, NEW inv, NEW P, IsProduct(A, B, st, inv, P),
         NEW x, NEW y, <<x, y>> \in DOMAIN st
  PROVE  /\ \A m \in Silent(A) : m[1] = x =>
              /\ <<m[3], y>> \in DOMAIN st
              /\ <<st[<<x, y>>], m[2], st[<<m[3], y>>]>> \in Silent(P)
         /\ \A m \in Silent(B) : m[1] = y =>
              /\ <<x, m[3]>> \in DOMAIN st
              /\ <<st[<<x, y>>], m[2], st[<<x, m[3]>>]>> \in Silent(P)
<1>1. PICK q : q = st[<<x, y>>]
  OBVIOUS
<1>2. q \in P.states /\ inv[q + 1] = <<x, y>>
  BY <1>1, ProductState
<1>3. x \in A.states /\ y \in B.states
  <2>1. inv[q + 1][1] \in A.states /\ inv[q + 1][2] \in B.states
    BY <1>2, ProductState
  <2>2. QED
    BY <1>2, <2>1
<1>4. A.delta \subseteq A.states \X Letters \X A.states
  BY NfaIs DEF IsProduct
<1>5. B.delta \subseteq B.states \X Letters \X B.states
  BY NfaIs DEF IsProduct
<1>6. ASSUME NEW v \in PairMovesOf(A, B, <<x, y>>), v[1] >= first_epsilon
      PROVE  <<v[2], v[3]>> \in DOMAIN st /\ <<q, v[1], st[<<v[2], v[3]>>]>> \in Silent(P)
  <2>1. IsConnected(st, P.delta, q, v)
    BY <1>2, <1>6 DEF IsProduct
  <2>2. PICK m : m = <<q, v[1], st[<<v[2], v[3]>>]>>
    OBVIOUS
  <2>3. m \in P.delta /\ <<v[2], v[3]>> \in DOMAIN st
    BY <2>1, <2>2 DEF IsConnected
  <2>4. m[2] >= first_epsilon
    BY <1>6, <2>2
  <2>5. QED
    BY <2>2, <2>3, <2>4 DEF Silent
<1>7. ASSUME NEW m \in Silent(A), m[1] = x
      PROVE  <<m[3], y>> \in DOMAIN st /\ <<q, m[2], st[<<m[3], y>>]>> \in Silent(P)
  <2>1. m \in A.delta /\ m[2] >= first_epsilon
    BY DEF Silent
  <2>2. m = <<x, m[2], m[3]>> /\ m[2] \in Letters /\ m[3] \in A.states
    BY <1>4, <1>7, <2>1
  <2>3. m[2] \in Nat /\ first_epsilon \in Nat
    BY <2>2, JobsAssumption
  <2>4. PICK v : v = <<m[2], m[3], y>>
    OBVIOUS
  <2>5. v[1] = m[2] /\ v[2] = m[3] /\ v[3] = y
    BY <2>4
  <2>6. v \in PairMovesOf(A, B, <<x, y>>)
    <3>1. ~(v[1] < first_epsilon)
      BY <2>1, <2>3, <2>5
    <3>2. <<x, v[1], v[2]>> \in A.delta
      BY <2>1, <2>2, <2>5
    <3>3. v \in Letters \X A.states \X B.states
      BY <1>3, <2>2, <2>4
    <3>4. QED
      BY <2>5, <3>1, <3>2, <3>3 DEF PairMovesOf
  <2>7. v[1] >= first_epsilon
    BY <2>1, <2>5
  <2>8. <<v[2], v[3]>> \in DOMAIN st /\ <<q, v[1], st[<<v[2], v[3]>>]>> \in Silent(P)
    BY <1>6, <2>6, <2>7
  <2>9. QED
    BY <2>5, <2>8
<1>8. ASSUME NEW m \in Silent(B), m[1] = y
      PROVE  <<x, m[3]>> \in DOMAIN st /\ <<q, m[2], st[<<x, m[3]>>]>> \in Silent(P)
  <2>1. m \in B.delta /\ m[2] >= first_epsilon
    BY DEF Silent
  <2>2. m = <<y, m[2], m[3]>> /\ m[2] \in Letters /\ m[3] \in B.states
    BY <1>5, <1>8, <2>1
  <2>3. m[2] \in Nat /\ first_epsilon \in Nat
    BY <2>2, JobsAssumption
  <2>4. PICK v : v = <<m[2], x, m[3]>>
    OBVIOUS
  <2>5. v[1] = m[2] /\ v[2] = x /\ v[3] = m[3]
    BY <2>4
  <2>6. v \in PairMovesOf(A, B, <<x, y>>)
    <3>1. ~(v[1] < first_epsilon)
      BY <2>1, <2>3, <2>5
    <3>2. <<y, v[1], v[3]>> \in B.delta
      BY <2>1, <2>2, <2>5
    <3>3. v \in Letters \X A.states \X B.states
      BY <1>3, <2>2, <2>4
    <3>4. QED
      BY <2>5, <3>1, <3>2, <3>3 DEF PairMovesOf
  <2>7. v[1] >= first_epsilon
    BY <2>1, <2>5
  <2>8. <<v[2], v[3]>> \in DOMAIN st /\ <<q, v[1], st[<<v[2], v[3]>>]>> \in Silent(P)
    BY <1>6, <2>6, <2>7
  <2>9. QED
    BY <2>5, <2>8
<1>9. QED
  BY <1>1, <1>7, <1>8

(* The closure of the states of pairs are the states of pairs of closures.  *)
LEMMA ClosuresStandFor ==
  ASSUME NEW A, NEW B, NEW st, NEW inv, NEW P, IsProduct(A, B, st, inv, P),
         NEW S \in SUBSET P.states, NEW X \in SUBSET A.states, NEW Y \in SUBSET B.states,
         StandFor(st, inv, S, X, Y)
  PROVE  StandFor(st, inv, Closure(P, S), Closure(A, X), Closure(B, Y))
<1>1. PICK C, D, F : C = Closure(P, S) /\ D = Closure(A, X) /\ F = Closure(B, Y)
  OBVIOUS
<1>2. IsLeastClosed(C, S, Silent(P)) /\ C \in SUBSET P.states
  BY <1>1, ClosureIsLeast DEF IsProduct
<1>3. IsLeastClosed(D, X, Silent(A))
  BY <1>1, ClosureIsLeast DEF IsProduct
<1>4. IsLeastClosed(F, Y, Silent(B))
  BY <1>1, ClosureIsLeast DEF IsProduct
<1>5. X \subseteq D /\ Y \subseteq F /\ S \subseteq C
  BY <1>2, <1>3, <1>4 DEF IsLeastClosed
<1>6. ASSUME NEW k \in C PROVE inv[k + 1][1] \in D /\ inv[k + 1][2] \in F
  <2>1. PICK K : K = {j \in P.states : inv[j + 1][1] \in D /\ inv[j + 1][2] \in F}
    OBVIOUS
  <2>2. S \subseteq K
    BY <1>5, <2>1 DEF StandFor
  <2>3. ClosedBy(K, Silent(P))
    <3>1. ASSUME NEW m \in Silent(P), m[1] \in K PROVE m[3] \in K
      <4>1. inv[m[1] + 1][1] \in D /\ inv[m[1] + 1][2] \in F
        BY <2>1, <3>1
      <4>2. m[3] \in P.states
        BY SilentMove
      <4>3. CASE /\ <<inv[m[1] + 1][1], m[2], inv[m[3] + 1][1]>> \in Silent(A)
                 /\ inv[m[3] + 1][2] = inv[m[1] + 1][2]
        <5>1. PICK n \in Silent(A) : n = <<inv[m[1] + 1][1], m[2], inv[m[3] + 1][1]>>
          BY <4>3
        <5>2. n[1] = inv[m[1] + 1][1] /\ n[3] = inv[m[3] + 1][1]
          BY <5>1
        <5>3. inv[m[3] + 1][1] \in D
          BY <1>3, <4>1, <5>2 DEF IsLeastClosed, ClosedBy
        <5>4. QED
          BY <2>1, <4>1, <4>2, <4>3, <5>3
      <4>4. CASE /\ <<inv[m[1] + 1][2], m[2], inv[m[3] + 1][2]>> \in Silent(B)
                 /\ inv[m[3] + 1][1] = inv[m[1] + 1][1]
        <5>1. PICK n \in Silent(B) : n = <<inv[m[1] + 1][2], m[2], inv[m[3] + 1][2]>>
          BY <4>4
        <5>2. n[1] = inv[m[1] + 1][2] /\ n[3] = inv[m[3] + 1][2]
          BY <5>1
        <5>3. inv[m[3] + 1][2] \in F
          BY <1>4, <4>1, <5>2 DEF IsLeastClosed, ClosedBy
        <5>4. QED
          BY <2>1, <4>1, <4>2, <4>4, <5>3
      <4>5. QED
        BY <4>3, <4>4, SilentMove
    <3>2. QED
      BY <3>1 DEF ClosedBy
  <2>4. C \subseteq K
    BY <1>2, <2>2, <2>3 DEF IsLeastClosed
  <2>5. QED
    BY <2>1, <2>4
<1>7. ASSUME NEW y \in Y, NEW x \in D PROVE <<x, y>> \in DOMAIN st /\ st[<<x, y>>] \in C
  <2>1. PICK K : K = {z \in D : <<z, y>> \in DOMAIN st /\ st[<<z, y>>] \in C}
    OBVIOUS
  <2>2. X \subseteq K
    BY <1>5, <2>1 DEF StandFor
  <2>3. ClosedBy(K, Silent(A))
    <3>1. ASSUME NEW m \in Silent(A), m[1] \in K PROVE m[3] \in K
      <4>1. m[1] \in D /\ <<m[1], y>> \in DOMAIN st /\ st[<<m[1], y>>] \in C
        BY <2>1, <3>1
      <4>2. <<m[3], y>> \in DOMAIN st /\ <<st[<<m[1], y>>], m[2], st[<<m[3], y>>]>> \in Silent(P)
        BY <4>1, SilentOfProduct
      <4>3. PICK n \in Silent(P) : n = <<st[<<m[1], y>>], m[2], st[<<m[3], y>>]>>
        BY <4>2
      <4>4. n[1] = st[<<m[1], y>>] /\ n[3] = st[<<m[3], y>>]
        BY <4>3
      <4>5. st[<<m[3], y>>] \in C
        BY <1>2, <4>1, <4>4 DEF IsLeastClosed, ClosedBy
      <4>6. m[3] \in D
        BY <1>3, <4>1 DEF IsLeastClosed, ClosedBy
      <4>7. QED
        BY <2>1, <4>2, <4>5, <4>6
    <3>2. QED
      BY <3>1 DEF ClosedBy
  <2>4. D \subseteq K
    BY <1>3, <2>2, <2>3 DEF IsLeastClosed
  <2>5. QED
    BY <2>1, <2>4
<1>8. ASSUME NEW x \in D, NEW y \in F PROVE <<x, y>> \in DOMAIN st /\ st[<<x, y>>] \in C
  <2>1. PICK K : K = {z \in F : <<x, z>> \in DOMAIN st /\ st[<<x, z>>] \in C}
    OBVIOUS
  <2>2. Y \subseteq K
    BY <1>5, <1>7, <2>1
  <2>3. ClosedBy(K, Silent(B))
    <3>1. ASSUME NEW m \in Silent(B), m[1] \in K PROVE m[3] \in K
      <4>1. m[1] \in F /\ <<x, m[1]>> \in DOMAIN st /\ st[<<x, m[1]>>] \in C
        BY <2>1, <3>1
      <4>2. <<x, m[3]>> \in DOMAIN st /\ <<st[<<x, m[1]>>], m[2], st[<<x, m[3]>>]>> \in Silent(P)
        BY <4>1, SilentOfProduct
      <4>3. PICK n \in Silent(P) : n = <<st[<<x, m[1]>>], m[2], st[<<x, m[3]>>]>>
        BY <4>2
      <4>4. n[1] = st[<<x, m[1]>>] /\ n[3] = st[<<x, m[3]>>]
        BY <4>3
      <4>5. st[<<x, m[3]>>] \in C
        BY <1>2, <4>1, <4>4 DEF IsLeastClosed, ClosedBy
      <4>6. m[3] \in F
        BY <1>4, <4>1 DEF IsLeastClosed, ClosedBy
      <4>7. QED
        BY <2>1, <4>2, <4>5, <4>6
    <3>2. QED
      BY <3>1 DEF ClosedBy
  <2>4. F \subseteq K
    BY <1>4, <2>2, <2>3 DEF IsLeastClosed
  <2>5. QED
    BY <2>1, <2>4
<1>9. \A k \in C : k \in Nat /\ k < Len(inv)
  BY <1>2, ProductState
<1>10. StandFor(st, inv, C, D, F)
  BY <1>6, <1>8, <1>9 DEF StandFor
<1>11. QED
  BY <1>1, <1>10

(* A product state alone stands for its pair alone.                         *)
LEMMA OneStandsFor ==
  ASSUME NEW A, NEW B, NEW st, NEW inv, NEW P, IsProduct(A, B, st, inv, P),
         NEW u \in P.states, NEW x, NEW y, inv[u + 1] = <<x, y>>
  PROVE  /\ StandFor(st, inv, {u}, {x}, {y})
         /\ {u} \in SUBSET P.states /\ {x} \in SUBSET A.states /\ {y} \in SUBSET B.states
<1>1. u \in Nat /\ u < Len(inv)
  BY ProductState
<1>2. inv[u + 1][1] = x /\ inv[u + 1][2] = y
  OBVIOUS
<1>3. x \in A.states /\ y \in B.states
  BY <1>2, ProductState
<1>4. <<x, y>> \in DOMAIN st /\ st[<<x, y>>] = u
  BY ProductState
<1>5. StandFor(st, inv, {u}, {x}, {y})
  BY <1>1, <1>2, <1>4 DEF StandFor
<1>6. QED
  BY <1>3, <1>5

LEMMA StepsStandFor ==
  ASSUME NEW A, NEW B, NEW st, NEW inv, NEW P, IsProduct(A, B, st, inv, P),
         NEW S, NEW X, NEW Y, StandFor(st, inv, S, X, Y), NEW a \in Letters,
         NEW PE, PE = WithoutEpsilons(P), NEW AE, AE = WithoutEpsilons(A),
         NEW BE, BE = WithoutEpsilons(B)
  PROVE  StandFor(st, inv, Post(PE, S, a), Post(AE, X, a), Post(BE, Y, a))
<1>1. IsNfa(A) /\ IsNfa(B) /\ IsNfa(P)
  BY DEF IsProduct
<1>2. a \in Nat
  BY JobsAssumption
<1>3. \A t : t \in Post(PE, S, a) <=> a < first_epsilon /\ MovesThenSilent(P, S, a, t)
  BY <1>1, <1>2, WithoutEpsilonsIs
<1>4. \A t : t \in Post(AE, X, a) <=> a < first_epsilon /\ MovesThenSilent(A, X, a, t)
  BY <1>1, <1>2, WithoutEpsilonsIs
<1>5. \A t : t \in Post(BE, Y, a) <=> a < first_epsilon /\ MovesThenSilent(B, Y, a, t)
  BY <1>1, <1>2, WithoutEpsilonsIs
<1>6. ASSUME NEW k \in Post(PE, S, a)
      PROVE  /\ k \in Nat /\ k < Len(inv)
             /\ inv[k + 1][1] \in Post(AE, X, a) /\ inv[k + 1][2] \in Post(BE, Y, a)
  <2>1. a < first_epsilon /\ MovesThenSilent(P, S, a, k)
    BY <1>3, <1>6
  <2>2. PICK s \in S : \E u \in P.states : <<s, a, u>> \in P.delta /\ k \in Closure(P, {u})
    BY <2>1 DEF MovesThenSilent
  <2>3. PICK u \in P.states : <<s, a, u>> \in P.delta /\ k \in Closure(P, {u})
    BY <2>2
  <2>4. PICK m \in P.delta : m = <<s, a, u>>
    BY <2>3
  <2>5. m[1] = s /\ m[2] = a /\ m[3] = u
    BY <2>4
  <2>6. PICK p, r : p = inv[s + 1] /\ r = inv[u + 1]
    OBVIOUS
  <2>7. <<a, r[1], r[2]>> \in PairMovesOf(A, B, p)
    <3>1. IsMoveOfPairs(A, B, inv, m)
      BY DEF IsProduct
    <3>2. QED
      BY <2>5, <2>6, <3>1 DEF IsMoveOfPairs
  <2>8. <<p[1], a, r[1]>> \in A.delta /\ <<p[2], a, r[2]>> \in B.delta
    <3>1. PICK v : v = <<a, r[1], r[2]>>
      OBVIOUS
    <3>2. v \in PairMovesOf(A, B, p) /\ v[1] = a /\ v[2] = r[1] /\ v[3] = r[2]
      BY <2>7, <3>1
    <3>3. QED
      BY <2>1, <3>2 DEF PairMovesOf
  <2>9. p[1] \in X /\ p[2] \in Y
    BY <2>6 DEF StandFor
  <2>10. r = <<r[1], r[2]>> /\ r[1] \in A.states /\ r[2] \in B.states
    BY <2>6, ProductState
  <2>11. /\ StandFor(st, inv, {u}, {r[1]}, {r[2]})
         /\ {u} \in SUBSET P.states /\ {r[1]} \in SUBSET A.states /\ {r[2]} \in SUBSET B.states
    <3>1. PICK x, y : x = r[1] /\ y = r[2]
      OBVIOUS
    <3>2. inv[u + 1] = <<x, y>>
      BY <2>6, <2>10, <3>1
    <3>3. /\ StandFor(st, inv, {u}, {x}, {y})
          /\ {u} \in SUBSET P.states /\ {x} \in SUBSET A.states /\ {y} \in SUBSET B.states
      BY <3>2, OneStandsFor
    <3>4. QED
      BY <3>1, <3>3
  <2>12. StandFor(st, inv, Closure(P, {u}), Closure(A, {r[1]}), Closure(B, {r[2]}))
    BY <2>11, ClosuresStandFor
  <2>13. /\ k \in Nat /\ k < Len(inv)
         /\ inv[k + 1][1] \in Closure(A, {r[1]}) /\ inv[k + 1][2] \in Closure(B, {r[2]})
    BY <2>3, <2>12 DEF StandFor
  <2>14. MovesThenSilent(A, X, a, inv[k + 1][1])
    BY <2>8, <2>9, <2>10, <2>13 DEF MovesThenSilent
  <2>15. MovesThenSilent(B, Y, a, inv[k + 1][2])
    BY <2>8, <2>9, <2>10, <2>13 DEF MovesThenSilent
  <2>16. QED
    BY <1>4, <1>5, <2>1, <2>13, <2>14, <2>15
<1>7. ASSUME NEW x \in Post(AE, X, a), NEW y \in Post(BE, Y, a)
      PROVE  <<x, y>> \in DOMAIN st /\ st[<<x, y>>] \in Post(PE, S, a)
  <2>1. a < first_epsilon /\ MovesThenSilent(A, X, a, x)
    BY <1>4, <1>7
  <2>2. MovesThenSilent(B, Y, a, y)
    BY <1>5, <1>7
  <2>3. PICK s \in X : \E u \in A.states : <<s, a, u>> \in A.delta /\ x \in Closure(A, {u})
    BY <2>1 DEF MovesThenSilent
  <2>4. PICK u \in A.states : <<s, a, u>> \in A.delta /\ x \in Closure(A, {u})
    BY <2>3
  <2>5. PICK t \in Y : \E z \in B.states : <<t, a, z>> \in B.delta /\ y \in Closure(B, {z})
    BY <2>2 DEF MovesThenSilent
  <2>6. PICK z \in B.states : <<t, a, z>> \in B.delta /\ y \in Closure(B, {z})
    BY <2>5
  <2>7. <<s, t>> \in DOMAIN st /\ st[<<s, t>>] \in S
    BY DEF StandFor
  <2>8. PICK q : q = st[<<s, t>>]
    OBVIOUS
  <2>9. q \in S /\ q \in P.states /\ inv[q + 1] = <<s, t>>
    BY <2>7, <2>8, ProductState
  <2>10. PICK v : v = <<a, u, z>>
    OBVIOUS
  <2>11. v[1] = a /\ v[2] = u /\ v[3] = z
    BY <2>10
  <2>12. v \in PairMovesOf(A, B, <<s, t>>)
    <3>1. v \in Letters \X A.states \X B.states
      BY <2>10
    <3>2. QED
      BY <2>1, <2>4, <2>6, <2>11, <3>1 DEF PairMovesOf
  <2>13. IsConnected(st, P.delta, q, v)
    BY <2>9, <2>12 DEF IsProduct
  <2>14. PICK j : j = st[<<u, z>>]
    OBVIOUS
  <2>15. <<u, z>> \in DOMAIN st /\ <<q, a, j>> \in P.delta
    BY <2>11, <2>13, <2>14 DEF IsConnected
  <2>16. j \in P.states /\ inv[j + 1] = <<u, z>>
    BY <2>14, <2>15, ProductState
  <2>17. /\ StandFor(st, inv, {j}, {u}, {z})
         /\ {j} \in SUBSET P.states /\ {u} \in SUBSET A.states /\ {z} \in SUBSET B.states
    BY <2>16, OneStandsFor
  <2>18. StandFor(st, inv, Closure(P, {j}), Closure(A, {u}), Closure(B, {z}))
    BY <2>17, ClosuresStandFor
  <2>19. <<x, y>> \in DOMAIN st /\ st[<<x, y>>] \in Closure(P, {j})
    BY <2>4, <2>6, <2>18 DEF StandFor
  <2>20. MovesThenSilent(P, S, a, st[<<x, y>>])
    BY <2>9, <2>15, <2>16, <2>19 DEF MovesThenSilent
  <2>21. QED
    BY <1>3, <2>1, <2>19, <2>20
<1>8. QED
  BY <1>6, <1>7 DEF StandFor

LEMMA WithoutEpsilonsInside ==
  ASSUME NEW A, IsNfa(A), NEW E, E = WithoutEpsilons(A)
  PROVE  E.initial \in SUBSET E.states
<1>1. E.states = A.states /\ E.initial = Closure(A, A.initial)
  BY WithoutEpsilonsIs
<1>2. A.initial \in SUBSET A.states
  BY NfaIs DEF IsAutomaton
<1>3. QED
  BY <1>1, <1>2, ClosureIsLeast

LEMMA ReadStandsFor ==
  ASSUME NEW A, NEW B, NEW st, NEW inv, NEW P, IsProduct(A, B, st, inv, P),
         NEW PE, PE = WithoutEpsilons(P), NEW AE, AE = WithoutEpsilons(A),
         NEW BE, BE = WithoutEpsilons(B), NEW w \in Seq(Letters)
  PROVE  StandFor(st, inv, Read(PE, w), Read(AE, w), Read(BE, w))
<1>1. Len(w) \in Nat /\ \A n \in 1 .. Len(w) : w[n] \in Letters
  OBVIOUS
<1>2. IsNfa(A) /\ IsNfa(B) /\ IsNfa(P)
  BY DEF IsProduct
<1>3. PE.initial \in SUBSET PE.states
  BY <1>2, WithoutEpsilonsInside
<1>4. AE.initial \in SUBSET AE.states
  BY <1>2, WithoutEpsilonsInside
<1>5. BE.initial \in SUBSET BE.states
  BY <1>2, WithoutEpsilonsInside
<1>6. PICK f : IsReading(PE, PE.initial, w, f) /\ Read(PE, w) = f[Len(w)]
  BY <1>1, <1>3, ReadExists
<1>7. PICK g : IsReading(AE, AE.initial, w, g) /\ Read(AE, w) = g[Len(w)]
  BY <1>1, <1>4, ReadExists
<1>8. PICK h : IsReading(BE, BE.initial, w, h) /\ Read(BE, w) = h[Len(w)]
  BY <1>1, <1>5, ReadExists
<1>9. StandFor(st, inv, PE.initial, AE.initial, BE.initial)
  <2>1. P.initial \in SUBSET P.states /\ A.initial \in SUBSET A.states
        /\ B.initial \in SUBSET B.states
    BY <1>2, NfaIs DEF IsAutomaton
  <2>2. StandFor(st, inv, P.initial, A.initial, B.initial)
    <3>1. InitialStored(A, B, inv, P.initial)
      BY DEF IsProduct
    <3>2. ASSUME NEW x \in A.initial, NEW y \in B.initial
          PROVE  <<x, y>> \in DOMAIN st /\ st[<<x, y>>] \in P.initial
      <4>1. PICK q \in P.initial : inv[q + 1] = <<x, y>>
        BY <3>1 DEF InitialStored
      <4>2. q \in P.states
        BY <2>1
      <4>3. inv[q + 1] \in DOMAIN st /\ st[inv[q + 1]] = q
        BY <4>2, ProductState
      <4>4. QED
        BY <4>1, <4>3
    <3>3. \A k \in P.initial : /\ k \in Nat /\ k < Len(inv)
                               /\ inv[k + 1][1] \in A.initial /\ inv[k + 1][2] \in B.initial
      BY <3>1 DEF InitialStored
    <3>4. QED
      BY <3>2, <3>3 DEF StandFor
  <2>3. StandFor(st, inv, Closure(P, P.initial), Closure(A, A.initial), Closure(B, B.initial))
    BY <2>1, <2>2, ClosuresStandFor
  <2>4. PE.initial = Closure(P, P.initial)
    BY <1>2, WithoutEpsilonsIs
  <2>5. AE.initial = Closure(A, A.initial)
    BY <1>2, WithoutEpsilonsIs
  <2>6. BE.initial = Closure(B, B.initial)
    BY <1>2, WithoutEpsilonsIs
  <2>7. QED
    BY <2>3, <2>4, <2>5, <2>6
<1> DEFINE T == {n \in Nat : n <= Len(w) => StandFor(st, inv, f[n], g[n], h[n])}
<1>10. 0 \in T
  <2>1. f[0] = PE.initial /\ g[0] = AE.initial /\ h[0] = BE.initial
    BY <1>6, <1>7, <1>8 DEF IsReading
  <2>2. QED
    BY <1>9, <2>1
<1>11. ASSUME NEW n \in Nat, n \in T PROVE n + 1 \in T
  <2> SUFFICES ASSUME n + 1 <= Len(w)
               PROVE  StandFor(st, inv, f[n + 1], g[n + 1], h[n + 1])
    OBVIOUS
  <2>1. n + 1 \in 1 .. Len(w) /\ (n + 1) - 1 = n /\ n <= Len(w)
    BY <1>1
  <2>2. PICK a \in Letters : a = w[n + 1]
    BY <1>1, <2>1
  <2>3. f[n + 1] = Post(PE, f[n], a)
    BY <1>6, <2>1, <2>2 DEF IsReading
  <2>4. g[n + 1] = Post(AE, g[n], a)
    BY <1>7, <2>1, <2>2 DEF IsReading
  <2>5. h[n + 1] = Post(BE, h[n], a)
    BY <1>8, <2>1, <2>2 DEF IsReading
  <2>6. StandFor(st, inv, f[n], g[n], h[n])
    BY <1>11, <2>1
  <2>7. StandFor(st, inv, Post(PE, f[n], a), Post(AE, g[n], a), Post(BE, h[n], a))
    BY <2>6, StepsStandFor
  <2>8. QED
    BY <2>3, <2>4, <2>5, <2>7
<1>12. Nat \subseteq T
  <2> HIDE DEF T
  <2>1. QED
    BY <1>10, <1>11, SetInduction
<1>13. StandFor(st, inv, f[Len(w)], g[Len(w)], h[Len(w)])
  <2>1. Len(w) \in T
    BY <1>1, <1>12
  <2>2. QED
    BY <1>1, <2>1
<1>14. QED
  BY <1>6, <1>7, <1>8, <1>13

AcceptsAs(PE, AE, BE, c, w) ==
  Accepts(PE, w) <=> IF c = "And" THEN Accepts(AE, w) /\ Accepts(BE, w)
                                  ELSE Accepts(AE, w) \/ Accepts(BE, w)

LEMMA ProductAcceptsAs ==
  ASSUME NEW A, NEW B, NEW st, NEW inv, NEW P, IsProduct(A, B, st, inv, P),
         NEW PE, PE = WithoutEpsilons(P), NEW AE, AE = WithoutEpsilons(A),
         NEW BE, BE = WithoutEpsilons(B), NEW w \in Seq(Letters),
         NEW c \in {"And", "Or"}, P.final = FinalPairs(A, B, c, inv),
         c = "Or" => Read(AE, w) # {} /\ Read(BE, w) # {}
  PROVE  AcceptsAs(PE, AE, BE, c, w)
<1>1. PICK S, X, Y : S = Read(PE, w) /\ X = Read(AE, w) /\ Y = Read(BE, w)
  OBVIOUS
<1>2. StandFor(st, inv, S, X, Y)
  BY <1>1, ReadStandsFor
<1>3. IsNfa(A) /\ IsNfa(B) /\ IsNfa(P)
  BY DEF IsProduct
<1>4. PE.final = P.final
  BY <1>3, WithoutEpsilonsIs
<1>5. AE.final = A.final
  BY <1>3, WithoutEpsilonsIs
<1>6. BE.final = B.final
  BY <1>3, WithoutEpsilonsIs
<1>7. \A k : k \in P.final <=> k \in P.states /\ IsFinalPair(A, B, c, inv[k + 1])
  BY DEF FinalPairs, IsProduct
<1>8. ASSUME NEW k \in S, k \in P.final
      PROVE  /\ inv[k + 1][1] \in X /\ inv[k + 1][2] \in Y
             /\ IsFinalPair(A, B, c, inv[k + 1])
  BY <1>2, <1>7, <1>8 DEF StandFor
<1>9. ASSUME NEW x \in X, NEW y \in Y, IsFinalPair(A, B, c, <<x, y>>)
      PROVE  \E k \in S : k \in P.final
  <2>1. <<x, y>> \in DOMAIN st /\ st[<<x, y>>] \in S
    BY <1>2 DEF StandFor
  <2>2. PICK k : k = st[<<x, y>>]
    OBVIOUS
  <2>3. k \in P.states /\ inv[k + 1] = <<x, y>>
    <3>1. PICK p : p = <<x, y>>
      OBVIOUS
    <3>2. p \in DOMAIN st /\ k = st[p]
      BY <2>1, <2>2, <3>1
    <3>3. k \in P.states /\ inv[k + 1] = p
      BY <3>2, ProductState
    <3>4. QED
      BY <3>1, <3>3
  <2>4. QED
    BY <1>7, <1>9, <2>1, <2>2, <2>3
<1>10. /\ Accepts(PE, w) <=> \E k \in S : k \in P.final
       /\ Accepts(AE, w) <=> \E x \in X : x \in A.final
       /\ Accepts(BE, w) <=> \E y \in Y : y \in B.final
  BY <1>1, <1>4, <1>5, <1>6 DEF Accepts
<1>11. CASE c = "And"
  <2>1. \A p : IsFinalPair(A, B, c, p) <=> p[1] \in A.final /\ p[2] \in B.final
    BY <1>11 DEF IsFinalPair
  <2>2. ASSUME Accepts(PE, w) PROVE Accepts(AE, w) /\ Accepts(BE, w)
    BY <1>8, <1>10, <2>1, <2>2
  <2>3. ASSUME Accepts(AE, w), Accepts(BE, w) PROVE Accepts(PE, w)
    <3>1. PICK x \in X : x \in A.final
      BY <1>10, <2>3
    <3>2. PICK y \in Y : y \in B.final
      BY <1>10, <2>3
    <3>3. IsFinalPair(A, B, c, <<x, y>>)
      BY <2>1, <3>1, <3>2
    <3>4. QED
      BY <1>9, <1>10, <3>3
  <2>4. QED
    BY <1>11, <2>2, <2>3 DEF AcceptsAs
<1>12. CASE c = "Or"
  <2>1. \A p : IsFinalPair(A, B, c, p) <=> p[1] \in A.final \/ p[2] \in B.final
    BY <1>12 DEF IsFinalPair
  <2>2. ASSUME Accepts(PE, w) PROVE Accepts(AE, w) \/ Accepts(BE, w)
    BY <1>8, <1>10, <2>1, <2>2
  <2>3. PICK u \in X, z \in Y : TRUE
    BY <1>1, <1>12
  <2>4. ASSUME Accepts(AE, w) PROVE Accepts(PE, w)
    <3>1. PICK x \in X : x \in A.final
      BY <1>10, <2>4
    <3>2. IsFinalPair(A, B, c, <<x, z>>)
      BY <2>1, <3>1
    <3>3. QED
      BY <1>9, <1>10, <2>3, <3>2
  <2>5. ASSUME Accepts(BE, w) PROVE Accepts(PE, w)
    <3>1. PICK y \in Y : y \in B.final
      BY <1>10, <2>5
    <3>2. IsFinalPair(A, B, c, <<u, y>>)
      BY <2>1, <3>1
    <3>3. QED
      BY <1>9, <1>10, <2>3, <3>2
  <2>6. c # "And"
    BY <1>12
  <2>7. QED
    BY <2>2, <2>4, <2>5, <2>6 DEF AcceptsAs
<1>13. QED
  BY <1>11, <1>12

(* A complete automaton reads every word to its end.                        *)
LEMMA CompleteReads ==
  ASSUME NEW A, IsNfa(A), NEW symbols \in SUBSET Letters, IsCompleteDeterministic(A, symbols),
         \A a \in symbols : a < first_epsilon,
         NEW E, E = WithoutEpsilons(A), NEW w \in Seq(symbols)
  PROVE  Read(E, w) # {}
<1>1. Len(w) \in Nat /\ \A n \in 1 .. Len(w) : w[n] \in symbols
  OBVIOUS
<1>2. E.initial \in SUBSET E.states
  BY WithoutEpsilonsInside
<1>3. E.states = A.states /\ E.initial = Closure(A, A.initial)
  BY WithoutEpsilonsIs
<1>4. PICK f : IsReading(E, E.initial, w, f) /\ Read(E, w) = f[Len(w)]
  BY <1>1, <1>2, ReadExists
<1>5. E.initial # {}
  <2>1. PICK q \in A.states : A.initial = {q}
    BY DEF IsCompleteDeterministic
  <2>2. A.initial \in SUBSET A.states
    BY <2>1
  <2>3. IsLeastClosed(Closure(A, A.initial), A.initial, Silent(A))
    BY <2>2, ClosureIsLeast
  <2>4. QED
    BY <1>3, <2>1, <2>3 DEF IsLeastClosed
<1>6. ASSUME NEW S \in SUBSET A.states, S # {}, NEW a \in symbols PROVE Post(E, S, a) # {}
  <2>1. PICK q \in S : q \in A.states
    BY <1>6
  <2>2. PICK t \in A.states : {m \in A.delta : m[1] = q /\ m[2] = a} = {<<q, a, t>>}
    BY <2>1 DEF IsCompleteDeterministic
  <2>3. <<q, a, t>> \in A.delta
    BY <2>2
  <2>4. {t} \in SUBSET A.states
    OBVIOUS
  <2>5. IsLeastClosed(Closure(A, {t}), {t}, Silent(A))
    BY <2>4, ClosureIsLeast
  <2>6. t \in Closure(A, {t})
    BY <2>5 DEF IsLeastClosed
  <2>7. MovesThenSilent(A, S, a, t)
    BY <2>3, <2>6 DEF MovesThenSilent
  <2>8. a \in Nat
    BY JobsAssumption
  <2>9. t \in Post(E, S, a)
    BY <2>7, <2>8, WithoutEpsilonsIs
  <2>10. QED
    BY <2>9
<1> DEFINE T == {n \in Nat : n <= Len(w) => f[n] # {}}
<1>7. 0 \in T
  BY <1>4, <1>5 DEF IsReading
<1>8. ASSUME NEW n \in Nat, n \in T PROVE n + 1 \in T
  <2> SUFFICES ASSUME n + 1 <= Len(w) PROVE f[n + 1] # {}
    OBVIOUS
  <2>1. n + 1 \in 1 .. Len(w) /\ (n + 1) - 1 = n /\ n <= Len(w) /\ n \in 0 .. Len(w)
    BY <1>1
  <2>2. PICK a \in symbols : a = w[n + 1]
    BY <1>1, <2>1
  <2>3. f[n + 1] = Post(E, f[n], a)
    BY <1>4, <2>1, <2>2 DEF IsReading
  <2>4. f[n] \in SUBSET A.states
    BY <1>3, <1>4, <2>1 DEF IsReading
  <2>5. f[n] # {}
    BY <1>8, <2>1
  <2>6. QED
    BY <1>6, <2>3, <2>4, <2>5
<1>9. Nat \subseteq T
  <2> HIDE DEF T
  <2>1. QED
    BY <1>7, <1>8, SetInduction
<1>10. Len(w) \in T
  BY <1>1, <1>9
<1>11. QED
  BY <1>1, <1>4, <1>10

(* What product returns.                                                    *)
LEMMA ProductIs ==
  ASSUME ProductHolds, product_at = "done", ~Trivial(lhs), ~Trivial(rhs)
  PROVE  /\ IsProduct(lhs, rhs, product_storage, inverted, ProductAutomaton)
         /\ ProductAutomaton.final = FinalPairs(lhs, rhs, condition, inverted)
<1>1. PICK A, B, c, st, inv, L, fin, d, src, left, init :
        /\ A = lhs /\ B = rhs /\ c = condition /\ st = product_storage /\ inv = inverted
        /\ L = product_worklist /\ fin = product_final /\ d = product_delta
        /\ src = product_source /\ left = pairs_left /\ init = product_initial
  OBVIOUS
<1>2. ProductPlace(A, B, st, inv, L, init, left, pass, "done")
  BY <1>1 DEF ProductHolds
<1>3. pass = "idle" /\ L = << >> /\ InitialStored(A, B, inv, init)
  BY <1>1, <1>2 DEF ProductPlace
<1>4. ProductBase(A, B, c, st, inv, L, fin, d, src, left, "idle")
  BY <1>1, <1>3 DEF ProductHolds
<1>5. /\ IsNfa(A) /\ IsNfa(B) /\ StoredRight(A, B, st, inv) /\ fin = FinalPairs(A, B, c, inv)
      /\ \A m \in d : IsMoveOfPairs(A, B, inv, m)
      /\ \A q \in Nat : q < Len(inv) => IsExpanded(A, B, st, inv, L, d, src, {}, q)
  BY <1>4 DEF ProductBase, Remaining
<1>6. Len(inv) \in Nat
  BY <1>5 DEF StoredRight
<1>7. PICK P, N : P = ProductAutomaton /\ N = 0 .. Len(inv) - 1
  OBVIOUS
<1>8. P = [states |-> N, initial |-> init, final |-> fin, delta |-> d]
  BY <1>1, <1>7 DEF ProductAutomaton
<1>9. \A q : q \in N <=> q \in Nat /\ q < Len(inv)
  BY <1>6, <1>7
<1>10. P.states = N /\ P.initial = init /\ P.final = fin /\ P.delta = d
  BY <1>8
<1>11. init \subseteq N
  BY <1>3, <1>9 DEF InitialStored
<1>12. fin \subseteq N
  BY <1>5, <1>7 DEF FinalPairs
<1>13. d \subseteq N \X Letters \X N
  <2>1. ASSUME NEW m \in d PROVE m \in N \X Letters \X N
    <3>1. m = <<m[1], m[2], m[3]>> /\ m[2] \in Letters /\ m[1] \in N /\ m[3] \in N
      BY <1>5, <1>9 DEF IsMoveOfPairs
    <3>2. QED
      BY <3>1
  <2>2. QED
    BY <2>1
<1>14. N \in SUBSET Nat /\ IsFiniteSet(N)
  <2>1. IsFiniteSet(0 .. Len(inv) - 1)
    BY <1>6, FS_Interval
  <2>2. QED
    BY <1>7, <1>9, <2>1
<1>15. IsNfa(P)
  <2>1. Letters \subseteq Nat
    BY JobsAssumption
  <2>2. d \in SUBSET (Nat \X Nat \X Nat)
    BY <1>13, <1>14, <2>1
  <2>3. init \in SUBSET Nat /\ fin \in SUBSET Nat /\ N \in SUBSET Nat
    BY <1>11, <1>12, <1>14
  <2>4. P \in [states : SUBSET Nat, initial : SUBSET Nat, final : SUBSET Nat,
               delta : SUBSET (Nat \X Nat \X Nat)]
    BY <1>8, <2>2, <2>3
  <2>5. QED
    BY <1>10, <1>11, <1>12, <1>13, <1>14, <2>4 DEF IsNfa, IsAutomaton
<1>16. ASSUME NEW q \in P.states, NEW v \in PairMovesOf(A, B, inv[q + 1])
       PROVE  IsConnected(st, P.delta, q, v)
  <2>1. IsExpanded(A, B, st, inv, L, d, src, {}, q)
    BY <1>5, <1>9, <1>10
  <2>2. ToSet(L) = {}
    BY <1>3 DEF ToSet
  <2>3. QED
    BY <1>10, <2>1, <2>2 DEF IsExpanded
<1>17. IsProduct(A, B, st, inv, P)
  BY <1>3, <1>5, <1>7, <1>10, <1>15, <1>16 DEF IsProduct
<1>18. P.final = FinalPairs(A, B, c, inv)
  BY <1>5, <1>10
<1>19. QED
  BY <1>1, <1>7, <1>17, <1>18

LEMMA ProductReads ==
  ASSUME ProductHolds, product_at = "done", condition \in {"And", "Or"},
         NEW symbols \in SUBSET Letters,
         condition = "Or" =>
           /\ \A a \in symbols : a < first_epsilon
           /\ IsCompleteDeterministic(lhs, symbols) /\ IsCompleteDeterministic(rhs, symbols),
         NEW w \in Seq(symbols)
  PROVE  AcceptsAs(WithoutEpsilons(ProductAutomaton), WithoutEpsilons(lhs), WithoutEpsilons(rhs),
                   condition, w)
<1>1. PICK A, B, c, P : A = lhs /\ B = rhs /\ c = condition /\ P = ProductAutomaton
  OBVIOUS
<1>2. PICK PE, AE, BE : /\ PE = WithoutEpsilons(P) /\ AE = WithoutEpsilons(A)
                        /\ BE = WithoutEpsilons(B)
  OBVIOUS
<1>3. IsNfa(A) /\ IsNfa(B)
  BY <1>1 DEF ProductHolds, ProductBase
<1>4. w \in Seq(Letters) /\ Len(w) \in Nat
  OBVIOUS
<1>5. CASE ~Trivial(A) /\ ~Trivial(B)
  <2>1. /\ IsProduct(lhs, rhs, product_storage, inverted, ProductAutomaton)
        /\ ProductAutomaton.final = FinalPairs(lhs, rhs, condition, inverted)
    BY <1>1, <1>5, ProductIs
  <2>2. PICK st, inv : st = product_storage /\ inv = inverted
    OBVIOUS
  <2>3. IsProduct(A, B, st, inv, P) /\ P.final = FinalPairs(A, B, c, inv)
    BY <1>1, <2>1, <2>2
  <2>4. c \in {"And", "Or"}
    BY <1>1
  <2>5. ASSUME c = "Or" PROVE Read(AE, w) # {} /\ Read(BE, w) # {}
    <3>1. /\ \A a \in symbols : a < first_epsilon
          /\ IsCompleteDeterministic(A, symbols) /\ IsCompleteDeterministic(B, symbols)
      BY <1>1, <2>5
    <3>2. Read(AE, w) # {}
      BY <1>2, <1>3, <3>1, CompleteReads
    <3>3. Read(BE, w) # {}
      BY <1>2, <1>3, <3>1, CompleteReads
    <3>4. QED
      BY <3>2, <3>3
  <2>6. AcceptsAs(PE, AE, BE, c, w)
    BY <1>2, <1>4, <2>3, <2>4, <2>5, ProductAcceptsAs
  <2>7. QED
    BY <1>1, <1>2, <2>6
<1>6. ASSUME Trivial(A) PROVE ~Accepts(AE, w)
  BY <1>2, <1>3, <1>4, <1>6, TrivialAcceptsNothing
<1>7. ASSUME Trivial(B) PROVE ~Accepts(BE, w)
  BY <1>2, <1>3, <1>4, <1>7, TrivialAcceptsNothing
<1>8. CASE c = "Or" /\ (Trivial(A) \/ Trivial(B))
  <2>1. c # "And"
    BY <1>8
  <2>2. CASE Trivial(A)
    <3>1. P = B
      BY <1>1, <1>8, <2>2 DEF ProductAutomaton
    <3>2. PE = BE
      BY <1>2, <3>1
    <3>3. AcceptsAs(PE, AE, BE, c, w)
      BY <1>6, <2>1, <2>2, <3>2 DEF AcceptsAs
    <3>4. QED
      BY <1>1, <1>2, <3>3
  <2>3. CASE ~Trivial(A) /\ Trivial(B)
    <3>1. P = A
      BY <1>1, <1>8, <2>3 DEF ProductAutomaton
    <3>2. PE = AE
      BY <1>2, <3>1
    <3>3. AcceptsAs(PE, AE, BE, c, w)
      BY <1>7, <2>1, <2>3, <3>2 DEF AcceptsAs
    <3>4. QED
      BY <1>1, <1>2, <3>3
  <2>4. QED
    BY <1>8, <2>2, <2>3
<1>9. CASE c = "And" /\ (Trivial(A) \/ Trivial(B))
  <2>1. P = [states |-> 0 .. Len(inverted) - 1, initial |-> product_initial,
             final |-> product_final, delta |-> product_delta]
    BY <1>1, <1>9 DEF ProductAutomaton
  <2>2. inverted = << >>
    BY <1>1, <1>9 DEF ProductHolds, ProductPlace
  <2>3. product_final = FinalPairs(lhs, rhs, condition, inverted)
    BY DEF ProductHolds, ProductBase
  <2>4. product_final = {}
    <3>1. Len(inverted) = 0
      BY <2>2
    <3>2. 0 .. 0 - 1 = {}
      OBVIOUS
    <3>3. QED
      BY <2>3, <3>1, <3>2 DEF FinalPairs
  <2>5. P.final = {}
    BY <2>1, <2>4
  <2>6. PE.final = P.final
    BY <1>2 DEF WithoutEpsilons
  <2>7. ~Accepts(PE, w)
    BY <2>5, <2>6 DEF Accepts
  <2>8. ~Accepts(AE, w) \/ ~Accepts(BE, w)
    BY <1>6, <1>7, <1>9
  <2>9. AcceptsAs(PE, AE, BE, c, w)
    BY <1>9, <2>7, <2>8 DEF AcceptsAs
  <2>10. QED
    BY <1>1, <1>2, <2>9
<1>10. QED
  BY <1>1, <1>5, <1>8, <1>9

(***************************************************************************)
(* The chain.                                                              *)
(***************************************************************************)
LEMMA DeterminizedLanguage ==
  ASSUME NEW A, NEW B, NEW g, DetResult(A, B, g)
  PROVE  IsNfa(B) /\ IsDeterministic(B) /\ SameLanguage(B, A)
<1>1. IsDeterminized(A, B, DOMAIN g, g) /\ IsNfa(B)
  BY DEF DetResult
<1>2. IsDeterministic(B)
  BY <1>1, DeterminizedIsDeterministic
<1>3. ASSUME NEW w \in Seq(Nat) PROVE Accepts(B, w) <=> Accepts(A, w)
  <2>1. Len(w) \in Nat
    OBVIOUS
  <2>2. QED
    BY <1>1, <2>1, DeterminizedAccepts
<1>4. QED
  BY <1>1, <1>2, <1>3 DEF SameLanguage

(* An automaton whose initial states, if it has any, accept something.      *)
NoneOrSome(A) == A.initial = {} \/ \E w \in Seq(Nat) : Accepts(A, w)

(* The automaton reversed, determinized and reversed again.                 *)
LEMMA ReversedAgain ==
  ASSUME NEW A, IsNfa(A), NEW B, NEW g, DetResult(revert(A), B, g)
  PROVE  IsNfa(revert(B)) /\ SameLanguage(revert(B), A) /\ NoneOrSome(revert(B))
<1>1. PICK R : R = revert(A)
  OBVIOUS
<1>2. IsNfa(R)
  BY <1>1, RevertIs
<1>3. DetResult(R, B, g)
  BY <1>1
<1>4. IsNfa(B) /\ SameLanguage(B, R)
  BY <1>3, DeterminizedLanguage
<1>5. SameLanguage(revert(A), B)
  BY <1>1, <1>4 DEF SameLanguage
<1>6. SameLanguage(A, revert(B))
  BY <1>4, <1>5, RevertedTwice
<1>7. SameLanguage(revert(B), A)
  BY <1>6 DEF SameLanguage
<1>8. PICK D : D = revert(B)
  OBVIOUS
<1>9. IsNfa(D) /\ D.initial = B.final
  BY <1>4, <1>8, RevertIs
<1>10. CASE B.final # {}
  <2>1. PICK K : K = DOMAIN g
    OBVIOUS
  <2>2. B.final = {g[S] : S \in {T \in K : T \cap R.final # {}}}
    BY <1>3, <2>1 DEF DetResult, IsDeterminized
  <2>3. PICK S \in K : S \cap R.final # {}
    BY <1>10, <2>2
  <2>4. IsLeastClosed(K, {R.initial}, MacroGraph(R).delta)
    BY <1>3, <2>1 DEF DetResult
  <2>5. PICK w \in Seq(Nat) : S = Read(R, w)
    BY <1>2, <2>4, MacrostateIsRead
  <2>6. Accepts(R, w)
    BY <2>3, <2>5 DEF Accepts
  <2>7. Accepts(B, w)
    BY <1>4, <2>6 DEF SameLanguage
  <2>8. PICK v \in Seq(Nat) : IsReversed(v, w) /\ IsReversed(w, v)
    BY ReversedWord
  <2>9. Len(w) \in Nat
    OBVIOUS
  <2>10. Accepts(revert(B), v)
    BY <1>4, <2>7, <2>8, <2>9, RevertedAccepts
  <2>11. NoneOrSome(D)
    BY <1>8, <2>10 DEF NoneOrSome
  <2>12. QED
    BY <1>7, <1>8, <1>9, <2>11
<1>11. CASE B.final = {}
  <2>1. NoneOrSome(D)
    BY <1>9, <1>11 DEF NoneOrSome
  <2>2. QED
    BY <1>7, <1>8, <1>9, <2>1
<1>12. QED
  BY <1>10, <1>11

(* An automaton that can be complemented, the sink being sink.              *)
FitsSink(A, sink) ==
  /\ IsNfa(A) /\ IsDeterministic(A)
  /\ sink \in Nat /\ sink \notin A.final /\ \A m \in A.delta : m[1] # sink

LEMMA NewStateFits ==
  ASSUME NEW A, IsNfa(A), IsDeterministic(A), A.states = 0 .. Cardinality(A.states) - 1
  PROVE  FitsSink(A, Cardinality(A.states))
<1>1. PICK n : n = Cardinality(A.states)
  OBVIOUS
<1>2. n \in Nat
  BY <1>1, NfaIs, FS_CardinalityType
<1>3. A.states = 0 .. n - 1
  BY <1>1
<1>4. n \notin A.states
  BY <1>2, <1>3
<1>5. A.final \in SUBSET A.states /\ A.delta \subseteq A.states \X Nat \X A.states
  BY NfaIs
<1>6. n \notin A.final /\ \A m \in A.delta : m[1] # n
  BY <1>4, <1>5
<1>7. FitsSink(A, n)
  BY <1>2, <1>6 DEF FitsSink
<1>8. QED
  BY <1>1, <1>7

LEMMA DeterminizedFits ==
  ASSUME NEW A, NEW B, NEW g, DetResult(A, B, g), IsFiniteSet(DOMAIN g)
  PROVE  FitsSink(B, Cardinality(B.states))
<1>1. PICK n : n = Cardinality(DOMAIN g)
  OBVIOUS
<1>2. n \in Nat
  BY <1>1, FS_CardinalityType
<1>3. B.states = 0 .. n - 1
  BY <1>1 DEF DetResult
<1>4. Cardinality(0 .. n - 1) = n
  BY <1>2, FS_Interval
<1>5. B.states = 0 .. Cardinality(B.states) - 1
  BY <1>3, <1>4
<1>6. IsNfa(B)
  BY DeterminizedLanguage
<1>7. IsDeterministic(B)
  BY DeterminizedLanguage
<1>8. QED
  BY <1>5, <1>6, <1>7, NewStateFits

LEMMA NothingFits ==
  ASSUME NEW A, IsNfa(A), NEW B, NEW g, DetResult(A, B, g), NoneOrSome(A), B.final = {}
  PROVE  FitsSink(B, 0)
<1>1. IsNfa(B) /\ IsDeterministic(B) /\ SameLanguage(B, A)
  BY DeterminizedLanguage
<1>2. A.initial = {}
  <2>1. ASSUME NEW w \in Seq(Nat), Accepts(A, w) PROVE FALSE
    <3>1. Accepts(B, w)
      BY <1>1, <2>1 DEF SameLanguage
    <3>2. QED
      BY <3>1 DEF Accepts
  <2>2. QED
    BY <2>1 DEF NoneOrSome
<1>3. B.delta = {}
  BY <1>2, NothingIsMadeOfNothing
<1>4. QED
  BY <1>1, <1>3 DEF FitsSink

(* What holds of the chain.                                                 *)
StageFits ==
  /\ stage \in {"reverse", "determinize", "complement"} => product_at = "called"
  /\ stage \in {"reverse", "complement"} => job.kind = "inclusion"
  /\ job.kind = "product" => stage = "product"

ChainFits ==
  /\ stage = "reverse" => job.algorithm = "brzozowski" /\ original = revert(job.rhs)
  /\ stage = "determinize" /\ job.kind = "inclusion" =>
       /\ SameLanguage(original, job.rhs)
       /\ job.algorithm = "brzozowski" => NoneOrSome(original)
  /\ stage = "complement" =>
       FitsSink(complement, SinkOf(complement)) /\ SameLanguage(complement, job.rhs)
  /\ stage = "product" /\ job.kind = "inclusion" =>
       IsTotal(complement, job.symbols) /\ Complements(complement, job.rhs, job.symbols)

ArgumentsFit ==
  job.kind = "product" => lhs = job.lhs /\ rhs = job.rhs /\ condition = job.condition

NaiveHolds ==
  job \in Jobs /\ DetHolds /\ ProductHolds /\ StageFits /\ ChainFits /\ ArgumentsFit

JobFits(j) ==
  /\ j.kind \in {"inclusion", "product", "determinize"}
  /\ j.algorithm \in {"classical", "brzozowski"} /\ j.condition \in {"And", "Or"}
  /\ IsNfa(j.lhs) /\ IsNfa(j.rhs) /\ j.symbols \in SUBSET Letters
  /\ j.kind = "product" => j.algorithm = "classical"
  /\ j.kind = "product" /\ j.condition = "Or" =>
       /\ \A a \in j.symbols : a < first_epsilon
       /\ IsCompleteDeterministic(j.lhs, j.symbols) /\ IsCompleteDeterministic(j.rhs, j.symbols)

LEMMA JobsFit == \A j \in Jobs : JobFits(j)
BY JobsAssumption DEF JobFits

LEMMA NaiveHoldsAtFirst ==
  ASSUME NaiveInit
  PROVE  NaiveHolds
<1>1. PICK j : j = job
  OBVIOUS
<1>2. j \in Jobs /\ JobFits(j)
  BY <1>1, JobsFit DEF NaiveInit
<1>3. IsNfa(j.rhs) /\ IsNfa(j.lhs)
  BY <1>2 DEF JobFits
<1>4. PICK A : A = IF j.algorithm = "brzozowski" THEN revert(j.rhs) ELSE j.rhs
  OBVIOUS
<1>5. IsNfa(A)
  BY <1>3, <1>4, RevertIs
<1>6. DetCalled(A, j.may_stop) /\ ProductCalled(j.lhs, j.rhs, j.condition)
  BY <1>1, <1>4 DEF NaiveInit
<1>7. DetHolds
  BY <1>5, <1>6, DetHoldsAtCall
<1>8. ProductHolds
  BY <1>3, <1>6, ProductHoldsAtCall
<1>9. /\ product_at = "called" /\ original = A
      /\ lhs = j.lhs /\ rhs = j.rhs /\ condition = j.condition
  BY <1>6 DEF DetCalled, ProductCalled
<1>10. /\ j.kind = "product" => stage = "product"
       /\ j.kind = "determinize" => stage = "determinize"
       /\ j.kind = "inclusion" =>
            stage = IF j.algorithm = "brzozowski" THEN "reverse" ELSE "determinize"
       /\ j.kind \in {"inclusion", "product", "determinize"}
  BY <1>1, <1>2 DEF NaiveInit, JobFits
<1>11. StageFits
  BY <1>1, <1>9, <1>10 DEF StageFits
<1>12. ChainFits
  <2>1. stage = "reverse" => j.algorithm = "brzozowski" /\ original = revert(j.rhs)
    BY <1>4, <1>9, <1>10
  <2>2. ASSUME stage = "determinize", j.kind = "inclusion"
        PROVE  SameLanguage(original, j.rhs) /\ j.algorithm # "brzozowski"
    <3>1. j.algorithm # "brzozowski"
      BY <1>10, <2>2
    <3>2. original = j.rhs
      BY <1>4, <1>9, <3>1
    <3>3. QED
      BY <3>1, <3>2 DEF SameLanguage
  <2>3. stage # "complement" /\ ~(stage = "product" /\ j.kind = "inclusion")
    BY <1>10
  <2>4. QED
    BY <1>1, <2>1, <2>2, <2>3 DEF ChainFits
<1>13. QED
  BY <1>1, <1>2, <1>7, <1>8, <1>9, <1>11, <1>12 DEF NaiveHolds, ArgumentsFit

LEMMA JobHolds ==
  ASSUME NaiveHolds
  PROVE  JobFits(job)
BY JobsFit DEF NaiveHolds

(* One construction moves on.                                               *)
LEMMA SubsetMovesOn ==
  ASSUME NaiveHolds, stage \in {"reverse", "determinize"}, DetNext,
         UNCHANGED <<productvars, emptyvars, job, stage, complement>>
  PROVE  NaiveHolds'
<1>1. DetHolds'
  BY DetHoldsOn DEF NaiveHolds
<1>2. original' = original
  BY DEF DetNext, DetFirst, DetFinish, DetPop, DetSymbol
<1>3. UNCHANGED <<lhs, rhs, condition, product_storage, inverted, product_worklist,
                  product_initial, product_final, product_delta, product_source,
                  pairs_left, pass, product_at>>
  BY DEF productvars
<1>4. ProductHolds'
  BY <1>3 DEF NaiveHolds, ProductHolds
<1>5. StageFits' /\ ArgumentsFit'
  BY <1>3 DEF NaiveHolds, StageFits, ArgumentsFit
<1>6. ChainFits'
  BY <1>2 DEF NaiveHolds, ChainFits
<1>7. QED
  BY <1>1, <1>4, <1>5, <1>6 DEF NaiveHolds

LEMMA ArgumentsStay ==
  ASSUME ProductNext
  PROVE  UNCHANGED <<lhs, rhs, condition>>
<1>1. CASE EarlyReturn
  BY <1>1 DEF EarlyReturn
<1>2. CASE StartProduct
  BY <1>2 DEF StartProduct
<1>3. CASE StoreInitial
  BY <1>3 DEF StoreInitial
<1>4. CASE TakeProductState
  BY <1>4 DEF TakeProductState
<1>5. CASE ConnectPair
  BY <1>5 DEF ConnectPair
<1>6. CASE LhsEpsilons
  BY <1>6 DEF LhsEpsilons
<1>7. CASE RhsEpsilons
  BY <1>7 DEF RhsEpsilons
<1>8. CASE LeaveProductState
  BY <1>8 DEF LeaveProductState
<1>9. CASE ReturnProduct
  BY <1>9 DEF ReturnProduct
<1>10. QED
  BY <1>1, <1>2, <1>3, <1>4, <1>5, <1>6, <1>7, <1>8, <1>9 DEF ProductNext

LEMMA PairsMoveOn ==
  ASSUME NaiveHolds, stage = "product", ProductNext,
         UNCHANGED <<detvars, emptyvars, job, stage, complement>>
  PROVE  NaiveHolds'
<1>1. ProductHolds'
  BY ProductHoldsOn DEF NaiveHolds
<1>2. UNCHANGED <<lhs, rhs, condition>>
  BY ArgumentsStay
<1>3. UNCHANGED <<original, may_stop, subset_map, macro_worklist, macro_delta,
                  macro_final, expanding, symbols_left, det_at>>
  BY DEF detvars
<1>4. DetHolds'
  BY <1>3 DEF NaiveHolds, DetHolds
<1>5. StageFits' /\ ArgumentsFit'
  BY <1>2 DEF NaiveHolds, StageFits, ArgumentsFit
<1>6. ChainFits'
  BY DEF NaiveHolds, ChainFits
<1>7. QED
  BY <1>1, <1>4, <1>5, <1>6 DEF NaiveHolds

(* A step after which the subset construction and the product are as before.*)
LEMMA BothAsBefore ==
  ASSUME NaiveHolds,
         UNCHANGED <<original, may_stop, subset_map, macro_worklist, macro_delta,
                     macro_final, expanding, symbols_left, det_at>>,
         UNCHANGED <<lhs, rhs, condition, product_storage, inverted, product_worklist,
                     product_initial, product_final, product_delta, product_source,
                     pairs_left, pass, product_at>>,
         UNCHANGED job
  PROVE  DetHolds' /\ ProductHolds' /\ ArgumentsFit' /\ job' \in Jobs
<1>1. DetHolds'
  BY DEF NaiveHolds, DetHolds
<1>2. ProductHolds'
  BY DEF NaiveHolds, ProductHolds
<1>3. ArgumentsFit' /\ job' \in Jobs
  BY DEF NaiveHolds, ArgumentsFit
<1>4. QED
  BY <1>1, <1>2, <1>3

LEMMA DeterminizesAgain ==
  ASSUME NaiveHolds, DeterminizeAgain
  PROVE  NaiveHolds'
<1>1. /\ stage = "reverse" /\ det_at = "done" /\ stage' = "determinize"
      /\ UNCHANGED <<lhs, rhs, condition, product_storage, inverted, product_worklist,
                     product_initial, product_final, product_delta, product_source,
                     pairs_left, pass, product_at>>
      /\ UNCHANGED <<job, complement>>
  BY DEF DeterminizeAgain, productvars
<1>2. PICK A, B, g, D : /\ A = job.rhs /\ B = Determinized /\ g = subset_map
                        /\ D = revert(Determinized)
  OBVIOUS
<1>3. /\ original' = D
      /\ subset_map' = [S \in {D.initial} |-> 0]
      /\ macro_worklist' = <<<<0, D.initial>>>>
      /\ macro_delta' = {}
      /\ macro_final' = IF D.initial \cap D.final # {} THEN {0} ELSE {}
      /\ expanding' = << >> /\ symbols_left' = {} /\ det_at' = "first"
  BY <1>2 DEF DeterminizeAgain
<1>4. /\ job.algorithm = "brzozowski" /\ original = revert(job.rhs) /\ job.kind = "inclusion"
      /\ product_at = "called" /\ job \in Jobs /\ DetHolds /\ ProductHolds
  BY <1>1 DEF NaiveHolds, ChainFits, StageFits
<1>5. IsNfa(A)
  BY <1>2, JobHolds DEF JobFits
<1>6. DetResult(original, Determinized, subset_map)
  BY <1>1, <1>4, DetHoldsResult
<1>7. DetResult(revert(A), B, g)
  BY <1>2, <1>4, <1>6
<1>8. IsNfa(revert(B)) /\ SameLanguage(revert(B), A) /\ NoneOrSome(revert(B))
  BY <1>5, <1>7, ReversedAgain
<1>9. IsNfa(D) /\ SameLanguage(D, A) /\ NoneOrSome(D)
  BY <1>2, <1>8
<1>10. DetHolds'
  <2>1. PICK h, L, F : /\ h = [S \in {D.initial} |-> 0] /\ L = <<<<0, D.initial>>>>
                       /\ F = IF D.initial \cap D.final # {} THEN {0} ELSE {}
    OBVIOUS
  <2>2. DetState(D, h, L, {}, F, << >>, {}, "first")
    BY <1>9, <2>1, DetStateStarts
  <2>3. subset_map' = h /\ macro_worklist' = L /\ macro_final' = F
    BY <1>3, <2>1
  <2>4. QED
    BY <1>3, <2>2, <2>3 DEF DetHolds
<1>11. ProductHolds'
  BY <1>1, <1>4 DEF ProductHolds
<1>12. ChainFits'
  BY <1>1, <1>2, <1>3, <1>9 DEF ChainFits
<1>13. StageFits' /\ ArgumentsFit'
  BY <1>1, <1>4 DEF StageFits, ArgumentsFit
<1>14. QED
  BY <1>1, <1>4, <1>10, <1>11, <1>12, <1>13 DEF NaiveHolds

LEMMA TrimsDeterminized ==
  ASSUME NaiveHolds, TrimDeterminized
  PROVE  NaiveHolds'
<1>1. /\ stage = "determinize" /\ job.kind = "inclusion" /\ det_at = "done"
      /\ complement' = IF job.algorithm = "classical" THEN Trimmed(Determinized)
                                                      ELSE Determinized
      /\ stage' = "complement"
      /\ UNCHANGED <<original, may_stop, subset_map, macro_worklist, macro_delta,
                     macro_final, expanding, symbols_left, det_at>>
      /\ UNCHANGED <<lhs, rhs, condition, product_storage, inverted, product_worklist,
                     product_initial, product_final, product_delta, product_source,
                     pairs_left, pass, product_at>>
      /\ UNCHANGED job
  BY DEF TrimDeterminized, detvars, productvars
<1>2. DetHolds' /\ ProductHolds' /\ ArgumentsFit' /\ job' \in Jobs
  BY <1>1, BothAsBefore
<1>3. /\ DetHolds /\ product_at = "called" /\ SameLanguage(original, job.rhs)
      /\ job.algorithm = "brzozowski" => NoneOrSome(original)
  BY <1>1 DEF NaiveHolds, ChainFits, StageFits
<1>4. PICK A, B, g, C, sink, K : /\ A = original /\ B = Determinized /\ g = subset_map
                                 /\ C = complement' /\ sink = SinkOf(complement)' /\ K = job.rhs
  OBVIOUS
<1>5. DetResult(A, B, g)
  BY <1>1, <1>3, <1>4, DetHoldsResult
<1>6. IsNfa(A) /\ IsFiniteSet(DOMAIN g)
  BY <1>3, <1>4 DEF DetHolds, DetState, Numbering
<1>7. IsNfa(B) /\ IsDeterministic(B) /\ SameLanguage(B, A)
  BY <1>5, DeterminizedLanguage
<1>8. SameLanguage(B, K)
  BY <1>3, <1>4, <1>7 DEF SameLanguage
<1>9. sink = IF job.algorithm = "brzozowski" /\ C.final = {} THEN 0 ELSE Cardinality(C.states)
  BY <1>1, <1>4 DEF SinkOf
<1>10. ASSUME job.algorithm = "classical" PROVE FitsSink(C, sink) /\ SameLanguage(C, K)
  <2>1. C = Trimmed(B)
    BY <1>1, <1>4, <1>10
  <2>2. IsNfa(C) /\ IsDeterministic(C) /\ C.states = 0 .. Cardinality(C.states) - 1
    BY <1>7, <2>1, TrimmedIs
  <2>3. SameLanguage(C, B)
    BY <1>7, <2>1, TrimmedIs
  <2>4. SameLanguage(C, K)
    BY <1>8, <2>3 DEF SameLanguage
  <2>5. FitsSink(C, Cardinality(C.states))
    BY <2>2, NewStateFits
  <2>6. sink = Cardinality(C.states)
    BY <1>9, <1>10
  <2>7. QED
    BY <2>4, <2>5, <2>6
<1>11. ASSUME job.algorithm = "brzozowski" PROVE FitsSink(C, sink) /\ SameLanguage(C, K)
  <2>1. C = B
    BY <1>1, <1>4, <1>11
  <2>2. NoneOrSome(A)
    BY <1>3, <1>4, <1>11
  <2>3. CASE C.final = {}
    <3>1. FitsSink(C, 0)
      BY <1>5, <1>6, <2>1, <2>2, <2>3, NothingFits
    <3>2. sink = 0
      BY <1>9, <1>11, <2>3
    <3>3. QED
      BY <1>8, <2>1, <3>1, <3>2
  <2>4. CASE C.final # {}
    <3>1. FitsSink(C, Cardinality(C.states))
      BY <1>5, <1>6, <2>1, DeterminizedFits
    <3>2. sink = Cardinality(C.states)
      BY <1>9, <2>4
    <3>3. QED
      BY <1>8, <2>1, <3>1, <3>2
  <2>5. QED
    BY <2>3, <2>4
<1>12. FitsSink(C, sink) /\ SameLanguage(C, K)
  BY <1>10, <1>11, JobHolds DEF JobFits
<1>13. ChainFits'
  <2>1. FitsSink(complement', SinkOf(complement)') /\ SameLanguage(complement', job.rhs')
    BY <1>1, <1>4, <1>12
  <2>2. QED
    BY <1>1, <2>1 DEF ChainFits
<1>14. StageFits'
  BY <1>1, <1>3 DEF StageFits
<1>15. QED
  BY <1>2, <1>13, <1>14 DEF NaiveHolds

LEMMA WordsInside ==
  ASSUME NEW S, NEW T, S \subseteq T, NEW w \in Seq(S)
  PROVE  w \in Seq(T)
OBVIOUS

LEMMA Intersects ==
  ASSUME NaiveHolds, Intersect
  PROVE  NaiveHolds'
<1>1. /\ stage = "complement"
      /\ complement' = complement_deterministic(complement, job.symbols, SinkOf(complement))
      /\ rhs' = complement' /\ stage' = "product"
      /\ UNCHANGED <<original, may_stop, subset_map, macro_worklist, macro_delta,
                     macro_final, expanding, symbols_left, det_at>>
      /\ UNCHANGED <<lhs, condition, product_storage, inverted, product_worklist,
                     product_initial, product_final, product_delta, product_source,
                     pairs_left, pass, product_at>>
      /\ UNCHANGED job
  BY DEF Intersect, detvars
<1>2. /\ job \in Jobs /\ DetHolds /\ ProductHolds /\ product_at = "called" /\ job.kind = "inclusion"
      /\ FitsSink(complement, SinkOf(complement)) /\ SameLanguage(complement, job.rhs)
  BY <1>1 DEF NaiveHolds, ChainFits, StageFits
<1>3. PICK A, C, sink, symbols, K : /\ A = complement /\ C = complement'
                                    /\ sink = SinkOf(complement) /\ symbols = job.symbols
                                    /\ K = job.rhs
  OBVIOUS
<1>4. FitsSink(A, sink) /\ SameLanguage(A, K) /\ C = complement_deterministic(A, symbols, sink)
  BY <1>1, <1>2, <1>3
<1>5. symbols \in SUBSET Letters
  BY <1>3, JobHolds DEF JobFits
<1>6. IsNfa(C) /\ IsTotal(C, symbols) /\ Complements(C, A, symbols)
  <2>1. IsNfa(A)
    BY <1>4 DEF FitsSink
  <2>2. IsDeterministic(A)
    BY <1>4 DEF FitsSink
  <2>3. sink \in Nat
    BY <1>4 DEF FitsSink
  <2>4. sink \notin A.final
    BY <1>4 DEF FitsSink
  <2>5. \A m \in A.delta : m[1] # sink
    BY <1>4 DEF FitsSink
  <2>6. QED
    BY <1>4, <1>5, <2>1, <2>2, <2>3, <2>4, <2>5, ComplementIs
<1>7. Complements(C, K, symbols)
  <2>1. ASSUME NEW w \in Seq(symbols) PROVE Accepts(C, w) <=> ~Accepts(K, w)
    <3>1. w \in Seq(Nat)
      <4>1. symbols \subseteq Nat
        BY <1>5, JobsAssumption
      <4>2. QED
        BY <4>1, WordsInside
    <3>2. Accepts(A, w) <=> Accepts(K, w)
      BY <1>4, <3>1 DEF SameLanguage
    <3>3. QED
      BY <1>6, <3>2 DEF Complements
  <2>2. QED
    BY <2>1 DEF Complements
<1>8. ProductHolds'
  <2>1. IsNfa(rhs')
    BY <1>1, <1>3, <1>6
  <2>2. QED
    BY <1>1, <1>2, <2>1, ProductTakesOver
<1>9. DetHolds'
  BY <1>1, <1>2 DEF DetHolds
<1>10. ChainFits'
  BY <1>1, <1>3, <1>6, <1>7 DEF ChainFits
<1>11. StageFits' /\ ArgumentsFit' /\ job' \in Jobs
  BY <1>1, <1>2 DEF StageFits, ArgumentsFit
<1>12. QED
  BY <1>8, <1>9, <1>10, <1>11 DEF NaiveHolds

(* The stages in which the constructions are over.                          *)
LEMMA LaterStages ==
  ASSUME NaiveHolds, stage' \notin {"reverse", "determinize", "complement", "product"},
         job.kind # "product",
         UNCHANGED <<detvars, productvars, job, complement>>
  PROVE  NaiveHolds'
<1>1. /\ UNCHANGED <<original, may_stop, subset_map, macro_worklist, macro_delta,
                     macro_final, expanding, symbols_left, det_at>>
      /\ UNCHANGED <<lhs, rhs, condition, product_storage, inverted, product_worklist,
                     product_initial, product_final, product_delta, product_source,
                     pairs_left, pass, product_at>>
      /\ UNCHANGED job
  BY DEF detvars, productvars
<1>2. DetHolds' /\ ProductHolds' /\ ArgumentsFit' /\ job' \in Jobs
  BY <1>1, BothAsBefore
<1>3. StageFits' /\ ChainFits'
  BY <1>1 DEF StageFits, ChainFits
<1>4. QED
  BY <1>2, <1>3 DEF NaiveHolds

LEMMA SameStage ==
  ASSUME NaiveHolds, UNCHANGED <<detvars, productvars, job, stage, complement>>
  PROVE  NaiveHolds'
<1>1. /\ UNCHANGED <<original, may_stop, subset_map, macro_worklist, macro_delta,
                     macro_final, expanding, symbols_left, det_at>>
      /\ UNCHANGED <<lhs, rhs, condition, product_storage, inverted, product_worklist,
                     product_initial, product_final, product_delta, product_source,
                     pairs_left, pass, product_at>>
      /\ UNCHANGED <<job, stage, complement>>
  BY DEF detvars, productvars
<1>2. DetHolds' /\ ProductHolds' /\ ArgumentsFit' /\ job' \in Jobs
  BY <1>1, BothAsBefore
<1>3. StageFits'
  BY <1>1 DEF NaiveHolds, StageFits
<1>4. SinkOf(complement)' = SinkOf(complement)
  BY <1>1 DEF SinkOf
<1>5. ChainFits'
  BY <1>1, <1>4 DEF NaiveHolds, ChainFits
<1>6. QED
  BY <1>2, <1>3, <1>5 DEF NaiveHolds

LEMMA NaiveHoldsOn ==
  ASSUME NaiveHolds, [NaiveNext]_naivevars
  PROVE  NaiveHolds'
<1>1. CASE /\ stage \in {"reverse", "determinize"} /\ DetNext
           /\ UNCHANGED <<productvars, emptyvars, job, stage, complement>>
  BY <1>1, SubsetMovesOn
<1>2. CASE DeterminizeAgain
  BY <1>2, DeterminizesAgain
<1>3. CASE TrimDeterminized
  BY <1>3, TrimsDeterminized
<1>4. CASE Intersect
  BY <1>4, Intersects
<1>5. CASE /\ stage = "product" /\ ProductNext
           /\ UNCHANGED <<detvars, emptyvars, job, stage, complement>>
  BY <1>5, PairsMoveOn
<1>6. CASE TestEmptiness
  <2>1. /\ stage' \notin {"reverse", "determinize", "complement", "product"}
        /\ job.kind # "product" /\ UNCHANGED <<detvars, productvars, job, complement>>
    BY <1>6 DEF TestEmptiness
  <2>2. QED
    BY <2>1, LaterStages
<1>7. CASE /\ stage = "emptiness" /\ EmptyNext
           /\ UNCHANGED <<detvars, productvars, job, stage, complement>>
  BY <1>7, SameStage
<1>8. CASE ReturnAnswer
  <2>1. stage = "emptiness" /\ stage' = "done"
        /\ UNCHANGED <<detvars, productvars, job, complement>>
    BY <1>8 DEF ReturnAnswer
  <2>2. job.kind # "product"
    BY <2>1 DEF NaiveHolds, StageFits
  <2>3. QED
    BY <2>1, <2>2, LaterStages
<1>9. CASE UNCHANGED naivevars
  <2>1. UNCHANGED <<detvars, productvars, job, stage, complement>>
    BY <1>9 DEF naivevars
  <2>2. QED
    BY <2>1, SameStage
<1>10. QED
  BY <1>1, <1>2, <1>3, <1>4, <1>5, <1>6, <1>7, <1>8, <1>9 DEF NaiveNext

LEMMA WordsAreSequences ==
  ASSUME NEW S, NEW n, n \in Nat, NEW w \in WordsUpTo(S, n)
  PROVE  w \in Seq(S)
<1>1. PICK k \in 0 .. n : w \in [1 .. k -> S]
  BY DEF WordsUpTo
<1>2. k \in Nat
  BY <1>1
<1>3. QED
  BY <1>1, <1>2

(* What the constructions promise of words of any length: TLC looks at      *)
(* those of up to four symbols.                                             *)
ComplementAnyLength ==
  stage = "product" /\ product_at = "called" /\ job.kind = "inclusion" =>
    \A word \in Seq(job.symbols) : Accepts(complement, word) <=> ~Accepts(job.rhs, word)

ProductAnyLength ==
  job.kind = "product" /\ product_at = "done" =>
    \A word \in Seq(job.symbols) :
      AcceptsAs(WithoutEpsilons(ProductAutomaton), WithoutEpsilons(lhs),
                WithoutEpsilons(rhs), condition, word)

LanguagesOfAnyLength == ComplementAnyLength /\ ProductAnyLength

LEMMA ComplementOfAnyLength ==
  ASSUME NaiveHolds
  PROVE  ComplementAnyLength
<1> SUFFICES ASSUME stage = "product", product_at = "called", job.kind = "inclusion",
                    NEW word \in Seq(job.symbols)
             PROVE  Accepts(complement, word) <=> ~Accepts(job.rhs, word)
  BY DEF ComplementAnyLength
<1>1. Complements(complement, job.rhs, job.symbols)
  BY DEF NaiveHolds, ChainFits
<1>2. QED
  BY <1>1 DEF Complements

LEMMA ProductOfAnyLength ==
  ASSUME NaiveHolds
  PROVE  ProductAnyLength
<1> SUFFICES ASSUME job.kind = "product", product_at = "done",
                    NEW word \in Seq(job.symbols)
             PROVE  AcceptsAs(WithoutEpsilons(ProductAutomaton), WithoutEpsilons(lhs),
                              WithoutEpsilons(rhs), condition, word)
  BY DEF ProductAnyLength
<1>1. PICK symbols, c : symbols = job.symbols /\ c = condition
  OBVIOUS
<1>2. /\ JobFits(job) /\ lhs = job.lhs /\ rhs = job.rhs /\ condition = job.condition /\ ProductHolds
  BY JobHolds DEF NaiveHolds, ArgumentsFit
<1>3. symbols \in SUBSET Letters /\ c \in {"And", "Or"}
  BY <1>1, <1>2 DEF JobFits
<1>4. condition = "Or" =>
        /\ \A a \in symbols : a < first_epsilon
        /\ IsCompleteDeterministic(lhs, symbols) /\ IsCompleteDeterministic(rhs, symbols)
  BY <1>1, <1>2 DEF JobFits
<1>5. word \in Seq(symbols)
  BY <1>1
<1>6. condition \in {"And", "Or"}
  BY <1>1, <1>3
<1>7. QED
  BY <1>2, <1>3, <1>4, <1>5, <1>6, ProductReads

LEMMA ComplementHolds ==
  ASSUME NaiveHolds
  PROVE  ComplementIsRight
<1> SUFFICES ASSUME stage = "product", product_at = "called", job.kind = "inclusion"
             PROVE  /\ \A q \in complement.states : \A a \in job.symbols :
                         Cardinality({m \in complement.delta : m[1] = q /\ m[2] = a}) = 1
                    /\ \A word \in Words : Accepts(complement, word) <=> ~Accepts(job.rhs, word)
  BY DEF ComplementIsRight
<1>1. PICK C, K, symbols : C = complement /\ K = job.rhs /\ symbols = job.symbols
  OBVIOUS
<1>2. IsTotal(C, symbols) /\ Complements(C, K, symbols)
  BY <1>1 DEF NaiveHolds, ChainFits
<1>3. ASSUME NEW q \in C.states, NEW a \in symbols
      PROVE  Cardinality({m \in C.delta : m[1] = q /\ m[2] = a}) = 1
  <2>1. PICK t \in C.states : MovesBy(C, q, a) = {<<q, a, t>>}
    BY <1>2 DEF IsTotal
  <2>2. PICK x : x = <<q, a, t>>
    OBVIOUS
  <2>3. Cardinality({x}) = 1
    BY FS_Singleton
  <2>4. Cardinality(MovesBy(C, q, a)) = 1
    BY <2>1, <2>2, <2>3
  <2>5. QED
    BY <2>4 DEF MovesBy
<1>4. ASSUME NEW word \in Words PROVE Accepts(C, word) <=> ~Accepts(K, word)
  <2>1. word \in WordsUpTo(symbols, 4)
    BY <1>1 DEF Words
  <2>2. word \in Seq(symbols)
    BY <2>1, WordsAreSequences
  <2>3. QED
    BY <1>2, <2>2 DEF Complements
<1>5. QED
  BY <1>1, <1>3, <1>4

LEMMA LanguageHolds ==
  ASSUME NaiveHolds
  PROVE  ProductLanguage
<1> SUFFICES ASSUME job.kind = "product", product_at = "done",
                    NEW word \in Words
             PROVE  AcceptsAs(WithoutEpsilons(ProductAutomaton), WithoutEpsilons(lhs),
                              WithoutEpsilons(rhs), condition, word)
  BY DEF ProductLanguage, AcceptsAs
<1>1. PICK symbols : symbols = job.symbols
  OBVIOUS
<1>2. word \in WordsUpTo(symbols, 4)
  BY <1>1 DEF Words
<1>3. word \in Seq(symbols)
  BY <1>2, WordsAreSequences
<1>4. QED
  BY <1>1, <1>3, ProductOfAnyLength DEF ProductAnyLength

LEMMA ConstructionsHold ==
  ASSUME NaiveHolds
  PROVE  ConstructionsAreRight
<1>1. SubsetsAreRight
  BY SubsetsHold DEF NaiveHolds, SubsetsAreRight
<1>2. PairsAreRight
  BY PairsHold DEF NaiveHolds, PairsAreRight
<1>3. QED
  BY <1>1, <1>2, ComplementHolds, LanguageHolds DEF ConstructionsAreRight

(* Whatever automata is_included_naive, the constructions it chains or      *)
(* product alone are given, each construction is right: the numbered        *)
(* macrostates are those of the subset construction, with its transitions;  *)
(* every pair of states is expanded once, with its transitions; the         *)
(* complement is complete and accepts what the bigger automaton does not;   *)
(* the product accepts the intersection, or the union.                      *)
THEOREM ConstructionsAreAlwaysRight == NaiveSpec => []ConstructionsAreRight
<1>1. NaiveInit => NaiveHolds
  BY NaiveHoldsAtFirst
<1>2. NaiveHolds /\ [NaiveNext]_naivevars => NaiveHolds'
  BY NaiveHoldsOn
<1>3. NaiveHolds => ConstructionsAreRight
  BY ConstructionsHold
<1>4. QED
  BY <1>1, <1>2, <1>3, PTL DEF NaiveSpec

(* The complement accepts the words over the alphabet, of any length, that  *)
(* the automaton does not accept; the product of nfa::product accepts those *)
(* that both its arguments accept, or, by Or, that one of them accepts.     *)
THEOREM LanguagesAreAlwaysRight == NaiveSpec => []LanguagesOfAnyLength
<1>1. NaiveInit => NaiveHolds
  BY NaiveHoldsAtFirst
<1>2. NaiveHolds /\ [NaiveNext]_naivevars => NaiveHolds'
  BY NaiveHoldsOn
<1>3. NaiveHolds => LanguagesOfAnyLength
  BY ComplementOfAnyLength, ProductOfAnyLength DEF LanguagesOfAnyLength
<1>4. QED
  BY <1>1, <1>2, <1>3, PTL DEF NaiveSpec

==============================================================================
