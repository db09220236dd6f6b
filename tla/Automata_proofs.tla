---------------------------- MODULE Automata_proofs ----------------------------
(***************************************************************************)
(* Lemmas about the operators of Automata, for automata of any size: what  *)
(* reading a word computes, and what the distances to the final states are.*)
(* Both are recursive functions; they are reasoned about by induction over *)
(* sets of natural numbers, which the first section derives.               *)
(***************************************************************************)
EXTENDS Automata, FiniteSetTheorems, SequenceTheorems, TLAPS

------------------------------------------------------------------------------
(* Induction over the natural numbers.                                      *)

(* The order of the natural numbers, as a relation.                         *)
LEMMA LessIsWellFounded ==
  \E R : IsWellFoundedOn(R, Nat) /\ \A x, y \in Nat : x < y => <<x, y>> \in R
<1>1. \A x, y \in Nat : x < y => <<x, y>> \in OpToRel(<, Nat)
  BY DEF OpToRel
<1>2. QED
  BY <1>1, NatLessThanWellFounded, Zenon

(* A set of natural numbers that is not empty has a least element.          *)
LEMMA LeastElement ==
  ASSUME NEW T \in SUBSET Nat, T # {}
  PROVE  \E n \in T : \A m \in T : n <= m
<1>1. PICK R : IsWellFoundedOn(R, Nat) /\ \A x, y \in Nat : x < y => <<x, y>> \in R
  BY LessIsWellFounded
<1>2. PICK n \in T : \A m \in T : ~ (<<m, n>> \in R)
  <2>1. T \subseteq Nat /\ IsWellFoundedOn(R, Nat)
    BY <1>1
  <2>2. QED
    BY <2>1, WFMin
<1>3. ASSUME NEW m \in T PROVE n <= m
  <2>1. m \in Nat /\ n \in Nat
    OBVIOUS
  <2>2. ~(m < n)
    BY <1>1, <1>2, <2>1
  <2>3. QED
    BY <2>1, <2>2
<1>4. QED
  BY <1>3

(* A set that holds 0, and n + 1 whenever it holds n, holds every number.   *)
LEMMA SetInduction ==
  ASSUME NEW S, 0 \in S, \A n \in Nat : n \in S => n + 1 \in S
  PROVE  Nat \subseteq S
<1> DEFINE T == Nat \ S
<1>1. SUFFICES ASSUME T # {} PROVE FALSE
  OBVIOUS
<1>2. PICK n \in T : \A m \in T : n <= m
  <2>1. T \in SUBSET Nat
    OBVIOUS
  <2> HIDE DEF T
  <2>2. QED
    BY <1>1, <2>1, LeastElement
<1>3. n \in Nat /\ n # 0
  OBVIOUS
<1>4. n - 1 \in Nat /\ ~(n <= n - 1) /\ n = (n - 1) + 1
  BY <1>3
<1>5. n - 1 \in S
  BY <1>2, <1>4
<1>6. QED
  BY <1>2, <1>4, <1>5

(* F[n] computes the n-th value from the one before, the base is the first. *)
IsStepwise(D, k, F) == \A n \in 1 .. k : F[n] \in [D -> D]
IsRecursion(D, k, base, F, f) ==
  f \in [0 .. k -> D] /\ f[0] = base /\ \A n \in 1 .. k : f[n] = F[n][f[n - 1]]

(* A function defined by recursion on its argument exists and has values in *)
(* D, when the base and every step have.                                    *)
LEMMA RecursionExists ==
  ASSUME NEW D, NEW base \in D, NEW k \in Nat, NEW F, IsStepwise(D, k, F)
  PROVE  \E f : IsRecursion(D, k, base, F, f)
<1> USE DEF IsStepwise, IsRecursion
<1> DEFINE Rec(j, f) == f[0] = base /\ \A n \in 1 .. j : f[n] = F[n][f[n - 1]]
           S == {j \in Nat : j <= k => \E f \in [0 .. j -> D] : Rec(j, f)}
<1>1. 0 \in S
  <2>1. [n \in 0 .. 0 |-> base] \in [0 .. 0 -> D] /\ Rec(0, [n \in 0 .. 0 |-> base])
    OBVIOUS
  <2>2. QED
    BY <2>1
<1>2. ASSUME NEW j \in Nat, j \in S PROVE j + 1 \in S
  <2> SUFFICES ASSUME j + 1 <= k PROVE \E g \in [0 .. j + 1 -> D] : Rec(j + 1, g)
    OBVIOUS
  <2>1. PICK f \in [0 .. j -> D] : Rec(j, f)
    BY <1>2
  <2> DEFINE g == [n \in 0 .. j + 1 |-> IF n = j + 1 THEN F[j + 1][f[j]] ELSE f[n]]
  <2>2. j \in 0 .. j /\ j + 1 \in 1 .. k /\ j + 1 # 0 /\ (j + 1) - 1 = j
    OBVIOUS
  <2>3. F[j + 1][f[j]] \in D
    BY <2>1, <2>2
  <2>4. g \in [0 .. j + 1 -> D]
    BY <2>1, <2>3
  <2>5. \A n \in 0 .. j : g[n] = f[n]
    OBVIOUS
  <2>6. g[j + 1] = F[j + 1][g[j]]
    BY <2>2, <2>5
  <2>7. ASSUME NEW n \in 1 .. j + 1 PROVE g[n] = F[n][g[n - 1]]
    <3>1. CASE n = j + 1
      BY <2>2, <2>6, <3>1
    <3>2. CASE n # j + 1
      <4>1. n \in 1 .. j /\ n \in 0 .. j /\ n - 1 \in 0 .. j
        BY <3>2
      <4>2. QED
        BY <2>1, <2>5, <4>1
    <3>3. QED
      BY <3>1, <3>2
  <2>8. g[0] = base
    BY <2>1, <2>5
  <2>9. QED
    BY <2>4, <2>7, <2>8
<1>3. k \in S
  <2> HIDE DEF S
  <2>1. QED
    BY <1>1, <1>2, SetInduction
<1>4. QED
  BY <1>3

------------------------------------------------------------------------------
(* Reading a word.                                                          *)

LEMMA PostIsSetOfStates == \A A, S, a : Post(A, S, a) \in SUBSET A.states
BY DEF Post

(* The sets of states the automaton is in while it reads the word from S.   *)
IsReading(A, S, word, f) ==
  /\ f \in [0 .. Len(word) -> SUBSET A.states]
  /\ f[0] = S
  /\ \A n \in 1 .. Len(word) : f[n] = Post(A, f[n - 1], word[n])

LEMMA ReadingExists ==
  ASSUME NEW A, NEW S \in SUBSET A.states, NEW word, Len(word) \in Nat
  PROVE  \E f : IsReading(A, S, word, f)
<1> DEFINE F == [n \in 1 .. Len(word) |-> [R \in SUBSET A.states |-> Post(A, R, word[n])]]
           D == SUBSET A.states
           k == Len(word)
<1>1. IsStepwise(D, k, F)
  BY PostIsSetOfStates DEF IsStepwise
<1>2. PICK f : IsRecursion(D, k, S, F, f)
  <2> HIDE DEF F, D, k
  <2>1. S \in D /\ k \in Nat
    BY DEF D, k
  <2>2. QED
    BY <1>1, <2>1, RecursionExists
<1>3. f[0] = S
  BY <1>2 DEF IsRecursion
<1>4. ASSUME NEW n \in 1 .. k PROVE f[n] = Post(A, f[n - 1], word[n])
  <2>1. n \in 0 .. k /\ n # 0 /\ n - 1 \in 0 .. k
    OBVIOUS
  <2>2. f[n] = F[n][f[n - 1]] /\ f[n - 1] \in D
    <3> HIDE DEF F, D, k
    <3>1. QED
      BY <1>2, <2>1 DEF IsRecursion
  <2>3. QED
    BY <2>2
<1>5. QED
  BY <1>2, <1>3, <1>4 DEF IsReading, IsRecursion

(* What is read from S is determined by the word.                           *)
LEMMA ReadingIsUnique ==
  ASSUME NEW A, NEW S, NEW word, Len(word) \in Nat,
         NEW f, NEW g, IsReading(A, S, word, f), IsReading(A, S, word, g)
  PROVE  f[Len(word)] = g[Len(word)]
<1> DEFINE T == {n \in Nat : n <= Len(word) => f[n] = g[n]}
<1>1. 0 \in T
  BY DEF IsReading
<1>2. ASSUME NEW n \in Nat, n \in T PROVE n + 1 \in T
  <2> SUFFICES ASSUME n + 1 <= Len(word) PROVE f[n + 1] = g[n + 1]
    OBVIOUS
  <2>1. n + 1 \in 1 .. Len(word) /\ (n + 1) - 1 = n
    OBVIOUS
  <2>2. f[n] = g[n]
    BY <1>2
  <2>3. QED
    BY <2>1, <2>2 DEF IsReading
<1>3. Len(word) \in T
  <2> HIDE DEF T
  <2>1. QED
    BY <1>1, <1>2, SetInduction
<1>4. QED
  BY <1>3

(* Read computes the last set of a reading from the initial states.         *)
LEMMA ReadIsReading ==
  ASSUME NEW A, NEW word, Len(word) \in Nat,
         NEW f, IsReading(A, A.initial, word, f)
  PROVE  Read(A, word) = f[Len(word)]
<1> DEFINE Rec(g) == g = [n \in 0 .. Len(word) |->
                            IF n = 0 THEN A.initial ELSE Post(A, g[n - 1], word[n])]
           at == CHOOSE g : Rec(g)
<1>1. Rec(f)
  <2>1. \A n \in 0 .. Len(word) :
          f[n] = IF n = 0 THEN A.initial ELSE Post(A, f[n - 1], word[n])
    BY DEF IsReading
  <2>2. f = [n \in 0 .. Len(word) |-> f[n]]
    BY DEF IsReading
  <2>3. QED
    BY <2>1, <2>2
<1>2. Rec(at)
  <2> HIDE DEF Rec
  <2>1. QED
    BY <1>1
<1>3. Read(A, word) = at[Len(word)]
  BY DEF Read
<1>4. IsReading(A, A.initial, word, at)
  <2> HIDE DEF at
  <2>1. ASSUME NEW n \in 0 .. Len(word)
        PROVE  at[n] = IF n = 0 THEN A.initial ELSE Post(A, at[n - 1], word[n])
    BY <1>2
  <2>2. at[0] = A.initial
    BY <2>1
  <2>3. \A n \in 1 .. Len(word) : at[n] = Post(A, at[n - 1], word[n])
    BY <2>1
  <2>4. \A n \in 0 .. Len(word) : at[n] \in SUBSET A.states
    <3>1. A.initial \in SUBSET A.states
      BY DEF IsReading
    <3>2. QED
      BY <2>1, <3>1, PostIsSetOfStates
  <2>5. at \in [0 .. Len(word) -> SUBSET A.states]
    BY <1>2, <2>4
  <2>6. QED
    BY <2>2, <2>3, <2>5 DEF IsReading
<1>5. QED
  <2> HIDE DEF at
  <2>1. QED
    BY <1>3, <1>4, ReadingIsUnique

(* A run leads into the set that is read.                                   *)
LEMMA RunIsRead ==
  ASSUME NEW A, NEW Symbol, IsAutomaton(A, Symbol), NEW word, Len(word) \in Nat,
         NEW path, IsRun(A, path, word), path[1] \in A.initial
  PROVE  path[Len(word) + 1] \in Read(A, word)
<1>1. A.initial \in SUBSET A.states
  BY DEF IsAutomaton
<1>2. PICK f : IsReading(A, A.initial, word, f)
  BY <1>1, ReadingExists
<1> DEFINE T == {n \in Nat : n <= Len(word) => path[n + 1] \in f[n]}
<1>3. 0 \in T
  BY <1>2 DEF IsReading
<1>4. ASSUME NEW n \in Nat, n \in T PROVE n + 1 \in T
  <2> SUFFICES ASSUME n + 1 <= Len(word) PROVE path[(n + 1) + 1] \in f[n + 1]
    OBVIOUS
  <2>1. n + 1 \in 1 .. Len(word) /\ (n + 1) - 1 = n
    OBVIOUS
  <2>2. path[n + 1] \in f[n]
    BY <1>4
  <2>3. <<path[n + 1], word[n + 1], path[(n + 1) + 1]>> \in A.delta
    BY <2>1 DEF IsRun
  <2>4. path[(n + 1) + 1] \in A.states
    BY <2>3 DEF IsAutomaton
  <2>5. f[n + 1] = Post(A, f[n], word[n + 1])
    BY <1>2, <2>1 DEF IsReading
  <2>6. QED
    BY <2>2, <2>3, <2>4, <2>5 DEF Post
<1>5. Len(word) \in T
  <2> HIDE DEF T
  <2>1. QED
    BY <1>3, <1>4, SetInduction
<1>6. QED
  BY <1>2, <1>5, ReadIsReading

(* Read in terms of its readings.                                           *)
LEMMA ReadExists ==
  ASSUME NEW A, A.initial \in SUBSET A.states, NEW word, Len(word) \in Nat
  PROVE  \E f : IsReading(A, A.initial, word, f) /\ Read(A, word) = f[Len(word)]
<1>1. PICK f : IsReading(A, A.initial, word, f)
  BY ReadingExists
<1>2. QED
  BY <1>1, ReadIsReading

LEMMA ReadIsSetOfStates ==
  ASSUME NEW A, A.initial \in SUBSET A.states, NEW word, Len(word) \in Nat
  PROVE  Read(A, word) \in SUBSET A.states
<1>1. PICK f : IsReading(A, A.initial, word, f) /\ Read(A, word) = f[Len(word)]
  BY ReadExists
<1>2. QED
  BY <1>1 DEF IsReading

LEMMA ReadEmpty ==
  ASSUME NEW A, A.initial \in SUBSET A.states
  PROVE  Read(A, << >>) = A.initial
<1>1. Len(<< >>) = 0
  OBVIOUS
<1>2. PICK f : IsReading(A, A.initial, << >>, f) /\ Read(A, << >>) = f[Len(<< >>)]
  BY <1>1, ReadExists
<1>3. QED
  BY <1>1, <1>2 DEF IsReading

(* One more letter at the end is one more move.                             *)
LEMMA ReadAppend ==
  ASSUME NEW A, A.initial \in SUBSET A.states, NEW D, NEW word \in Seq(D), NEW a \in D
  PROVE  Read(A, Append(word, a)) = Post(A, Read(A, word), a)
<1> DEFINE longer == Append(word, a)
           k == Len(word)
<1>1. /\ longer \in Seq(D) /\ Len(longer) = k + 1 /\ k \in Nat
      /\ \A n \in 1 .. k : longer[n] = word[n]
      /\ longer[k + 1] = a
  BY AppendProperties
<1>2. PICK f : IsReading(A, A.initial, word, f) /\ Read(A, word) = f[k]
  BY <1>1, ReadExists
<1> DEFINE g == [n \in 0 .. k + 1 |-> IF n = k + 1 THEN Post(A, f[k], a) ELSE f[n]]
<1> HIDE DEF longer, k
<1>3. f \in [0 .. k -> SUBSET A.states] /\ f[0] = A.initial
      /\ \A n \in 1 .. k : f[n] = Post(A, f[n - 1], word[n])
  BY <1>2 DEF IsReading, k
<1>4. g \in [0 .. k + 1 -> SUBSET A.states]
  BY <1>1, <1>3, PostIsSetOfStates
<1>5. \A n \in 0 .. k : g[n] = f[n]
  BY <1>1
<1>6. g[k + 1] = Post(A, f[k], a)
  BY <1>1
<1> HIDE DEF g
<1>7. ASSUME NEW n \in 1 .. k + 1 PROVE g[n] = Post(A, g[n - 1], longer[n])
  <2>1. CASE n = k + 1
    <3>1. n - 1 = k /\ k \in 0 .. k
      BY <1>1, <2>1
    <3>2. QED
      BY <1>1, <1>5, <1>6, <2>1, <3>1
  <2>2. CASE n # k + 1
    <3>1. n \in 1 .. k /\ n \in 0 .. k /\ n - 1 \in 0 .. k
      BY <1>1, <2>2
    <3>2. QED
      BY <1>1, <1>3, <1>5, <3>1
  <2>3. QED
    BY <2>1, <2>2
<1>8. 0 \in 0 .. k
  BY <1>1
<1>9. IsReading(A, A.initial, longer, g)
  BY <1>1, <1>3, <1>4, <1>5, <1>7, <1>8 DEF IsReading
<1>10. Read(A, longer) = g[k + 1]
  BY <1>1, <1>9, ReadIsReading
<1>11. QED
  BY <1>2, <1>6, <1>10 DEF longer

(* The automaton with other initial states.                                 *)
From(A, S) == [states |-> A.states, initial |-> S, final |-> A.final, delta |-> A.delta]

LEMMA FromKeepsMoves == \A A, S, R, a : Post(From(A, S), R, a) = Post(A, R, a)
BY DEF From, Post

LEMMA ReadFrom ==
  ASSUME NEW A, NEW S \in SUBSET A.states, NEW word, Len(word) \in Nat,
         NEW f, IsReading(A, S, word, f)
  PROVE  Read(From(A, S), word) = f[Len(word)]
<1>1. From(A, S).initial = S /\ From(A, S).states = A.states
  BY DEF From
<1>2. IsReading(From(A, S), S, word, f)
  BY <1>1, FromKeepsMoves DEF IsReading
<1>3. QED
  BY <1>1, <1>2, ReadIsReading

LEMMA ReadFromInitial ==
  ASSUME NEW A, A.initial \in SUBSET A.states, NEW word, Len(word) \in Nat
  PROVE  Read(From(A, A.initial), word) = Read(A, word)
<1>1. PICK f : IsReading(A, A.initial, word, f) /\ Read(A, word) = f[Len(word)]
  BY ReadExists
<1>2. QED
  BY <1>1, ReadFrom

(* Reading a word with one more letter in front: the first move, then the   *)
(* rest of the word.                                                        *)
IsPrefixedBy(a, word, longer) ==
  /\ Len(word) \in Nat /\ Len(longer) = Len(word) + 1
  /\ longer[1] = a /\ \A n \in 1 .. Len(word) : longer[n + 1] = word[n]

LEMMA ReadPrefixed ==
  ASSUME NEW A, NEW S \in SUBSET A.states, NEW a, NEW word, NEW longer,
         IsPrefixedBy(a, word, longer)
  PROVE  Read(From(A, S), longer) = Read(From(A, Post(A, S, a)), word)
<1> DEFINE k == Len(word)
           R == Post(A, S, a)
<1>1. /\ k \in Nat /\ Len(longer) = k + 1 /\ longer[1] = a
      /\ \A n \in 1 .. k : longer[n + 1] = word[n]
  BY DEF IsPrefixedBy
<1>2. R \in SUBSET A.states
  BY PostIsSetOfStates
<1>3. PICK f : IsReading(A, R, word, f)
  BY <1>1, <1>2, ReadingExists
<1> DEFINE g == [n \in 0 .. k + 1 |-> IF n = 0 THEN S ELSE f[n - 1]]
<1>4. f \in [0 .. k -> SUBSET A.states] /\ f[0] = R
      /\ \A n \in 1 .. k : f[n] = Post(A, f[n - 1], word[n])
  BY <1>3 DEF IsReading
<1> HIDE DEF k, R
<1>5. \A n \in 1 .. k + 1 : n - 1 \in 0 .. k /\ n # 0
  BY <1>1
<1>6. g \in [0 .. k + 1 -> SUBSET A.states]
  BY <1>1, <1>4, <1>5
<1>7. g[0] = S /\ \A n \in 1 .. k + 1 : g[n] = f[n - 1]
  BY <1>1
<1> HIDE DEF g
<1>8. ASSUME NEW n \in 1 .. k + 1 PROVE g[n] = Post(A, g[n - 1], longer[n])
  <2>1. CASE n = 1
    <3>1. g[n] = f[0] /\ g[n - 1] = S
      BY <1>7, <2>1
    <3>2. QED
      BY <1>1, <1>4, <2>1, <3>1 DEF R
  <2>2. CASE n # 1
    <3>1. n - 1 \in 1 .. k /\ n - 1 \in 1 .. k + 1 /\ (n - 1) + 1 = n
      BY <1>1, <2>2
    <3>2. g[n] = f[n - 1] /\ g[n - 1] = f[(n - 1) - 1] /\ longer[n] = word[n - 1]
      BY <1>1, <1>7, <3>1
    <3>3. QED
      BY <1>4, <3>1, <3>2
  <2>3. QED
    BY <2>1, <2>2
<1>9. IsReading(A, S, longer, g)
  BY <1>1, <1>6, <1>7, <1>8 DEF IsReading
<1>10. Read(From(A, S), longer) = g[k + 1]
  BY <1>1, <1>9, ReadFrom
<1>11. Read(From(A, R), word) = f[k]
  BY <1>1, <1>2, <1>3, ReadFrom DEF k
<1>12. k + 1 \in 1 .. k + 1 /\ (k + 1) - 1 = k
  BY <1>1
<1>13. QED
  BY <1>7, <1>10, <1>11, <1>12 DEF R

LEMMA ReadOneLetter ==
  ASSUME NEW A, NEW S \in SUBSET A.states, NEW a
  PROVE  Read(From(A, S), <<a>>) = Post(A, S, a)
<1> DEFINE R == Post(A, S, a)
           B == From(A, R)
<1>1. IsPrefixedBy(a, << >>, <<a>>)
  BY DEF IsPrefixedBy
<1>2. R \in SUBSET A.states
  BY PostIsSetOfStates
<1>3. B.initial = R /\ B.states = A.states
  BY DEF From
<1> HIDE DEF R, B
<1>4. Read(B, << >>) = R
  BY <1>2, <1>3, ReadEmpty
<1>5. Read(From(A, S), <<a>>) = Read(B, << >>)
  BY <1>1, ReadPrefixed DEF R, B
<1>6. QED
  BY <1>4, <1>5 DEF R

(* From more states more is read.                                           *)
LEMMA ReadMonotone ==
  ASSUME NEW A, NEW S \in SUBSET A.states, NEW R \in SUBSET A.states, S \subseteq R,
         NEW word, Len(word) \in Nat
  PROVE  Read(From(A, S), word) \subseteq Read(From(A, R), word)
<1>1. PICK f : IsReading(A, S, word, f)
  BY ReadingExists
<1>2. PICK g : IsReading(A, R, word, g)
  BY ReadingExists
<1> DEFINE T == {n \in Nat : n <= Len(word) => f[n] \subseteq g[n]}
<1>3. 0 \in T
  BY <1>1, <1>2 DEF IsReading
<1>4. ASSUME NEW n \in Nat, n \in T PROVE n + 1 \in T
  <2> SUFFICES ASSUME n + 1 <= Len(word) PROVE f[n + 1] \subseteq g[n + 1]
    OBVIOUS
  <2>1. n + 1 \in 1 .. Len(word) /\ (n + 1) - 1 = n /\ f[n] \subseteq g[n]
    BY <1>4
  <2>2. f[n + 1] = Post(A, f[n], word[n + 1]) /\ g[n + 1] = Post(A, g[n], word[n + 1])
    BY <1>1, <1>2, <2>1 DEF IsReading
  <2>3. QED
    BY <2>1, <2>2 DEF Post
<1>5. Len(word) \in T
  <2> HIDE DEF T
  <2>1. QED
    BY <1>3, <1>4, SetInduction
<1>6. f[Len(word)] \subseteq g[Len(word)]
  BY <1>5
<1>7. QED
  BY <1>1, <1>2, <1>6, ReadFrom

------------------------------------------------------------------------------
(* The distances to the final states.                                       *)

LEMMA FarBoundsStates ==
  ASSUME NEW A, Numbered(A)
  PROVE  /\ Far(A) \in Nat /\ Far(A) > 0
         /\ IsFiniteSet(A.states) /\ Cardinality(A.states) <= Far(A)
<1>1. CASE A.states = {}
  BY <1>1, FS_EmptySet DEF Far
<1>2. CASE A.states # {}
  <2>1. PICK last \in A.states : A.states = 0 .. last
    BY <1>2 DEF Numbered
  <2>2. last \in Nat
    BY DEF Numbered
  <2>3. IsFiniteSet(A.states) /\ Cardinality(A.states) = last + 1
    BY <2>1, <2>2, FS_Interval
  <2>4. Far(A) = 1 + last
    <3>1. \A m \in A.states : (\A s \in A.states : s <= m) <=> m = last
      BY <2>1, <2>2
    <3>2. (CHOOSE m \in A.states : \A s \in A.states : s <= m) = last
      BY <3>1
    <3>3. QED
      BY <1>2, <3>2 DEF Far
  <2>5. QED
    BY <2>2, <2>3, <2>4
<1>3. QED
  BY <1>1, <1>2

(* The states of S, and those from which a transition leads into S.         *)
WithStepInto(A, S) == S \cup {m[1] : m \in {k \in A.delta : k[3] \in S}}

(* f[n] is the set of states from which some word of at most n letters is   *)
(* accepted: the function DistanceToFinal computes.                         *)
IsWithin(A, f) ==
  /\ f \in [0 .. Far(A) -> SUBSET A.states]
  /\ f[0] = A.final
  /\ \A n \in 1 .. Far(A) : f[n] = WithStepInto(A, f[n - 1])

DistanceBy(A, f) ==
  [s \in A.states |->
     IF s \notin f[Far(A)] THEN Far(A)
     ELSE CHOOSE n \in 0 .. Far(A) : s \in f[n] /\ \A k \in 0 .. n - 1 : s \notin f[k]]

LEMMA WithinExists ==
  ASSUME NEW A, NEW Symbol, IsAutomaton(A, Symbol), Numbered(A)
  PROVE  \E f : IsWithin(A, f)
<1> DEFINE D == SUBSET A.states
           k == Far(A)
           F == [n \in 1 .. k |-> [S \in D |-> WithStepInto(A, S)]]
           base == A.final
<1>1. base \in D /\ k \in Nat
  BY FarBoundsStates DEF IsAutomaton
<1>2. \A S \in D : WithStepInto(A, S) \in D
  BY DEF WithStepInto, IsAutomaton
<1>3. IsStepwise(D, k, F)
  BY <1>2 DEF IsStepwise
<1>4. PICK f : IsRecursion(D, k, base, F, f)
  <2> HIDE DEF F, D, k, base
  <2>1. QED
    BY <1>1, <1>3, RecursionExists
<1>5. f \in [0 .. k -> D] /\ f[0] = base
  BY <1>4 DEF IsRecursion
<1>6. ASSUME NEW n \in 1 .. k PROVE f[n] = WithStepInto(A, f[n - 1])
  <2>1. n - 1 \in 0 .. k
    BY <1>1
  <2>2. f[n] = F[n][f[n - 1]] /\ f[n - 1] \in D
    <3> HIDE DEF F, D, k, base
    <3>1. QED
      BY <1>4, <1>5, <2>1 DEF IsRecursion
  <2>3. QED
    BY <2>2
<1>7. QED
  BY <1>5, <1>6 DEF IsWithin

LEMMA DistanceIsByWithin ==
  ASSUME NEW A, NEW Symbol, IsAutomaton(A, Symbol), Numbered(A)
  PROVE  \E f : IsWithin(A, f) /\ DistanceToFinal(A) = DistanceBy(A, f)
<1> DEFINE Rec(g) ==
      g = [n \in 0 .. Far(A) |->
             IF n = 0 THEN A.final
             ELSE LET before == g[n - 1]
                  IN before \cup {m[1] : m \in {k \in A.delta : k[3] \in before}}]
    within == CHOOSE g : Rec(g)
<1>1. PICK f : IsWithin(A, f)
  BY WithinExists
<1>2. Rec(f)
  <2>1. \A n \in 0 .. Far(A) :
          f[n] = IF n = 0 THEN A.final
                 ELSE LET before == f[n - 1]
                      IN before \cup {m[1] : m \in {k \in A.delta : k[3] \in before}}
    BY <1>1, FarBoundsStates DEF IsWithin, WithStepInto
  <2>2. f = [n \in 0 .. Far(A) |-> f[n]]
    BY <1>1 DEF IsWithin
  <2>3. QED
    BY <2>1, <2>2, Zenon
<1>3. Rec(within)
  <2> HIDE DEF Rec
  <2>1. QED
    BY <1>2
<1>4. DistanceToFinal(A) = DistanceBy(A, within)
  BY DEF DistanceToFinal, DistanceBy
<1>5. IsWithin(A, within)
  <2> HIDE DEF within
  <2>1. ASSUME NEW n \in 0 .. Far(A)
        PROVE  within[n] = IF n = 0 THEN A.final ELSE WithStepInto(A, within[n - 1])
    BY <1>3 DEF WithStepInto
  <2>2. within[0] = A.final
    BY <2>1, FarBoundsStates
  <2>3. \A n \in 1 .. Far(A) : within[n] = WithStepInto(A, within[n - 1])
    BY <2>1, FarBoundsStates
  <2> DEFINE T == {n \in Nat : n <= Far(A) => within[n] \in SUBSET A.states}
  <2>4. 0 \in T
    BY <2>2 DEF IsAutomaton
  <2>5. ASSUME NEW n \in Nat, n \in T PROVE n + 1 \in T
    <3> SUFFICES ASSUME n + 1 <= Far(A) PROVE within[n + 1] \in SUBSET A.states
      OBVIOUS
    <3>1. n + 1 \in 1 .. Far(A) /\ (n + 1) - 1 = n /\ within[n] \in SUBSET A.states
      BY <2>5, FarBoundsStates
    <3>2. within[n + 1] = WithStepInto(A, within[n])
      BY <2>3, <3>1
    <3>3. QED
      BY <3>1, <3>2 DEF WithStepInto, IsAutomaton
  <2>6. \A n \in 0 .. Far(A) : within[n] \in SUBSET A.states
    <3>1. Nat \subseteq T
      <4> HIDE DEF T
      <4>1. QED
        BY <2>4, <2>5, SetInduction
    <3>2. QED
      BY <3>1, FarBoundsStates
  <2>7. within \in [0 .. Far(A) -> SUBSET A.states]
    BY <1>3, <2>6
  <2>8. QED
    BY <2>2, <2>3, <2>7 DEF IsWithin
<1>6. QED
  <2> HIDE DEF within
  <2>1. QED
    BY <1>4, <1>5

LEMMA WithinGrows ==
  ASSUME NEW A, Numbered(A), NEW f, IsWithin(A, f),
         NEW i \in 0 .. Far(A), NEW j \in 0 .. Far(A), i <= j
  PROVE  f[i] \subseteq f[j]
<1> DEFINE T == {n \in Nat : i + n <= Far(A) => f[i] \subseteq f[i + n]}
<1>1. 0 \in T
  BY FarBoundsStates
<1>2. ASSUME NEW n \in Nat, n \in T PROVE n + 1 \in T
  <2> SUFFICES ASSUME i + (n + 1) <= Far(A) PROVE f[i] \subseteq f[i + (n + 1)]
    OBVIOUS
  <2>1. /\ i + (n + 1) \in 1 .. Far(A) /\ (i + (n + 1)) - 1 = i + n
        /\ f[i] \subseteq f[i + n]
    BY <1>2, FarBoundsStates
  <2>2. f[i + (n + 1)] = WithStepInto(A, f[i + n])
    BY <2>1 DEF IsWithin
  <2>3. QED
    BY <2>1, <2>2 DEF WithStepInto
<1>3. j - i \in Nat /\ i + (j - i) = j /\ j <= Far(A)
  BY FarBoundsStates
<1>4. j - i \in T
  <2> HIDE DEF T
  <2>1. QED
    BY <1>1, <1>2, <1>3, SetInduction
<1>5. QED
  BY <1>3, <1>4

(* There are too few states for the sets to grow in each of Far(A) steps, so *)
(* they do not grow in the last one.                                        *)
LEMMA WithinSaturates ==
  ASSUME NEW A, Numbered(A), NEW f, IsWithin(A, f)
  PROVE  f[Far(A)] = f[Far(A) - 1]
<1>1. SUFFICES ASSUME f[Far(A)] # f[Far(A) - 1] PROVE FALSE
  OBVIOUS
<1>2. Far(A) \in Nat /\ Far(A) > 0
  BY FarBoundsStates
<1>3. ASSUME NEW n \in 0 .. Far(A) - 1 PROVE f[n + 1] # f[n]
  <2> SUFFICES ASSUME f[n + 1] = f[n] PROVE FALSE
    OBVIOUS
  <2> DEFINE T == {k \in Nat : (n + k) + 1 <= Far(A) => f[(n + k) + 1] = f[n + k]}
  <2>1. 0 \in T
    BY <1>2
  <2>2. ASSUME NEW k \in Nat, k \in T PROVE k + 1 \in T
    <3> SUFFICES ASSUME (n + (k + 1)) + 1 <= Far(A)
                 PROVE  f[(n + (k + 1)) + 1] = f[n + (k + 1)]
      OBVIOUS
    <3> DEFINE j == n + k
    <3>1. j + 1 \in 1 .. Far(A) /\ (j + 1) + 1 \in 1 .. Far(A)
          /\ (j + 1) - 1 = j /\ ((j + 1) + 1) - 1 = j + 1 /\ n + (k + 1) = j + 1
      BY <1>2
    <3>2. f[j + 1] = f[j]
      BY <2>2, <3>1, <1>2
    <3>3. f[j + 1] = WithStepInto(A, f[j]) /\ f[(j + 1) + 1] = WithStepInto(A, f[j + 1])
      <4> HIDE DEF j
      <4>1. QED
        BY <3>1 DEF IsWithin
    <3>4. f[(j + 1) + 1] = f[j + 1]
      BY <3>2, <3>3
    <3>5. QED
      BY <3>1, <3>4
  <2>3. (Far(A) - 1) - n \in T
    <3>1. (Far(A) - 1) - n \in Nat
      BY <1>2
    <3> HIDE DEF T
    <3>2. QED
      BY <2>1, <2>2, <3>1, SetInduction
  <2>4. n + ((Far(A) - 1) - n) = Far(A) - 1 /\ (Far(A) - 1) + 1 = Far(A)
    BY <1>2
  <2>5. QED
    BY <1>1, <1>2, <2>3, <2>4
<1> DEFINE T == {n \in Nat : n <= Far(A) => IsFiniteSet(f[n]) /\ Cardinality(f[n]) >= n + 1}
<1>4. \A n \in 0 .. Far(A) : /\ f[n] \in SUBSET A.states
                             /\ IsFiniteSet(f[n]) /\ Cardinality(f[n]) \in Nat
                             /\ Cardinality(f[n]) <= Cardinality(A.states)
  <2>1. \A n \in 0 .. Far(A) : f[n] \in SUBSET A.states
    BY DEF IsWithin
  <2>2. IsFiniteSet(A.states)
    BY FarBoundsStates
  <2>3. \A n \in 0 .. Far(A) : IsFiniteSet(f[n]) /\ Cardinality(f[n]) <= Cardinality(A.states)
    BY <2>1, <2>2, FS_Subset
  <2>4. QED
    BY <2>1, <2>3, FS_CardinalityType
<1>5. 0 \in T
  <2>1. f[1] # f[0] /\ f[1] = WithStepInto(A, f[0])
    BY <1>2, <1>3 DEF IsWithin
  <2>2. f[0] # {}
    BY <2>1 DEF WithStepInto
  <2>3. 0 \in 0 .. Far(A)
    BY <1>2
  <2>4. IsFiniteSet(f[0]) /\ Cardinality(f[0]) # 0 /\ Cardinality(f[0]) \in Nat
    BY <1>4, <2>2, <2>3, FS_EmptySet
  <2>5. QED
    BY <2>4
<1>6. ASSUME NEW n \in Nat, n \in T PROVE n + 1 \in T
  <2> SUFFICES ASSUME n + 1 <= Far(A) PROVE Cardinality(f[n + 1]) >= (n + 1) + 1
    BY <1>2, <1>4
  <2>1. n \in 0 .. Far(A) - 1 /\ n \in 0 .. Far(A) /\ n + 1 \in 0 .. Far(A) /\ n <= n + 1
    BY <1>2
  <2>2. f[n] \in SUBSET f[n + 1] /\ f[n + 1] # f[n]
    BY <1>3, <2>1, WithinGrows
  <2>3. IsFiniteSet(f[n]) /\ IsFiniteSet(f[n + 1])
        /\ Cardinality(f[n]) \in Nat /\ Cardinality(f[n + 1]) \in Nat
    BY <1>4, <2>1
  <2>4. /\ Cardinality(f[n]) <= Cardinality(f[n + 1])
        /\ Cardinality(f[n + 1]) = Cardinality(f[n]) => f[n + 1] = f[n]
    BY <2>2, <2>3, FS_Subset
  <2>5. Cardinality(f[n]) >= n + 1
    BY <1>6, <2>1
  <2>6. QED
    BY <2>2, <2>3, <2>4, <2>5
<1>7. Nat \subseteq T
  <2> HIDE DEF T
  <2>1. QED
    BY <1>5, <1>6, SetInduction
<1>8. Cardinality(f[Far(A)]) >= Far(A) + 1
  BY <1>2, <1>7
<1>9. Cardinality(f[Far(A)]) <= Cardinality(A.states) /\ Cardinality(f[Far(A)]) \in Nat
  BY <1>2, <1>4
<1>10. Cardinality(A.states) \in Nat /\ Cardinality(A.states) <= Far(A)
  BY FarBoundsStates, FS_CardinalityType
<1>11. QED
  BY <1>2, <1>8, <1>9, <1>10

(* The distance is the first step at which the state is in the set; a state *)
(* that is in none of them is as far as Far(A), and no other is.            *)
LEMMA DistanceIsFirst ==
  ASSUME NEW A, Numbered(A), NEW f, IsWithin(A, f), NEW s \in A.states
  PROVE  LET d == DistanceBy(A, f)[s]
         IN /\ d \in 0 .. Far(A)
            /\ d < Far(A) => s \in f[d]
            /\ \A k \in 0 .. Far(A) : s \in f[k] => d <= k /\ d < Far(A)
<1> DEFINE d == DistanceBy(A, f)[s]
           First(n) == s \in f[n] /\ \A k \in 0 .. n - 1 : s \notin f[k]
<1>1. Far(A) \in Nat /\ Far(A) > 0
  BY FarBoundsStates
<1>2. CASE s \notin f[Far(A)]
  <2>1. d = Far(A)
    BY <1>2 DEF DistanceBy
  <2>2. \A k \in 0 .. Far(A) : s \notin f[k]
    <3> SUFFICES ASSUME NEW k \in 0 .. Far(A) PROVE s \notin f[k]
      OBVIOUS
    <3>1. f[k] \subseteq f[Far(A)]
      <4>1. Far(A) \in 0 .. Far(A) /\ k <= Far(A)
        BY <1>1
      <4>2. QED
        BY <4>1, WithinGrows
    <3>2. QED
      BY <1>2, <3>1
  <2>3. QED
    BY <1>1, <2>1, <2>2
<1>3. CASE s \in f[Far(A)]
  <2>1. d = CHOOSE n \in 0 .. Far(A) : First(n)
    BY <1>3 DEF DistanceBy
  <2> DEFINE T == {n \in 0 .. Far(A) : s \in f[n]}
  <2>2. Far(A) \in T /\ Far(A) - 1 \in T /\ T \in SUBSET Nat
    BY <1>1, <1>3, WithinSaturates
  <2>3. PICK n \in T : \A m \in T : n <= m
    <3> HIDE DEF T
    <3>1. QED
      BY <2>2, LeastElement
  <2>4. First(n)
    <3> SUFFICES ASSUME NEW k \in 0 .. n - 1, s \in f[k] PROVE FALSE
      BY <2>3
    <3>1. k \in T /\ ~(n <= k)
      BY <1>1
    <3>2. QED
      BY <2>3, <3>1
  <2>5. d \in 0 .. Far(A) /\ First(d)
    <3> HIDE DEF d, First
    <3>1. QED
      BY <2>1, <2>3, <2>4
  <2>6. \A k \in 0 .. Far(A) : s \in f[k] => d <= k
    <3> HIDE DEF d
    <3>1. QED
      BY <1>1, <2>5
  <2>7. d <= Far(A) - 1
    BY <2>2, <2>6
  <2> HIDE DEF d
  <2>8. d < Far(A)
    BY <1>1, <2>5, <2>7
  <2>9. QED
    BY <2>5, <2>6, <2>8 DEF d
<1>4. QED
  BY <1>2, <1>3

(* The distances: 0 on the final states alone; a transition never shortens  *)
(* the way by more than one, and a way ends before Far(A) if it does from   *)
(* the target; from every other state from which there is a way, some       *)
(* transition gets closer.                                                  *)
AreDistances(A, d) ==
  /\ d \in [A.states -> 0 .. Far(A)]
  /\ \A s \in A.states : d[s] = 0 <=> s \in A.final
  /\ \A k \in A.delta : d[k[3]] < Far(A) => d[k[1]] < Far(A) /\ d[k[1]] <= d[k[3]] + 1
  /\ \A s \in A.states : 0 < d[s] /\ d[s] < Far(A) =>
                           \E k \in A.delta : k[1] = s /\ d[k[3]] < d[s]

(* What distances_to_final returns are the distances.                       *)
THEOREM DistancesToFinal ==
  ASSUME NEW A, NEW Symbol, IsAutomaton(A, Symbol), Numbered(A)
  PROVE  AreDistances(A, DistanceToFinal(A))
<1>1. PICK f : IsWithin(A, f) /\ DistanceToFinal(A) = DistanceBy(A, f)
  BY DistanceIsByWithin
<1> DEFINE d == DistanceBy(A, f)
<1>2. Far(A) \in Nat /\ Far(A) > 0
  BY FarBoundsStates
<1>3. d \in [A.states -> 0 .. Far(A)]
  <2>1. \A s \in A.states : d[s] \in 0 .. Far(A)
    BY <1>1, DistanceIsFirst
  <2>2. QED
    BY <2>1 DEF DistanceBy
<1>4. \A s \in A.states : d[s] < Far(A) => s \in f[d[s]]
  BY <1>1, DistanceIsFirst
<1>5. \A s \in A.states : \A k \in 0 .. Far(A) : s \in f[k] => d[s] <= k /\ d[s] < Far(A)
  BY <1>1, DistanceIsFirst
<1> HIDE DEF d
<1>6. f[0] = A.final
        /\ \A n \in 1 .. Far(A) : f[n] = WithStepInto(A, f[n - 1])
  BY <1>1 DEF IsWithin
<1>7. \A s \in A.states : d[s] = 0 <=> s \in A.final
  <2> TAKE s \in A.states
  <2>1. d[s] \in 0 .. Far(A) /\ 0 \in 0 .. Far(A)
    BY <1>2, <1>3
  <2>2. ASSUME d[s] = 0 PROVE s \in A.final
    BY <1>2, <1>4, <1>6, <2>2
  <2>3. ASSUME s \in A.final PROVE d[s] = 0
    BY <1>2, <1>5, <1>6, <2>1, <2>3
  <2>4. QED
    BY <2>2, <2>3
<1>8. ASSUME NEW k \in A.delta, d[k[3]] < Far(A)
      PROVE  d[k[1]] < Far(A) /\ d[k[1]] <= d[k[3]] + 1
  <2>1. k[1] \in A.states /\ k[3] \in A.states
    BY DEF IsAutomaton
  <2> DEFINE n == d[k[3]] + 1
  <2>2. n \in 1 .. Far(A) /\ n \in 0 .. Far(A) /\ n - 1 = d[k[3]]
    BY <1>2, <1>3, <1>8, <2>1
  <2>3. k[3] \in f[n - 1]
    BY <1>4, <1>8, <2>1, <2>2
  <2>4. f[n] = WithStepInto(A, f[n - 1])
    <3> HIDE DEF n
    <3>1. QED
      BY <1>6, <2>2
  <2>5. k[1] \in f[n]
    BY <2>3, <2>4 DEF WithStepInto
  <2>6. QED
    BY <1>5, <2>1, <2>2, <2>5
<1>9. ASSUME NEW s \in A.states, 0 < d[s], d[s] < Far(A)
      PROVE  \E k \in A.delta : k[1] = s /\ d[k[3]] < d[s]
  <2>1. d[s] \in 1 .. Far(A) /\ d[s] \in Nat /\ d[s] - 1 \in 0 .. Far(A)
    BY <1>2, <1>3, <1>9
  <2>2. s \in f[d[s]] /\ s \notin f[d[s] - 1]
    BY <1>4, <1>5, <1>9, <2>1
  <2>3. f[d[s]] = WithStepInto(A, f[d[s] - 1])
    BY <1>6, <2>1
  <2>4. PICK k \in A.delta : k[1] = s /\ k[3] \in f[d[s] - 1]
    BY <2>2, <2>3 DEF WithStepInto
  <2>5. k[3] \in A.states
    BY DEF IsAutomaton
  <2>6. d[k[3]] <= d[s] - 1 /\ d[k[3]] \in 0 .. Far(A)
    BY <1>3, <1>5, <2>1, <2>4, <2>5
  <2>7. d[k[3]] < d[s]
    BY <1>2, <2>1, <2>6
  <2>8. QED
    BY <2>4, <2>7
<1>10. AreDistances(A, d)
  BY <1>3, <1>7, <1>8, <1>9 DEF AreDistances
<1>11. QED
  BY <1>1, <1>10 DEF d

(***************************************************************************)
(* What a set of states reaches, by as many stages as there are states, is *)
(* the least set that holds S and every target of a move from itself.      *)
(***************************************************************************)
WithTargets(A, S) == S \cup {m[3] : m \in {k \in A.delta : k[1] \in S}}

ReachIn(A, S) ==
  LET within[n \in 0 .. Cardinality(A.states)] ==
        IF n = 0 THEN S
        ELSE LET before == within[n - 1]
             IN before \cup {m[3] : m \in {k \in A.delta : k[1] \in before}}
  IN within[Cardinality(A.states)]

IsStages(A, S, N, f) ==
  /\ f \in [0 .. N -> SUBSET A.states]
  /\ f[0] = S
  /\ \A n \in 1 .. N : f[n] = WithTargets(A, f[n - 1])

MovesInside(A) == A.delta \subseteq A.states \X Nat \X A.states

LEMMA TargetsInside ==
  ASSUME NEW A, MovesInside(A), NEW S \in SUBSET A.states
  PROVE  WithTargets(A, S) \in SUBSET A.states /\ S \subseteq WithTargets(A, S)
BY DEF MovesInside, WithTargets

LEMMA StagesExist ==
  ASSUME NEW A, MovesInside(A), NEW S \in SUBSET A.states, NEW N \in Nat
  PROVE  \E f : IsStages(A, S, N, f)
<1> DEFINE D == SUBSET A.states
           F == [n \in 1 .. N |-> [R \in D |-> WithTargets(A, R)]]
<1>1. \A R \in D : WithTargets(A, R) \in D
  BY TargetsInside
<1>2. IsStepwise(D, N, F)
  BY <1>1 DEF IsStepwise
<1>3. PICK f : IsRecursion(D, N, S, F, f)
  <2> HIDE DEF F
  <2>1. QED
    BY <1>2, RecursionExists
<1>4. f \in [0 .. N -> D] /\ f[0] = S
  BY <1>3 DEF IsRecursion
<1>5. ASSUME NEW n \in 1 .. N PROVE f[n] = WithTargets(A, f[n - 1])
  <2>1. n - 1 \in 0 .. N
    OBVIOUS
  <2>2. f[n] = F[n][f[n - 1]] /\ f[n - 1] \in D
    <3> HIDE DEF F, D
    <3>1. QED
      BY <1>3, <1>4, <2>1 DEF IsRecursion
  <2>3. QED
    BY <2>2
<1>6. QED
  BY <1>4, <1>5 DEF IsStages

LEMMA ReachIsStages ==
  ASSUME NEW A, MovesInside(A), IsFiniteSet(A.states), NEW S \in SUBSET A.states
  PROVE  \E f : IsStages(A, S, Cardinality(A.states), f)
                /\ ReachIn(A, S) = f[Cardinality(A.states)]
<1>1. PICK N \in Nat : N = Cardinality(A.states)
  BY FS_CardinalityType
<1> DEFINE Rec(g) ==
      g = [n \in 0 .. N |->
             IF n = 0 THEN S
             ELSE LET before == g[n - 1]
                  IN before \cup {m[3] : m \in {k \in A.delta : k[1] \in before}}]
    within == CHOOSE g : Rec(g)
<1>2. PICK f : IsStages(A, S, N, f)
  BY StagesExist
<1>3. Rec(f)
  <2>1. \A n \in 0 .. N :
          f[n] = IF n = 0 THEN S
                 ELSE LET before == f[n - 1]
                      IN before \cup {m[3] : m \in {k \in A.delta : k[1] \in before}}
    BY <1>2 DEF IsStages, WithTargets
  <2>2. f = [n \in 0 .. N |-> f[n]]
    BY <1>2 DEF IsStages
  <2>3. QED
    BY <2>1, <2>2, Zenon
<1>4. Rec(within)
  <2> HIDE DEF Rec
  <2>1. QED
    BY <1>3
<1>5. ReachIn(A, S) = within[N]
  BY <1>1 DEF ReachIn
<1>6. IsStages(A, S, N, within)
  <2> HIDE DEF within
  <2>1. ASSUME NEW n \in 0 .. N
        PROVE  within[n] = IF n = 0 THEN S ELSE WithTargets(A, within[n - 1])
    BY <1>4 DEF WithTargets
  <2>2. within[0] = S
    BY <2>1
  <2>3. \A n \in 1 .. N : within[n] = WithTargets(A, within[n - 1])
    BY <2>1
  <2> DEFINE T == {n \in Nat : n <= N => within[n] \in SUBSET A.states}
  <2>4. 0 \in T
    BY <2>2
  <2>5. ASSUME NEW n \in Nat, n \in T PROVE n + 1 \in T
    <3> SUFFICES ASSUME n + 1 <= N PROVE within[n + 1] \in SUBSET A.states
      OBVIOUS
    <3>1. n + 1 \in 1 .. N /\ (n + 1) - 1 = n /\ within[n] \in SUBSET A.states
      BY <2>5
    <3>2. within[n + 1] = WithTargets(A, within[n])
      BY <2>3, <3>1
    <3>3. QED
      BY <3>1, <3>2, TargetsInside
  <2>6. \A n \in 0 .. N : within[n] \in SUBSET A.states
    <3>1. Nat \subseteq T
      <4> HIDE DEF T
      <4>1. QED
        BY <2>4, <2>5, SetInduction
    <3>2. QED
      BY <3>1
  <2>7. within \in [0 .. N -> SUBSET A.states]
    BY <1>4, <2>6
  <2>8. QED
    BY <2>2, <2>3, <2>7 DEF IsStages
<1>7. QED
  <2> HIDE DEF within
  <2>1. QED
    BY <1>1, <1>5, <1>6

(* There are not enough states for a stage to be new at every step.         *)
LEMMA StagesSettle ==
  ASSUME NEW A, MovesInside(A), IsFiniteSet(A.states), NEW S \in SUBSET A.states,
         NEW N \in Nat, N = Cardinality(A.states), NEW f, IsStages(A, S, N, f)
  PROVE  WithTargets(A, f[N]) = f[N]
<1> DEFINE Settled(n) == WithTargets(A, f[n]) = f[n]
           T == {n \in Nat : n <= N => Settled(n) \/ Cardinality(f[n]) >= n + 1}
<1>1. \A n \in 0 .. N : /\ f[n] \in SUBSET A.states
                        /\ IsFiniteSet(f[n]) /\ Cardinality(f[n]) \in Nat
                        /\ Cardinality(f[n]) <= N
  <2>1. \A n \in 0 .. N : f[n] \in SUBSET A.states
    BY DEF IsStages
  <2>2. \A n \in 0 .. N : IsFiniteSet(f[n]) /\ Cardinality(f[n]) <= Cardinality(A.states)
    BY <2>1, FS_Subset
  <2>3. QED
    BY <2>1, <2>2, FS_CardinalityType
<1>2. 0 \in T
  <2>1. CASE S = {}
    BY <2>1 DEF IsStages, WithTargets
  <2>2. CASE S # {}
    <3>1. f[0] # {} /\ 0 \in 0 .. N
      BY <2>2 DEF IsStages
    <3>2. Cardinality(f[0]) # 0 /\ Cardinality(f[0]) \in Nat
      BY <1>1, <3>1, FS_EmptySet
    <3>3. QED
      BY <3>2
  <2>3. QED
    BY <2>1, <2>2
<1>3. ASSUME NEW n \in Nat, n \in T PROVE n + 1 \in T
  <2> SUFFICES ASSUME n + 1 <= N PROVE Settled(n + 1) \/ Cardinality(f[n + 1]) >= (n + 1) + 1
    OBVIOUS
  <2>1. n \in 0 .. N /\ n + 1 \in 0 .. N /\ n + 1 \in 1 .. N /\ (n + 1) - 1 = n
    OBVIOUS
  <2>2. f[n + 1] = WithTargets(A, f[n])
    BY <2>1 DEF IsStages
  <2>3. CASE Settled(n)
    BY <2>2, <2>3
  <2>4. CASE ~Settled(n)
    <3>1. f[n] \in SUBSET f[n + 1] /\ f[n + 1] # f[n]
      BY <2>2, <2>4, <2>1, <1>1, TargetsInside
    <3>2. Cardinality(f[n]) >= n + 1
      BY <1>3, <2>1, <2>4
    <3>3. /\ Cardinality(f[n]) <= Cardinality(f[n + 1])
          /\ Cardinality(f[n + 1]) = Cardinality(f[n]) => f[n + 1] = f[n]
      BY <1>1, <2>1, <3>1, FS_Subset
    <3>4. Cardinality(f[n]) \in Nat /\ Cardinality(f[n + 1]) \in Nat
      BY <1>1, <2>1
    <3>5. QED
      BY <3>1, <3>2, <3>3, <3>4
  <2>5. QED
    BY <2>3, <2>4
<1>4. N \in T
  <2> HIDE DEF T
  <2>1. QED
    BY <1>2, <1>3, SetInduction
<1>5. QED
  BY <1>1, <1>4

(* The last stage is the least closed set.                                  *)
LEMMA LastStageHolds ==
  ASSUME NEW A, MovesInside(A), IsFiniteSet(A.states), NEW S \in SUBSET A.states,
         NEW N \in Nat, N = Cardinality(A.states), NEW f, IsStages(A, S, N, f)
  PROVE  /\ f[N] \in SUBSET A.states /\ S \subseteq f[N]
         /\ \A m \in A.delta : m[1] \in f[N] => m[3] \in f[N]
<1>3. WithTargets(A, f[N]) = f[N]
  BY StagesSettle
<1>9. N \in 0 .. N /\ f[N] \in SUBSET A.states
  BY DEF IsStages
<1> DEFINE T == {n \in Nat : n <= N => S \subseteq f[n]}
<1>4. 0 \in T
  BY DEF IsStages
<1>5. ASSUME NEW n \in Nat, n \in T PROVE n + 1 \in T
  <2> SUFFICES ASSUME n + 1 <= N PROVE S \subseteq f[n + 1]
    OBVIOUS
  <2>1. n + 1 \in 1 .. N /\ (n + 1) - 1 = n /\ n \in 0 .. N /\ n <= N
    OBVIOUS
  <2>2. f[n + 1] = WithTargets(A, f[n]) /\ f[n] \in SUBSET A.states
    BY <2>1 DEF IsStages
  <2>3. QED
    BY <1>5, <2>1, <2>2, TargetsInside
<1>6. N \in T
  <2> HIDE DEF T
  <2>1. QED
    BY <1>4, <1>5, SetInduction
<1>7. QED
  BY <1>3, <1>6, <1>9 DEF WithTargets

LEMMA LastStageIsLeast ==
  ASSUME NEW A, NEW S, NEW N \in Nat, NEW f, IsStages(A, S, N, f),
         NEW C, S \subseteq C, \A m \in A.delta : m[1] \in C => m[3] \in C
  PROVE  f[N] \subseteq C
<1> DEFINE T == {n \in Nat : n <= N => f[n] \subseteq C}
<1>4. 0 \in T
  BY DEF IsStages
<1>5. ASSUME NEW n \in Nat, n \in T PROVE n + 1 \in T
  <2> SUFFICES ASSUME n + 1 <= N PROVE f[n + 1] \subseteq C
    OBVIOUS
  <2>1. n + 1 \in 1 .. N /\ (n + 1) - 1 = n /\ n <= N
    OBVIOUS
  <2>2. f[n + 1] = WithTargets(A, f[n])
    BY <2>1 DEF IsStages
  <2>3. QED
    BY <1>5, <2>1, <2>2 DEF WithTargets
<1>6. N \in T
  <2> HIDE DEF T
  <2>1. QED
    BY <1>4, <1>5, SetInduction
<1>7. QED
  BY <1>6

LEMMA ReachHolds ==
  ASSUME NEW A, MovesInside(A), IsFiniteSet(A.states), NEW S \in SUBSET A.states
  PROVE  /\ ReachIn(A, S) \in SUBSET A.states /\ S \subseteq ReachIn(A, S)
         /\ \A m \in A.delta : m[1] \in ReachIn(A, S) => m[3] \in ReachIn(A, S)
<1>1. PICK N \in Nat : N = Cardinality(A.states)
  BY FS_CardinalityType
<1>2. PICK f : IsStages(A, S, N, f) /\ ReachIn(A, S) = f[N]
  BY <1>1, ReachIsStages
<1>3. IsStages(A, S, N, f) /\ N = Cardinality(A.states)
  BY <1>1, <1>2
<1>4. /\ f[N] \in SUBSET A.states /\ S \subseteq f[N]
      /\ \A m \in A.delta : m[1] \in f[N] => m[3] \in f[N]
  BY <1>3, LastStageHolds
<1>5. QED
  BY <1>2, <1>4

LEMMA ReachIsLeast ==
  ASSUME NEW A, MovesInside(A), IsFiniteSet(A.states), NEW S \in SUBSET A.states,
         NEW C, S \subseteq C, \A m \in A.delta : m[1] \in C => m[3] \in C
  PROVE  ReachIn(A, S) \subseteq C
<1>1. PICK N \in Nat : N = Cardinality(A.states)
  BY FS_CardinalityType
<1>2. PICK f : IsStages(A, S, N, f) /\ ReachIn(A, S) = f[N]
  BY <1>1, ReachIsStages
<1>3. f[N] \subseteq C
  BY <1>2, LastStageIsLeast
<1>4. QED
  BY <1>2, <1>3

(***************************************************************************)
(* Counting the members of a set of numbers below a number.                *)
(***************************************************************************)
CountBelow(U, q) == Cardinality({r \in U : r < q})

LEMMA CountIsNumber ==
  ASSUME NEW U \in SUBSET Nat, NEW q \in Nat
  PROVE  /\ CountBelow(U, q) \in Nat /\ CountBelow(U, q) <= q
         /\ IsFiniteSet({r \in U : r < q})
<1>1. IsFiniteSet(0 .. q - 1) /\ Cardinality(0 .. q - 1) = q
  <2>1. IsFiniteSet(0 .. q - 1)
        /\ Cardinality(0 .. q - 1) = IF 0 > q - 1 THEN 0 ELSE (q - 1) - 0 + 1
    BY FS_Interval
  <2>2. QED
    BY <2>1
<1>2. \A r \in U : r \in Nat
  OBVIOUS
<1>3. \A r \in U : r < q => r \in 0 .. q - 1
  BY <1>2
<1>4. {r \in U : r < q} \in SUBSET (0 .. q - 1)
  BY <1>3
<1>5. /\ IsFiniteSet({r \in U : r < q})
      /\ Cardinality({r \in U : r < q}) <= Cardinality(0 .. q - 1)
  BY <1>1, <1>4, FS_Subset
<1>6. Cardinality({r \in U : r < q}) \in Nat
  BY <1>5, FS_CardinalityType
<1>7. QED
  BY <1>1, <1>5, <1>6 DEF CountBelow

LEMMA CountSteps ==
  ASSUME NEW U \in SUBSET Nat, NEW q \in Nat
  PROVE  /\ CountBelow(U, 0) = 0
         /\ q \in U => CountBelow(U, q + 1) = CountBelow(U, q) + 1
         /\ q \notin U => CountBelow(U, q + 1) = CountBelow(U, q)
<1> DEFINE Under(n) == {r \in U : r < n}
<1>1. \A r \in U : r \in Nat
  OBVIOUS
<1>2. Under(0) = {}
  <2>1. \A r \in U : ~(r < 0)
    BY <1>1
  <2>2. QED
    BY <2>1
<1>3. \A r \in U : r < q + 1 <=> r < q \/ r = q
  BY <1>1
<1>4. q \notin Under(q) /\ IsFiniteSet(Under(q))
  BY CountIsNumber
<1>5. q \in U => Under(q + 1) = Under(q) \cup {q}
  BY <1>3
<1>6. q \notin U => Under(q + 1) = Under(q)
  BY <1>3
<1>7. \A n : CountBelow(U, n) = Cardinality(Under(n))
  BY DEF CountBelow
<1> HIDE DEF Under
<1>8. Cardinality(Under(q) \cup {q}) = Cardinality(Under(q)) + 1
  BY <1>4, FS_AddElement
<1>9. QED
  BY <1>2, <1>5, <1>6, <1>7, <1>8, FS_EmptySet

LEMMA CountGrows ==
  ASSUME NEW U \in SUBSET Nat, NEW q \in U, NEW r \in Nat, q < r
  PROVE  CountBelow(U, q) < CountBelow(U, r)
<1>1. q \in Nat /\ q + 1 \in Nat /\ \A x \in U : x \in Nat
  OBVIOUS
<1>2. CountBelow(U, q + 1) = CountBelow(U, q) + 1
  BY <1>1, CountSteps
<1>3. \A x \in U : x < q + 1 => x < r
  BY <1>1
<1>4. {x \in U : x < q + 1} \in SUBSET {x \in U : x < r}
  BY <1>3
<1>5. IsFiniteSet({x \in U : x < r})
  BY CountIsNumber
<1>6. CountBelow(U, q + 1) <= CountBelow(U, r)
  BY <1>4, <1>5, FS_Subset DEF CountBelow
<1>7. CountBelow(U, q) \in Nat /\ CountBelow(U, r) \in Nat
  BY <1>1, CountIsNumber
<1>8. QED
  BY <1>2, <1>6, <1>7

(* Every smaller number is the number of a member.                          *)
LEMMA CountReaches ==
  ASSUME NEW U \in SUBSET Nat, NEW n \in Nat
  PROVE  \A k \in 0 .. CountBelow(U, n) - 1 : \E q \in U : q < n /\ k = CountBelow(U, q)
<1> DEFINE T == {j \in Nat : \A k \in 0 .. CountBelow(U, j) - 1 :
                   \E q \in U : q < j /\ k = CountBelow(U, q)}
<1>1. 0 \in T
  BY CountSteps
<1>2. ASSUME NEW j \in Nat, j \in T PROVE j + 1 \in T
  <2>1. ASSUME NEW k \in 0 .. CountBelow(U, j + 1) - 1
        PROVE  \E q \in U : q < j + 1 /\ k = CountBelow(U, q)
    <3>1. CASE k \in 0 .. CountBelow(U, j) - 1
      <4>1. PICK q \in U : q < j /\ k = CountBelow(U, q)
        BY <1>2, <3>1
      <4>2. QED
        BY <4>1
    <3>2. CASE k \notin 0 .. CountBelow(U, j) - 1
      <4>1. j + 1 \in Nat
        OBVIOUS
      <4>2. CountBelow(U, j) \in Nat /\ CountBelow(U, j + 1) \in Nat
        BY <4>1, CountIsNumber
      <4>3. /\ j \in U => CountBelow(U, j + 1) = CountBelow(U, j) + 1
            /\ j \notin U => CountBelow(U, j + 1) = CountBelow(U, j)
        BY CountSteps
      <4>4. j \in U /\ k = CountBelow(U, j)
        BY <2>1, <3>2, <4>2, <4>3
      <4>5. QED
        BY <4>4
    <3>3. QED
      BY <3>1, <3>2
  <2>2. QED
    BY <2>1
<1>3. Nat \subseteq T
  <2> HIDE DEF T
  <2>1. QED
    BY <1>1, <1>2, SetInduction
<1>4. QED
  BY <1>3

(***************************************************************************)
(* The graph whose vertices are all sets of states of an automaton.        *)
(***************************************************************************)
IsInput(A) == IsAutomaton(A, Nat) /\ IsFiniteSet(A.states)

SymbolsOut(A, S) == {m[2] : m \in {k \in A.delta : k[1] \in S}}
PostsIn(A, family) == UNION {{Post(A, S, a) : a \in SymbolsOut(A, S)} : S \in family}

(* The graph of all sets of states.                                         *)
MacroGraph(A) ==
  [states |-> SUBSET A.states,
   delta |-> {<<p[1], p[2], Post(A, p[1], p[2])>> :
                p \in {r \in (SUBSET A.states) \X Nat : r[2] \in SymbolsOut(A, r[1])}}]

LEMMA SymbolsAreNumbers ==
  ASSUME NEW A, IsInput(A), NEW S
  PROVE  SymbolsOut(A, S) \subseteq Nat
BY DEF IsInput, IsAutomaton, SymbolsOut

LEMMA GraphStates ==
  ASSUME NEW A
  PROVE  MacroGraph(A).states = SUBSET A.states
BY DEF MacroGraph

LEMMA GraphHasMoves ==
  ASSUME NEW A, IsInput(A), NEW S \in SUBSET A.states, NEW a \in SymbolsOut(A, S)
  PROVE  <<S, a, Post(A, S, a)>> \in MacroGraph(A).delta
<1>1. <<S, a>> \in {r \in (SUBSET A.states) \X Nat : r[2] \in SymbolsOut(A, r[1])}
  BY SymbolsAreNumbers
<1>2. QED
  BY <1>1 DEF MacroGraph

LEMMA GraphMoves ==
  ASSUME NEW A, IsInput(A), NEW m \in MacroGraph(A).delta
  PROVE  /\ m[1] \in SUBSET A.states /\ m[2] \in Nat /\ m[2] \in SymbolsOut(A, m[1])
         /\ m[3] = Post(A, m[1], m[2]) /\ m[3] \in SUBSET A.states
         /\ m = <<m[1], m[2], m[3]>>
<1>1. /\ m[1] \in SUBSET A.states /\ m[2] \in Nat /\ m[2] \in SymbolsOut(A, m[1])
      /\ m[3] = Post(A, m[1], m[2]) /\ m = <<m[1], m[2], m[3]>>
  BY DEF MacroGraph
<1>2. m[3] \in SUBSET A.states
  BY <1>1, PostIsSetOfStates
<1>3. QED
  BY <1>1, <1>2

LEMMA GraphIsGraph ==
  ASSUME NEW A, IsInput(A)
  PROVE  /\ MovesInside(MacroGraph(A)) /\ IsFiniteSet(MacroGraph(A).states)
         /\ {A.initial} \in SUBSET MacroGraph(A).states
<1>1. MovesInside(MacroGraph(A))
  <2> SUFFICES ASSUME NEW m \in MacroGraph(A).delta
               PROVE  m \in (SUBSET A.states) \X Nat \X (SUBSET A.states)
    BY GraphStates DEF MovesInside
  <2>1. /\ m[1] \in SUBSET A.states /\ m[2] \in Nat /\ m[3] \in SUBSET A.states
        /\ m = <<m[1], m[2], m[3]>>
    BY GraphMoves
  <2>2. QED
    BY <2>1
<1>2. IsFiniteSet(SUBSET A.states)
  BY FS_SUBSET DEF IsInput
<1>3. A.initial \in SUBSET A.states
  BY DEF IsInput, IsAutomaton
<1>4. QED
  BY <1>1, <1>2, <1>3, GraphStates

LEMMA GraphTargets ==
  ASSUME NEW A, IsInput(A), NEW F \in SUBSET SUBSET A.states
  PROVE  WithTargets(MacroGraph(A), F) = F \cup PostsIn(A, F)
<1>1. ASSUME NEW x \in WithTargets(MacroGraph(A), F), x \notin F PROVE x \in PostsIn(A, F)
  <2>1. PICK m \in MacroGraph(A).delta : m[1] \in F /\ x = m[3]
    BY <1>1 DEF WithTargets
  <2>2. m[2] \in SymbolsOut(A, m[1]) /\ m[3] = Post(A, m[1], m[2])
    BY GraphMoves
  <2>3. QED
    BY <2>1, <2>2 DEF PostsIn
<1>2. ASSUME NEW x \in PostsIn(A, F) PROVE x \in WithTargets(MacroGraph(A), F)
  <2>1. PICK S \in F : \E a \in SymbolsOut(A, S) : x = Post(A, S, a)
    BY DEF PostsIn
  <2>2. PICK a \in SymbolsOut(A, S) : x = Post(A, S, a)
    BY <2>1
  <2>3. <<S, a, Post(A, S, a)>> \in MacroGraph(A).delta
    BY GraphHasMoves
  <2>4. QED
    BY <2>2, <2>3 DEF WithTargets
<1>3. F \subseteq WithTargets(MacroGraph(A), F)
  BY DEF WithTargets
<1>4. QED
  BY <1>1, <1>2, <1>3

IsGraph(A) == MovesInside(A) /\ IsFiniteSet(A.states)
EdgeClosed(A, C) == \A m \in A.delta : m[1] \in C => m[3] \in C

(***************************************************************************)
(* An automaton that is renumbered: U, the states that are kept, are those *)
(* of R, which holds what the automaton can be in, that lead to U.         *)
(***************************************************************************)
Renumbers(A, B, R, U, num) ==
  /\ IsGraph(A) /\ U \subseteq A.states /\ R \subseteq A.states
  /\ A.initial \subseteq R /\ EdgeClosed(A, R) /\ R \cap A.final \subseteq U
  /\ \A m \in A.delta : m[1] \in R /\ m[3] \in U => m[1] \in U
  /\ \A q \in U : num[q] \in B.states
  /\ \A q, r \in U : num[q] = num[r] => q = r
  /\ \A t \in B.states : \E q \in U : t = num[q]
  /\ B.initial = {num[q] : q \in A.initial \cap U}
  /\ B.final = {num[q] : q \in A.final \cap U}
  /\ \A q, r \in U : \A a : <<q, a, r>> \in A.delta <=> <<num[q], a, num[r]>> \in B.delta

LEMMA RenumberedPost ==
  ASSUME NEW A, NEW B, NEW R, NEW U, NEW num, Renumbers(A, B, R, U, num),
         NEW S \in SUBSET A.states, S \subseteq R, NEW a
  PROVE  /\ Post(B, {num[q] : q \in S \cap U}, a) = {num[q] : q \in Post(A, S, a) \cap U}
         /\ Post(A, S, a) \subseteq R
<1>1. ASSUME NEW t \in Post(A, S, a) PROVE t \in R
  <2>1. PICK q \in S : <<q, a, t>> \in A.delta
    BY DEF Post
  <2>2. QED
    BY <2>1 DEF Renumbers, EdgeClosed
<1>2. ASSUME NEW t \in Post(B, {num[q] : q \in S \cap U}, a)
      PROVE  t \in {num[q] : q \in Post(A, S, a) \cap U}
  <2>1. PICK q \in S \cap U : <<num[q], a, t>> \in B.delta /\ t \in B.states
    BY DEF Post
  <2>2. PICK r \in U : t = num[r]
    BY <2>1 DEF Renumbers
  <2>3. <<q, a, r>> \in A.delta /\ r \in A.states
    BY <2>1, <2>2 DEF Renumbers
  <2>4. r \in Post(A, S, a)
    BY <2>1, <2>3 DEF Post
  <2>5. QED
    BY <2>2, <2>4
<1>3. ASSUME NEW r \in Post(A, S, a), r \in U
      PROVE  num[r] \in Post(B, {num[q] : q \in S \cap U}, a)
  <2>1. PICK q \in S : <<q, a, r>> \in A.delta
    BY DEF Post
  <2>2. q \in U
    BY <1>3, <2>1 DEF Renumbers
  <2>3. <<num[q], a, num[r]>> \in B.delta /\ num[r] \in B.states
    BY <1>3, <2>1, <2>2 DEF Renumbers
  <2>4. QED
    BY <2>1, <2>2, <2>3 DEF Post
<1>4. QED
  BY <1>1, <1>2, <1>3

LEMMA RenumberedAccepts ==
  ASSUME NEW A, NEW B, NEW R, NEW U, NEW num, Renumbers(A, B, R, U, num),
         NEW word, Len(word) \in Nat
  PROVE  Accepts(B, word) <=> Accepts(A, word)
<1> DEFINE Image(S) == {num[q] : q \in S \cap U}
<1>1. /\ A.initial \in SUBSET A.states /\ B.initial = Image(A.initial)
      /\ \A S : Image(S) \in SUBSET B.states
  BY DEF Renumbers
<1>2. PICK f : IsReading(A, A.initial, word, f) /\ Read(A, word) = f[Len(word)]
  BY <1>1, ReadExists
<1>3. PICK k \in Nat : k = Len(word)
  OBVIOUS
<1>4. /\ f \in [0 .. k -> SUBSET A.states] /\ f[0] = A.initial
      /\ \A n \in 1 .. k : f[n] = Post(A, f[n - 1], word[n])
  BY <1>2, <1>3 DEF IsReading
<1> DEFINE T == {n \in Nat : n <= k => f[n] \subseteq R}
<1>5. \A n \in 0 .. k : f[n] \subseteq R
  <2>1. 0 \in T
    BY <1>4 DEF Renumbers
  <2>2. ASSUME NEW n \in Nat, n \in T PROVE n + 1 \in T
    <3> SUFFICES ASSUME n + 1 <= k PROVE f[n + 1] \subseteq R
      OBVIOUS
    <3>1. n + 1 \in 1 .. k /\ (n + 1) - 1 = n /\ n \in 0 .. k /\ f[n] \subseteq R
      BY <2>2
    <3>2. f[n + 1] = Post(A, f[n], word[n + 1]) /\ f[n] \in SUBSET A.states
      BY <1>4, <3>1
    <3>3. PICK S : S = f[n]
      OBVIOUS
    <3>4. PICK a : a = word[n + 1]
      OBVIOUS
    <3>5. S \in SUBSET A.states /\ S \subseteq R
      BY <3>1, <3>2, <3>3
    <3>6. Post(A, S, a) \subseteq R
      BY <3>5, RenumberedPost
    <3>7. QED
      BY <3>2, <3>3, <3>4, <3>6
  <2>3. Nat \subseteq T
    <3> HIDE DEF T
    <3>1. QED
      BY <2>1, <2>2, SetInduction
  <2>4. QED
    BY <2>3
<1>6. PICK g : g = [n \in 0 .. k |-> Image(f[n])]
  OBVIOUS
<1>7. IsReading(B, B.initial, word, g)
  <2>1. g \in [0 .. k -> SUBSET B.states] /\ g[0] = B.initial
    <3> HIDE DEF Image
    <3>1. 0 \in 0 .. k
      OBVIOUS
    <3>2. QED
      BY <1>1, <1>4, <1>6, <3>1
  <2>2. ASSUME NEW n \in 1 .. k PROVE g[n] = Post(B, g[n - 1], word[n])
    <3>1. n - 1 \in 0 .. k /\ n \in 0 .. k
      OBVIOUS
    <3>2. f[n] = Post(A, f[n - 1], word[n]) /\ f[n - 1] \in SUBSET A.states
          /\ f[n - 1] \subseteq R
      BY <1>4, <1>5, <3>1
    <3>3. Post(B, Image(f[n - 1]), word[n]) = Image(Post(A, f[n - 1], word[n]))
      BY <3>2, RenumberedPost
    <3>4. g[n] = Image(f[n]) /\ g[n - 1] = Image(f[n - 1])
      BY <1>6, <3>1
    <3>5. QED
      BY <3>2, <3>3, <3>4
  <2>3. QED
    BY <1>3, <2>1, <2>2 DEF IsReading
<1>8. Read(B, word) = Image(f[k])
  <2>1. Read(B, word) = g[k]
    BY <1>3, <1>7, ReadIsReading
  <2>2. QED
    BY <1>6, <2>1
<1>9. ASSUME NEW q \in f[k], q \in A.final PROVE num[q] \in Image(f[k]) \cap B.final
  <2>1. q \in U
    BY <1>5, <1>9 DEF Renumbers
  <2>2. QED
    BY <1>9, <2>1 DEF Renumbers
<1>10. ASSUME NEW t \in Image(f[k]), t \in B.final PROVE f[k] \cap A.final # {}
  <2>1. PICK q \in f[k] \cap U : t = num[q]
    OBVIOUS
  <2>2. PICK r \in A.final \cap U : t = num[r]
    BY <1>10 DEF Renumbers
  <2>3. q = r
    BY <2>1, <2>2 DEF Renumbers
  <2>4. QED
    BY <2>1, <2>2, <2>3
<1>11. Read(A, word) = f[k]
  BY <1>2, <1>3
<1> HIDE DEF Image
<1>12. QED
  BY <1>8, <1>9, <1>10, <1>11 DEF Accepts

(* A function that makes a stage of each subset is one of stages.           *)
LEMMA StagesOfFunction ==
  ASSUME NEW G, MovesInside(G), NEW S \in SUBSET G.states, NEW N \in Nat,
         NEW f, f = [n \in 0 .. N |-> f[n]], f[0] = S,
         \A n \in 1 .. N : f[n - 1] \in SUBSET G.states => f[n] = WithTargets(G, f[n - 1])
  PROVE  IsStages(G, S, N, f)
<1> DEFINE T == {n \in Nat : n <= N => f[n] \in SUBSET G.states}
<1>1. 0 \in T
  OBVIOUS
<1>2. ASSUME NEW n \in Nat, n \in T PROVE n + 1 \in T
  <2> SUFFICES ASSUME n + 1 <= N PROVE f[n + 1] \in SUBSET G.states
    OBVIOUS
  <2>1. n + 1 \in 1 .. N /\ (n + 1) - 1 = n /\ f[n] \in SUBSET G.states
    BY <1>2
  <2>2. f[n + 1] = WithTargets(G, f[n])
    BY <2>1
  <2>3. QED
    BY <2>1, <2>2, TargetsInside
<1>3. \A n \in 0 .. N : f[n] \in SUBSET G.states
  <2>1. Nat \subseteq T
    <3> HIDE DEF T
    <3>1. QED
      BY <1>1, <1>2, SetInduction
  <2>2. \A n \in 0 .. N : n \in Nat /\ n <= N
    OBVIOUS
  <2> HIDE DEF T
  <2>3. \A n \in 0 .. N : n \in T
    BY <2>1, <2>2
  <2>4. QED
    BY <2>2, <2>3 DEF T
<1>4. f \in [0 .. N -> SUBSET G.states]
  BY <1>3
<1>5. ASSUME NEW n \in 1 .. N PROVE f[n] = WithTargets(G, f[n - 1])
  <2>1. n - 1 \in 0 .. N
    OBVIOUS
  <2>2. QED
    BY <1>3, <2>1
<1>6. QED
  BY <1>4, <1>5 DEF IsStages

==============================================================================
