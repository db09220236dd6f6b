----------------------- MODULE AntichainInclusion_proofs -----------------------
(***************************************************************************)
(* Proofs about InclusionSearch and AntichainInclusion, for automata of    *)
(* any size: the search by antichains is right in every order, the search  *)
(* of the code implements it, so its answer is right, and the              *)
(* counterexample it builds is one.                                        *)
(***************************************************************************)
EXTENDS AntichainInclusion, Automata_proofs, SequenceTheorems, TLAPS

------------------------------------------------------------------------------
(* InclusionSearch.  Reachability in the product is stated through closed   *)
(* sets, so that no induction over words is needed: when the search ends,   *)
(* the pairs that lie above a processed pair are a closed set without a     *)
(* rejecting pair.                                                          *)

IInv == TypeOK /\ SearchInv

(* A smaller set stays smaller after a move.                                *)
LEMMA PostMonotone ==
  ASSUME NEW A, NEW S, NEW T, S \subseteq T, NEW a
  PROVE  Post(A, S, a) \subseteq Post(A, T, a)
BY DEF Post

LEMMA SubsumesReflexive == \A p : Subsumes(p, p)
BY DEF Subsumes

LEMMA SubsumesTransitive ==
  ASSUME NEW p, NEW d, NEW r, Subsumes(p, d), Subsumes(d, r)
  PROVE  Subsumes(p, r)
BY DEF Subsumes

LEMMA Inputs_OK ==
  ASSUME TypeOK
  PROVE  IsAutomaton(smaller, Symbol) /\ IsAutomaton(bigger, Symbol)
<1>1. <<smaller, bigger>> \in Inputs
  BY DEF TypeOK
<1>2. QED
  BY <1>1, InputsAssumption

(* A move of a pair ends in a pair.                                         *)
LEMMA SuccessorIsPair ==
  ASSUME TypeOK, NEW p \in Pair, NEW m \in Moves(p)
  PROVE  Successor(m) \in Pair /\ m[1] = p
<1>1. PICK x \in smaller.delta : x[1] = p[1] /\ m = <<p, x[2], x[3]>>
  BY DEF Moves
<1>2. x[3] \in smaller.states
  BY Inputs_OK DEF IsAutomaton
<1>3. Post(bigger, p[2], x[2]) \in SUBSET bigger.states
  BY DEF Post
<1>4. QED
  BY <1>1, <1>2, <1>3 DEF Successor, Pair

LEMMA InitialPairsArePairs == ASSUME TypeOK PROVE InitialPairs \subseteq Pair
BY Inputs_OK DEF InitialPairs, Pair, IsAutomaton

LEMMA InitIInv == Init => IInv
<1> SUFFICES ASSUME Init PROVE IInv
  OBVIOUS
<1>1. TypeOK
  BY DEF Init, TypeOK
<1>2. SearchInv
  BY DEF Init, SearchInv, Antichain, StartsCovered, MovesCovered, NoneRejecting,
         AllReached, Covered
<1>3. QED
  BY <1>1, <1>2 DEF IInv

(* The operators that depend on the two automata alone keep their values.   *)
LEMMA SameInputs ==
  ASSUME smaller' = smaller, bigger' = bigger
  PROVE  /\ Pair' = Pair /\ InitialPairs' = InitialPairs
         /\ \A p : Moves(p)' = Moves(p) /\ (Rejecting(p)' <=> Rejecting(p))
         /\ \A m : Successor(m)' = Successor(m)
         /\ \A X : Closed(X)' <=> Closed(X)
         /\ Included' <=> Included
<1>1. /\ Pair' = Pair /\ InitialPairs' = InitialPairs
      /\ \A p : Moves(p)' = Moves(p) /\ (Rejecting(p)' <=> Rejecting(p))
      /\ \A m : Successor(m)' = Successor(m)
  BY DEF Pair, InitialPairs, Moves, Rejecting, Successor
<1>2. \A X : Closed(X)' <=> Closed(X)
  BY <1>1 DEF Closed
<1>3. Included' <=> Included
  BY <1>1, <1>2 DEF Included
<1>4. QED
  BY <1>1, <1>2, <1>3

------------------------------------------------------------------------------
(* Every step keeps the invariant.                                          *)

LEMMA StartIInv == ASSUME IInv, NEW q \in starts, Start(q) PROVE IInv'
<1> DEFINE st == <<q, bigger.initial>>
<1> USE DEF IInv, SearchInv
<1>1. /\ smaller' = smaller /\ bigger' = bigger /\ todo' = todo
      /\ verdict' = verdict /\ verdict = "none"
      /\ starts' = starts \ {q} /\ processed' = processed \cup {st}
      /\ waiting' = waiting \cup {st} /\ ~Rejecting(st)
  BY DEF Start, EnterStart, Running
<1>2. st \in InitialPairs /\ st \in Pair /\ q \in smaller.initial
  BY InitialPairsArePairs DEF TypeOK, InitialPairs
<1>3. processed \subseteq InitialPairs /\ todo = {}
  OBVIOUS
<1>4. TypeOK'
  BY <1>1, <1>2, <1>3, SameInputs DEF TypeOK
<1>5. Antichain'
  BY <1>1, <1>2, <1>3 DEF Antichain, InitialPairs, Subsumes
<1>6. (starts # {} => processed \subseteq InitialPairs /\ todo = {})'
  BY <1>1, <1>2, <1>3, SameInputs
<1>7. StartsCovered'
  <2> SUFFICES ASSUME NEW r \in smaller.initial, r \notin starts \/ r = q
               PROVE  Covered(<<r, bigger.initial>>, processed \cup {st})
    BY <1>1 DEF StartsCovered, Covered
  <2>1. CASE r = q
    BY <2>1, SubsumesReflexive DEF Covered
  <2>2. CASE r \notin starts
    BY <2>2 DEF StartsCovered, Covered
  <2>3. QED
    BY <2>1, <2>2
<1>8. MovesCovered'
  BY <1>1, <1>3, SameInputs DEF MovesCovered, Covered
<1>9. NoneRejecting'
  BY <1>1, SameInputs DEF NoneRejecting
<1>10. AllReached'
  BY <1>1, <1>2, <1>3, SameInputs DEF AllReached
<1>11. QED
  BY <1>1, <1>4, <1>5, <1>6, <1>7, <1>8, <1>9, <1>10

LEMMA TakeIInv == ASSUME IInv, NEW p \in waiting, Take(p) PROVE IInv'
<1> USE DEF IInv, SearchInv
<1>1. /\ smaller' = smaller /\ bigger' = bigger /\ starts' = starts
      /\ processed' = processed /\ verdict' = verdict /\ verdict = "none"
      /\ waiting' = waiting \ {p} /\ todo = {} /\ todo' = Moves(p) /\ starts = {}
  BY DEF Take, TakePair, Running
<1>2. p \in processed /\ p \in Pair
  BY DEF TypeOK
<1>3. TypeOK'
  <2>1. \A m \in Moves(p) : m[1] \in Pair /\ m \in Moves(m[1])
    BY <1>2, SuccessorIsPair
  <2>2. QED
    BY <1>1, <2>1, SameInputs DEF TypeOK
<1>4. Antichain' /\ StartsCovered' /\ NoneRejecting'
  BY <1>1, SameInputs DEF Antichain, StartsCovered, NoneRejecting
<1>5. MovesCovered'
  BY <1>1, SameInputs DEF MovesCovered
<1>6. AllReached'
  BY <1>1, <1>2, SameInputs, SuccessorIsPair DEF AllReached
<1>7. QED
  BY <1>1, <1>3, <1>4, <1>5, <1>6

LEMMA SkipIInv == ASSUME IInv, NEW m \in todo, Skip(m) PROVE IInv'
<1> USE DEF IInv, SearchInv
<1>1. /\ smaller' = smaller /\ bigger' = bigger /\ starts' = starts
      /\ processed' = processed /\ verdict' = verdict /\ verdict = "none"
      /\ waiting' = waiting /\ todo' = todo \ {m}
      /\ Covered(Successor(m), processed)
  BY DEF Skip, SkipMove, Running
<1>2. TypeOK'
  BY <1>1, SameInputs DEF TypeOK
<1>3. Antichain' /\ StartsCovered' /\ NoneRejecting'
  BY <1>1, SameInputs DEF Antichain, StartsCovered, NoneRejecting
<1>4. MovesCovered'
  BY <1>1, SameInputs DEF MovesCovered
<1>5. AllReached'
  BY <1>1, SameInputs DEF AllReached
<1>6. (starts # {} => processed \subseteq InitialPairs /\ todo = {})'
  BY <1>1, SameInputs
<1>7. QED
  BY <1>1, <1>2, <1>3, <1>4, <1>5, <1>6

(* What was covered stays covered when a new pair evicts those above it.    *)
LEMMA StillCovered ==
  ASSUME NEW D, NEW p, NEW r, Covered(r, D)
  PROVE  Covered(r, Without(D, p) \cup {p})
<1>1. PICK d \in D : Subsumes(d, r)
  BY DEF Covered
<1>2. CASE Subsumes(p, d)
  <2>1. Subsumes(p, r)
    BY <1>1, <1>2, SubsumesTransitive
  <2>2. QED
    BY <2>1 DEF Covered
<1>3. CASE ~Subsumes(p, d)
  BY <1>1, <1>3 DEF Covered, Without
<1>4. QED
  BY <1>2, <1>3

LEMMA AddIInv == ASSUME IInv, NEW m \in todo, Add(m) PROVE IInv'
<1> DEFINE s == Successor(m)
<1> USE DEF IInv, SearchInv
<1>1. /\ smaller' = smaller /\ bigger' = bigger /\ starts' = starts
      /\ verdict' = verdict /\ verdict = "none"
      /\ processed' = Without(processed, s) \cup {s}
      /\ waiting' = Without(waiting, s) \cup {s}
      /\ todo' = todo \ {m}
      /\ ~Covered(s, processed) /\ ~Rejecting(s)
  BY DEF Add, AddPair, Running
<1>2. m[1] \in Pair /\ m \in Moves(m[1]) /\ s \in Pair /\ starts = {}
  BY SuccessorIsPair DEF TypeOK
<1> HIDE DEF s
<1>3. Without(processed, s) \subseteq processed /\ Without(waiting, s) \subseteq waiting
  BY DEF Without
<1>4. TypeOK'
  <2>1. Without(waiting, s) \subseteq Without(processed, s)
    BY DEF Without, TypeOK
  <2>2. processed' \subseteq Pair' /\ waiting' \subseteq processed'
    BY <1>1, <1>2, <1>3, <2>1, SameInputs DEF TypeOK
  <2>3. (\A n \in todo : n[1] \in Pair /\ n \in Moves(n[1]))'
    BY <1>1, SameInputs DEF TypeOK
  <2>4. QED
    BY <1>1, <2>2, <2>3 DEF TypeOK
<1>5. Antichain'
  BY <1>1 DEF Antichain, Covered, Without
<1>6. StartsCovered'
  BY <1>1, StillCovered DEF StartsCovered
<1>7. MovesCovered'
  <2> SUFFICES ASSUME NEW p \in processed', p \notin waiting', NEW n \in Moves(p)
               PROVE  n \in todo' \/ Covered(Successor(n), processed')
    BY <1>1, SameInputs DEF MovesCovered, Covered
  <2>1. p \in processed /\ p \notin waiting
    BY <1>1 DEF Without
  <2>2. n \in todo \/ Covered(Successor(n), processed)
    BY <2>1 DEF MovesCovered
  <2>3. CASE n = m
    <3>1. Subsumes(s, Successor(n))
      BY <2>3, SubsumesReflexive DEF s
    <3>2. QED
      BY <1>1, <3>1 DEF Covered
  <2>4. CASE n # m
    BY <1>1, <2>2, <2>4, StillCovered
  <2>5. QED
    BY <2>3, <2>4
<1>8. NoneRejecting'
  BY <1>1, <1>3, SameInputs DEF NoneRejecting
<1>9. AllReached'
  <2> SUFFICES ASSUME NEW X \in SUBSET Pair, InitialPairs \subseteq X, Closed(X)
               PROVE  processed' \subseteq X /\ \A n \in todo' : n[1] \in X
    BY <1>1, SameInputs DEF AllReached
  <2>1. processed \subseteq X /\ \A n \in todo : n[1] \in X
    BY DEF AllReached
  <2>2. s \in X
    BY <1>2, <2>1 DEF Closed, s
  <2>3. QED
    BY <1>1, <1>3, <2>1, <2>2
<1>10. QED
  BY <1>1, <1>2, <1>4, <1>5, <1>6, <1>7, <1>8, <1>9

LEMMA SearchStateKept ==
  ASSUME IInv, UNCHANGED <<smaller, bigger, starts, processed, waiting, todo>>
  PROVE  Antichain' /\ StartsCovered' /\ MovesCovered' /\ NoneRejecting' /\ AllReached'
<1> USE DEF IInv, SearchInv
<1>1. /\ smaller' = smaller /\ bigger' = bigger /\ starts' = starts
      /\ processed' = processed /\ waiting' = waiting /\ todo' = todo
  OBVIOUS
<1>2. Antichain' /\ StartsCovered'
  BY <1>1 DEF Antichain, StartsCovered
<1>3. MovesCovered'
  BY <1>1, SameInputs DEF MovesCovered
<1>4. NoneRejecting'
  BY <1>1, SameInputs DEF NoneRejecting
<1>5. AllReached'
  BY <1>1, SameInputs DEF AllReached
<1>6. QED
  BY <1>2, <1>3, <1>4, <1>5

LEMMA AnswerKeeps ==
  ASSUME IInv, NEW v \in {"included", "not included"}, Answer(v),
         v = "included" => starts = {} /\ todo = {} /\ waiting = {},
         v = "not included" => ~Included
  PROVE  IInv'
<1> USE DEF IInv, SearchInv
<1>1. /\ smaller' = smaller /\ bigger' = bigger /\ starts' = starts /\ verdict' = v
      /\ processed' = processed /\ waiting' = waiting /\ todo' = todo
  BY DEF Answer
<1>2. TypeOK'
  BY <1>1, SameInputs DEF TypeOK
<1>3. Antichain' /\ StartsCovered' /\ MovesCovered' /\ NoneRejecting' /\ AllReached'
  BY <1>1, SearchStateKept
<1>4. QED
  BY <1>1, <1>2, <1>3, SameInputs

LEMMA RefuseIInv == ASSUME IInv, Refuse PROVE IInv'
<1> USE DEF IInv, SearchInv
<1>1. ~Included
  <2> SUFFICES ASSUME NEW X \in SUBSET Pair, InitialPairs \subseteq X, Closed(X),
                      \A p \in X : ~Rejecting(p)
               PROVE  FALSE
    BY DEF Included
  <2>1. CASE \E q \in starts : Rejecting(<<q, bigger.initial>>)
    BY <2>1 DEF TypeOK, InitialPairs
  <2>2. CASE \E m \in todo : Hopeless(Successor(m))
    <3>1. PICK m \in todo : Hopeless(Successor(m))
      BY <2>2
    <3>2. m[1] \in X /\ m \in Moves(m[1])
      BY DEF AllReached, TypeOK
    <3>3. Successor(m) \in X
      BY <3>2 DEF Closed
    <3>4. QED
      BY <3>1, <3>3 DEF Hopeless
  <2>3. QED
    BY <2>1, <2>2 DEF Refuse
<1>2. QED
  BY <1>1, AnswerKeeps DEF Refuse

LEMMA AcceptIInv == ASSUME IInv, Accept PROVE IInv'
BY AnswerKeeps DEF Accept

LEMMA NextIInv == ASSUME IInv, [Next]_searchvars PROVE IInv'
<1>1. CASE Next
  BY <1>1, StartIInv, TakeIInv, SkipIInv, AddIInv, RefuseIInv, AcceptIInv DEF Next
<1>2. CASE UNCHANGED searchvars
  <2> USE DEF IInv, SearchInv
  <2>1. /\ smaller' = smaller /\ bigger' = bigger /\ starts' = starts
        /\ processed' = processed /\ waiting' = waiting /\ todo' = todo
        /\ verdict' = verdict
    BY <1>2 DEF searchvars
  <2>2. TypeOK'
    BY <2>1, SameInputs DEF TypeOK
  <2>3. Antichain' /\ StartsCovered' /\ MovesCovered' /\ NoneRejecting' /\ AllReached'
    BY <2>1, SearchStateKept
  <2>4. QED
    BY <2>1, <2>2, <2>3, SameInputs
<1>3. QED
  BY <1>1, <1>2

THEOREM IInvHolds == Spec => []IInv
<1>1. Init => IInv
  BY InitIInv
<1>2. IInv /\ [Next]_searchvars => IInv'
  BY NextIInv
<1>3. QED
  BY <1>1, <1>2, PTL DEF Spec

(* The pruning keeps an antichain that covers every pair looked at so far,  *)
(* all of it reachable and none of it rejecting.                            *)
THEOREM SearchInvHolds == Spec => []SearchInv
BY IInvHolds, PTL DEF IInv

(* When the search ends with nothing refused, the pairs above the processed *)
(* ones are closed, hold the initial pairs and have no rejecting pair.      *)
LEMMA AboveProcessed ==
  ASSUME IInv, starts = {}, todo = {}, waiting = {}
  PROVE  Included
<1> DEFINE Above == {r \in Pair : Covered(r, processed)}
<1>1. InitialPairs \subseteq Above
  <2> SUFFICES ASSUME NEW q \in smaller.initial
               PROVE  <<q, bigger.initial>> \in Above
    BY DEF InitialPairs
  <2>1. <<q, bigger.initial>> \in Pair
    BY InitialPairsArePairs DEF IInv, InitialPairs
  <2>2. QED
    BY <2>1 DEF IInv, SearchInv, StartsCovered
<1>2. Closed(Above)
  <2> SUFFICES ASSUME NEW r \in Above, NEW m \in Moves(r)
               PROVE  Successor(m) \in Above
    BY DEF Closed
  <2>1. Successor(m) \in Pair
    BY SuccessorIsPair DEF IInv
  <2>2. PICK p \in processed : Subsumes(p, r)
    BY DEF Covered
  <2>3. PICK x \in smaller.delta : x[1] = r[1] /\ m = <<r, x[2], x[3]>>
    BY DEF Moves
  <2> DEFINE n == <<p, x[2], x[3]>>
  <2>4. n \in Moves(p)
    BY <2>2, <2>3 DEF Moves, Subsumes
  <2>5. Covered(Successor(n), processed)
    BY <2>4 DEF IInv, SearchInv, MovesCovered
  <2>6. Subsumes(Successor(n), Successor(m))
    <3>1. Post(bigger, p[2], x[2]) \subseteq Post(bigger, r[2], x[2])
      BY <2>2, PostMonotone DEF Subsumes
    <3>2. QED
      BY <2>3, <3>1 DEF Subsumes, Successor
  <2>7. QED
    BY <2>1, <2>5, <2>6, SubsumesTransitive DEF Covered
<1>3. \A r \in Above : ~Rejecting(r)
  BY DEF IInv, SearchInv, NoneRejecting, Covered, Subsumes, Rejecting
<1>4. QED
  BY <1>1, <1>2, <1>3 DEF Included

(* The answer of the antichain search is right, in whatever order the pairs *)
(* are taken and however many are pruned, for automata of any size.         *)
THEOREM SearchIsCorrect == Spec => []Correct
<1>1. IInv => Correct
  <2> SUFFICES ASSUME IInv, verdict # "none"
               PROVE  verdict = "included" <=> Included
    BY DEF Correct
  <2>1. CASE verdict = "included"
    BY <2>1, AboveProcessed DEF IInv, SearchInv
  <2>2. CASE verdict = "not included"
    BY <2>2 DEF IInv, SearchInv
  <2>3. QED
    BY <2>1, <2>2 DEF IInv, TypeOK
<1>2. QED
  BY <1>1, IInvHolds, PTL

------------------------------------------------------------------------------
(* The pruning of the worklist.                                             *)

Distinct(seq) == \A i, j \in 1 .. Len(seq) : seq[i] = seq[j] => i = j

(* f[n] is what is left of the first n elements.                            *)
IsErasing(D, seq, p, f) ==
  /\ f \in [0 .. Len(seq) -> Seq(D)]
  /\ f[0] = << >>
  /\ \A n \in 1 .. Len(seq) :
       f[n] = IF Subsumes(p, seq[n]) THEN f[n - 1] ELSE Append(f[n - 1], seq[n])

LEMMA ErasingExists ==
  ASSUME NEW D, NEW seq \in Seq(D), NEW p
  PROVE  \E f : IsErasing(D, seq, p, f)
<1> DEFINE k == Len(seq)
           V == Seq(D)
           F == [n \in 1 .. k |-> [s \in V |->
                   IF Subsumes(p, seq[n]) THEN s ELSE Append(s, seq[n])]]
           base == << >>
<1>1. k \in Nat /\ base \in V
  OBVIOUS
<1>2. IsStepwise(V, k, F)
  <2>1. ASSUME NEW n \in 1 .. k, NEW s \in V
        PROVE  (IF Subsumes(p, seq[n]) THEN s ELSE Append(s, seq[n])) \in V
    <3>1. seq[n] \in D
      BY ElementOfSeq
    <3>2. QED
      BY <3>1
  <2>2. QED
    BY <2>1 DEF IsStepwise
<1>3. PICK f : IsRecursion(V, k, base, F, f)
  <2> HIDE DEF k, V, F, base
  <2>1. QED
    BY <1>1, <1>2, RecursionExists
<1>4. f \in [0 .. k -> V] /\ f[0] = base
  BY <1>3 DEF IsRecursion
<1>5. ASSUME NEW n \in 1 .. k
      PROVE  f[n] = IF Subsumes(p, seq[n]) THEN f[n - 1] ELSE Append(f[n - 1], seq[n])
  <2>1. n - 1 \in 0 .. k
    BY <1>1
  <2>2. f[n] = F[n][f[n - 1]] /\ f[n - 1] \in V
    <3> HIDE DEF k, V, F, base
    <3>1. QED
      BY <1>3, <1>4, <2>1 DEF IsRecursion
  <2>3. QED
    BY <2>2
<1>6. QED
  BY <1>4, <1>5 DEF IsErasing

LEMMA EraseSubsumedIsErasing ==
  ASSUME NEW D, NEW seq \in Seq(D), NEW p
  PROVE  \E f : IsErasing(D, seq, p, f) /\ EraseSubsumed(seq, p) = f[Len(seq)]
<1> DEFINE Rec(g) ==
      g = [n \in 0 .. Len(seq) |->
             IF n = 0 THEN << >>
             ELSE IF Subsumes(p, seq[n]) THEN g[n - 1] ELSE Append(g[n - 1], seq[n])]
           kept == CHOOSE g : Rec(g)
<1>1. PICK f : IsErasing(D, seq, p, f)
  BY ErasingExists
<1>2. Len(seq) \in Nat
  OBVIOUS
<1>3. Rec(f)
  <2>1. \A n \in 0 .. Len(seq) :
          f[n] = IF n = 0 THEN << >>
                 ELSE IF Subsumes(p, seq[n]) THEN f[n - 1] ELSE Append(f[n - 1], seq[n])
    <3>1. f[0] = << >>
      BY <1>1 DEF IsErasing
    <3>2. \A n \in 0 .. Len(seq) : n = 0 \/ n \in 1 .. Len(seq)
      BY <1>2
    <3>3. \A n \in 1 .. Len(seq) :
            f[n] = IF Subsumes(p, seq[n]) THEN f[n - 1] ELSE Append(f[n - 1], seq[n])
      BY <1>1 DEF IsErasing
    <3>4. \A n \in 1 .. Len(seq) : n # 0
      BY <1>2
    <3>5. QED
      BY <3>1, <3>2, <3>3, <3>4, Zenon
  <2>2. f = [n \in 0 .. Len(seq) |-> f[n]]
    BY <1>1 DEF IsErasing
  <2>3. QED
    BY <2>1, <2>2, Zenon
<1>4. Rec(kept)
  <2> HIDE DEF Rec
  <2>1. QED
    BY <1>3
<1>5. EraseSubsumed(seq, p) = kept[Len(seq)]
  BY DEF EraseSubsumed
<1> HIDE DEF kept
<1>6. ASSUME NEW n \in 0 .. Len(seq)
      PROVE  kept[n] = IF n = 0 THEN << >>
                       ELSE IF Subsumes(p, seq[n]) THEN kept[n - 1]
                            ELSE Append(kept[n - 1], seq[n])
  BY <1>4
<1> DEFINE T == {n \in Nat : n <= Len(seq) => kept[n] = f[n]}
<1>7. 0 \in T
  BY <1>1, <1>2, <1>6 DEF IsErasing
<1>8. ASSUME NEW n \in Nat, n \in T PROVE n + 1 \in T
  <2> SUFFICES ASSUME n + 1 <= Len(seq) PROVE kept[n + 1] = f[n + 1]
    OBVIOUS
  <2>1. n + 1 \in 1 .. Len(seq) /\ n + 1 \in 0 .. Len(seq) /\ n + 1 # 0 /\ (n + 1) - 1 = n
        /\ kept[n] = f[n]
    BY <1>2, <1>8
  <2>2. QED
    BY <1>1, <1>6, <2>1 DEF IsErasing
<1>9. Len(seq) \in T
  <2> HIDE DEF T
  <2>1. QED
    BY <1>2, <1>7, <1>8, SetInduction
<1>10. QED
  BY <1>1, <1>2, <1>5, <1>9

(* What is left is a sequence of what is not subsumed, each of it once when *)
(* the vector had no pair twice.                                            *)
LEMMA ErasedWorklist ==
  ASSUME NEW D, NEW seq \in Seq(D), Distinct(seq), NEW p
  PROVE  LET rest == EraseSubsumed(seq, p)
         IN rest \in Seq(D) /\ Distinct(rest) /\ ToSet(rest) = Without(ToSet(seq), p)
<1>1. PICK f : IsErasing(D, seq, p, f) /\ EraseSubsumed(seq, p) = f[Len(seq)]
  BY EraseSubsumedIsErasing
<1>2. Len(seq) \in Nat
  OBVIOUS
<1> DEFINE Left(n) == {seq[i] : i \in {j \in 1 .. n : ~Subsumes(p, seq[j])}}
           T == {n \in Nat : n <= Len(seq) =>
                   f[n] \in Seq(D) /\ Distinct(f[n]) /\ ToSet(f[n]) = Left(n)}
<1>3. 0 \in T
  <2>1. f[0] = << >>
    BY <1>1 DEF IsErasing
  <2>2. << >> \in Seq(D) /\ Distinct(<< >>) /\ ToSet(<< >>) = {}
    BY DEF Distinct, ToSet
  <2>3. Left(0) = {}
    OBVIOUS
  <2>4. QED
    BY <2>1, <2>2, <2>3
<1>4. ASSUME NEW n \in Nat, n \in T PROVE n + 1 \in T
  <2> SUFFICES ASSUME n + 1 <= Len(seq)
               PROVE  f[n + 1] \in Seq(D) /\ Distinct(f[n + 1]) /\ ToSet(f[n + 1]) = Left(n + 1)
    OBVIOUS
  <2>1. n + 1 \in 1 .. Len(seq) /\ (n + 1) - 1 = n
    BY <1>2
  <2>2. f[n] \in Seq(D) /\ Distinct(f[n]) /\ ToSet(f[n]) = Left(n)
    BY <1>2, <1>4, <2>1
  <2>3. f[n + 1] = IF Subsumes(p, seq[n + 1]) THEN f[n] ELSE Append(f[n], seq[n + 1])
    BY <1>1, <2>1 DEF IsErasing
  <2>4. CASE Subsumes(p, seq[n + 1])
    <3>1. Left(n + 1) = Left(n)
      BY <2>4
    <3>2. QED
      BY <2>2, <2>3, <2>4, <3>1
  <2>5. CASE ~Subsumes(p, seq[n + 1])
    <3> DEFINE e == seq[n + 1]
    <3>1. Left(n + 1) = Left(n) \cup {e}
      BY <2>5
    <3>2. e \in D
      BY <2>1, ElementOfSeq
    <3>3. e \notin ToSet(f[n])
      <4>1. \A i \in 1 .. n : i \in 1 .. Len(seq) /\ i # n + 1
        BY <1>2, <2>1
      <4>2. \A i \in 1 .. n : seq[i] # e
        BY <2>1, <4>1 DEF Distinct
      <4>3. QED
        BY <2>2, <4>2
    <3> HIDE DEF e
    <3>4. Append(f[n], e) \in Seq(D) /\ Len(Append(f[n], e)) = Len(f[n]) + 1
          /\ \A i \in 1 .. Len(f[n]) + 1 :
               Append(f[n], e)[i] = IF i = Len(f[n]) + 1 THEN e ELSE f[n][i]
      BY <2>2, <3>2, AppendProperties
    <3>5. Distinct(Append(f[n], e))
      BY <2>2, <3>3, <3>4 DEF Distinct, ToSet
    <3>6. ToSet(Append(f[n], e)) = ToSet(f[n]) \cup {e}
      BY <2>2, <3>4 DEF ToSet
    <3>7. f[n + 1] = Append(f[n], e)
      BY <2>3, <2>5 DEF e
    <3>8. QED
      BY <2>2, <3>1, <3>4, <3>5, <3>6, <3>7
  <2>6. QED
    BY <2>4, <2>5
<1>5. Len(seq) \in T
  <2> HIDE DEF T
  <2>1. QED
    BY <1>2, <1>3, <1>4, SetInduction
<1>6. Left(Len(seq)) = Without(ToSet(seq), p)
  BY DEF Without, ToSet
<1>7. /\ f[Len(seq)] \in Seq(D) /\ Distinct(f[Len(seq)])
      /\ ToSet(f[Len(seq)]) = Left(Len(seq))
  BY <1>2, <1>5
<1>8. QED
  <2> HIDE DEF Left
  <2>1. QED
    BY <1>1, <1>6, <1>7

------------------------------------------------------------------------------
(* Refusing a pair by distances.                                            *)

LEMMA Arguments ==
  ASSUME TypeOK
  PROVE  /\ IsAutomaton(smaller, Symbol) /\ IsAutomaton(bigger, Symbol)
         /\ AreDistances(smaller, distances_smaller)
         /\ AreDistances(bigger, distances_bigger)
         /\ Far(smaller) \in Nat /\ Far(smaller) > 0
         /\ Far(bigger) \in Nat /\ Far(bigger) > 0
<1>1. IsAutomaton(smaller, Symbol) /\ IsAutomaton(bigger, Symbol)
  BY Inputs_OK
<1>2. Numbered(smaller) /\ Numbered(bigger)
  <2>1. <<smaller, bigger>> \in Inputs
    BY DEF TypeOK
  <2>2. QED
    BY <2>1, NumbersAssumption
<1>3. AreDistances(smaller, distances_smaller) /\ AreDistances(bigger, distances_bigger)
  BY <1>1, <1>2, DistancesToFinal DEF distances_smaller, distances_bigger
<1>4. QED
  BY <1>1, <1>2, <1>3, FarBoundsStates

(* What the comparison of the two distances says: smaller accepts some word *)
(* here, and every word bigger accepts from the set is longer.              *)
LEMMA LengthsIncompatible ==
  ASSUME TypeOK, NEW p \in Pair
  PROVE  lengths_incompatible(p) <=>
           /\ distances_smaller[p[1]] < Far(smaller)
           /\ \A s \in p[2] : \/ distances_bigger[s] = Far(bigger)
                              \/ distances_smaller[p[1]] < distances_bigger[s]
<1> DEFINE d == distances_smaller[p[1]]
           D(s) == DistanceOf(bigger, distances_bigger, s)
           S == p[2]
<1>1. p[1] \in smaller.states /\ S \in SUBSET bigger.states
  BY DEF Pair
<1>2. Far(smaller) \in Nat /\ Far(smaller) > 0 /\ Far(bigger) \in Nat /\ Far(bigger) > 0
  BY Arguments
<1>3. d \in 0 .. Far(smaller)
  BY <1>1, Arguments DEF AreDistances
<1>4. \A s \in S : distances_bigger[s] \in 0 .. Far(bigger)
  BY <1>1, Arguments DEF AreDistances
<1>5. max_state = Far(smaller) + Far(bigger) /\ max_state \in Nat
  BY <1>2 DEF max_state
<1>6. \A s \in S : D(s) = IF distances_bigger[s] = Far(bigger) THEN max_state
                          ELSE distances_bigger[s]
  BY DEF DistanceOf
<1>7. \A s \in S : D(s) \in Nat /\ D(s) <= max_state
  BY <1>2, <1>4, <1>5, <1>6
<1>8. DistanceOf(smaller, distances_smaller, p[1]) = IF d = Far(smaller) THEN max_state ELSE d
  BY DEF DistanceOf
<1>9. /\ min_dst(S) \in Nat /\ min_dst(S) <= max_state
      /\ \A s \in S : min_dst(S) <= D(s)
      /\ S = {} => min_dst(S) = max_state
      /\ S # {} => \E s \in S : min_dst(S) = D(s)
  <2>1. CASE S = {}
    BY <1>5, <2>1 DEF min_dst
  <2>2. CASE S # {}
    <3> DEFINE T == {D(s) : s \in S}
    <3>1. T \in SUBSET Nat /\ T # {}
      BY <1>7, <2>2
    <3>2. \E n \in T : \A m \in T : n <= m
      <4> HIDE DEF T
      <4>1. QED
        BY <3>1, LeastElement
    <3>3. \E n \in T : \A s \in S : n <= D(s)
      BY <3>2
    <3>4. min_dst(S) = CHOOSE n \in T : \A s \in S : n <= D(s)
      BY <2>2 DEF min_dst
    <3>5. min_dst(S) \in T /\ \A s \in S : min_dst(S) <= D(s)
      <4> HIDE DEF T, D, S
      <4>1. QED
        BY <3>3, <3>4
    <3>6. PICK s \in S : min_dst(S) = D(s)
      BY <3>5
    <3> HIDE DEF D, S
    <3>7. QED
      BY <1>7, <2>2, <3>5, <3>6
  <2>3. QED
    BY <2>1, <2>2
<1>10. lengths_incompatible(p) <=> (IF d = Far(smaller) THEN max_state ELSE d) < min_dst(S)
  BY <1>8 DEF lengths_incompatible
<1> HIDE DEF d, D, S
<1>11. ASSUME (IF d = Far(smaller) THEN max_state ELSE d) < min_dst(S)
       PROVE  /\ d < Far(smaller)
              /\ \A s \in S : distances_bigger[s] = Far(bigger) \/ d < distances_bigger[s]
  <2>1. d # Far(smaller)
    BY <1>5, <1>9, <1>11
  <2>2. d < Far(smaller) /\ d < min_dst(S)
    BY <1>2, <1>3, <1>11, <2>1
  <2>3. ASSUME NEW s \in S, distances_bigger[s] # Far(bigger) PROVE d < distances_bigger[s]
    <3>1. D(s) = distances_bigger[s] /\ min_dst(S) <= D(s) /\ D(s) \in Nat
      BY <1>6, <1>7, <1>9, <2>3
    <3>2. QED
      BY <1>2, <1>3, <1>9, <2>2, <3>1
  <2>4. QED
    BY <2>2, <2>3
<1>12. ASSUME d < Far(smaller),
              \A s \in S : distances_bigger[s] = Far(bigger) \/ d < distances_bigger[s]
       PROVE  (IF d = Far(smaller) THEN max_state ELSE d) < min_dst(S)
  <2>1. d # Far(smaller) /\ d < max_state
    BY <1>2, <1>3, <1>5, <1>12
  <2>2. CASE S = {}
    BY <1>9, <2>1, <2>2
  <2>3. CASE S # {}
    <3>1. PICK s \in S : min_dst(S) = D(s)
      BY <1>9, <2>3
    <3>2. d < D(s)
      BY <1>6, <1>12, <2>1
    <3>3. QED
      BY <2>1, <3>1, <3>2
  <2>4. QED
    BY <2>2, <2>3
<1>13. QED
  BY <1>10, <1>11, <1>12 DEF d, S

(* A refused pair at a final state is rejecting.                            *)
LEMMA RefusedFinal ==
  ASSUME TypeOK, NEW p \in Pair, Refused(p), p[1] \in smaller.final
  PROVE  Rejecting(p)
<1>1. CASE Rejecting(p)
  BY <1>1
<1>2. CASE lengths_incompatible(p)
  <2>1. p[1] \in smaller.states /\ p[2] \in SUBSET bigger.states
    BY DEF Pair
  <2>2. distances_smaller[p[1]] = 0 /\ Far(bigger) > 0 /\ Far(bigger) \in Nat
    BY <2>1, Arguments DEF AreDistances
  <2>3. \A s \in p[2] : distances_bigger[s] = Far(bigger) \/ 0 < distances_bigger[s]
    BY <1>2, <2>2, LengthsIncompatible
  <2>4. \A s \in p[2] : distances_bigger[s] # 0
    BY <2>2, <2>3
  <2>5. \A s \in p[2] : s \notin bigger.final
    BY <2>1, <2>4, Arguments DEF AreDistances
  <2>6. QED
    BY <2>5 DEF Rejecting
<1>3. QED
  BY <1>1, <1>2 DEF Refused

(* From a refused pair that is not rejecting some move gets closer to a     *)
(* final state of smaller, and every such move leads to a refused pair.     *)
LEMMA RefusedGoesOn ==
  ASSUME TypeOK, NEW p \in Pair, Refused(p), p[1] \notin smaller.final
  PROVE  /\ \E k \in smaller.delta :
              k[1] = p[1] /\ distances_smaller[k[3]] < distances_smaller[p[1]]
         /\ \A k \in smaller.delta :
              k[1] = p[1] /\ distances_smaller[k[3]] < distances_smaller[p[1]] =>
                Refused(<<k[3], Post(bigger, p[2], k[2])>>)
<1>1. algorithm = "inclusion" /\ lengths_incompatible(p)
  BY DEF Refused, Rejecting
<1>2. /\ distances_smaller[p[1]] < Far(smaller)
      /\ \A s \in p[2] : \/ distances_bigger[s] = Far(bigger)
                         \/ distances_smaller[p[1]] < distances_bigger[s]
  BY <1>1, LengthsIncompatible
<1>3. p[1] \in smaller.states /\ p[2] \in SUBSET bigger.states
  BY DEF Pair
<1>4. distances_smaller[p[1]] \in 0 .. Far(smaller) /\ distances_smaller[p[1]] # 0
  BY <1>3, Arguments DEF AreDistances
<1>5. \E k \in smaller.delta :
        k[1] = p[1] /\ distances_smaller[k[3]] < distances_smaller[p[1]]
  <2>1. 0 < distances_smaller[p[1]]
    BY <1>4, Arguments
  <2>2. QED
    BY <1>2, <1>3, <2>1, Arguments DEF AreDistances
<1>6. ASSUME NEW k \in smaller.delta, k[1] = p[1],
             distances_smaller[k[3]] < distances_smaller[p[1]]
      PROVE  Refused(<<k[3], Post(bigger, p[2], k[2])>>)
  <2> DEFINE r == <<k[3], Post(bigger, p[2], k[2])>>
             d == distances_smaller[k[3]]
  <2>1. k[3] \in smaller.states
    BY Arguments DEF IsAutomaton
  <2>2. r \in Pair
    BY <2>1, PostIsSetOfStates DEF Pair
  <2>3. d \in 0 .. Far(smaller) /\ d < Far(smaller) /\ d + 1 <= distances_smaller[p[1]]
    <3>1. d \in 0 .. Far(smaller)
      BY <2>1, Arguments DEF AreDistances
    <3>2. QED
      BY <1>2, <1>4, <1>6, <3>1, Arguments
  <2>4. ASSUME NEW t \in Post(bigger, p[2], k[2]), distances_bigger[t] # Far(bigger)
        PROVE  d < distances_bigger[t]
    <3>1. PICK s \in p[2] : <<s, k[2], t>> \in bigger.delta
      BY DEF Post
    <3>2. t \in bigger.states /\ s \in bigger.states
      BY <1>3 DEF Post
    <3>3. distances_bigger[t] \in 0 .. Far(bigger) /\ distances_bigger[s] \in 0 .. Far(bigger)
      BY <3>2, Arguments DEF AreDistances
    <3>4. distances_bigger[t] < Far(bigger)
      BY <2>4, <3>3, Arguments
    <3>5. distances_bigger[s] < Far(bigger) /\ distances_bigger[s] <= distances_bigger[t] + 1
      BY <3>1, <3>4, Arguments DEF AreDistances
    <3>6. distances_smaller[p[1]] < distances_bigger[s]
      <4>1. distances_bigger[s] # Far(bigger)
        BY <3>3, <3>5, Arguments
      <4>2. QED
        BY <1>2, <4>1
    <3> HIDE DEF d
    <3>7. QED
      BY <1>4, <2>3, <3>3, <3>5, <3>6, Arguments
  <2>5. lengths_incompatible(r)
    BY <2>2, <2>3, <2>4, LengthsIncompatible
  <2>6. QED
    BY <1>1, <2>5 DEF Refused
<1>7. QED
  BY <1>5, <1>6

(* Refusing is never wrong: a rejecting pair is bound to follow.            *)
LEMMA RefusedIsHopeless ==
  ASSUME TypeOK, NEW p \in Pair, Refused(p)
  PROVE  Hopeless(p)
<1> SUFFICES ASSUME NEW X \in SUBSET Pair, p \in X, Closed(X)
             PROVE  \E r \in X : Rejecting(r)
  BY DEF Hopeless
<1> DEFINE T == {n \in Nat : \E r \in X : Refused(r) /\ distances_smaller[r[1]] = n}
<1>1. \A r \in X : distances_smaller[r[1]] \in Nat
  <2>1. \A r \in X : r[1] \in smaller.states
    BY DEF Pair
  <2>2. QED
    BY <2>1, Arguments DEF AreDistances
<1>2. T \in SUBSET Nat /\ T # {}
  BY <1>1
<1>3. PICK n \in T : \A m \in T : n <= m
  <2> HIDE DEF T
  <2>1. QED
    BY <1>2, LeastElement
<1>4. PICK r \in X : Refused(r) /\ distances_smaller[r[1]] = n
  OBVIOUS
<1>5. CASE r[1] \in smaller.final
  BY <1>4, <1>5, RefusedFinal
<1>6. CASE r[1] \notin smaller.final
  <2>1. PICK k \in smaller.delta :
          k[1] = r[1] /\ distances_smaller[k[3]] < distances_smaller[r[1]]
    BY <1>4, <1>6, RefusedGoesOn
  <2> DEFINE t == <<k[3], Post(bigger, r[2], k[2])>>
  <2>2. Refused(t)
    BY <1>4, <1>6, <2>1, RefusedGoesOn
  <2>3. <<r, k[2], k[3]>> \in Moves(r) /\ Successor(<<r, k[2], k[3]>>) = t
    BY <2>1 DEF Moves, Successor
  <2>4. t \in X
    BY <2>3 DEF Closed
  <2>5. distances_smaller[k[3]] \in T
    BY <1>1, <2>2, <2>4
  <2>6. QED
    BY <1>1, <1>3, <1>4, <2>1, <2>5
<1>7. QED
  BY <1>5, <1>6

------------------------------------------------------------------------------
(* The inductive invariant.                                                 *)

(* The vector holds the waiting pairs, each once.                           *)
WorklistInv == /\ worklist \in Seq(Pair) /\ Distinct(worklist)
               /\ ToSet(worklist) = waiting

(* An initial state that is still to come does not wait yet.                *)
StartsInv == \A q \in starts : <<q, bigger.initial>> \notin waiting

(* The moves are those of one pair, and that one was not lost by pruning.   *)
TodoInv == /\ \A m, n \in todo : m[1] = n[1]
           /\ \A m \in todo : Covered(m[1], processed)

(* The search has an answer when it is done, and it builds a counterexample *)
(* only from a move whose successor is refused.                             *)
PhaseInv ==
  /\ algorithm \in {"inclusion", "universality"} /\ wants_cex \in BOOLEAN
  /\ phase \in {"search", "back", "forward", "done"}
  /\ phase = "done" <=> verdict # "none"
  /\ phase \in {"back", "forward"} => wants_cex /\ bad \in todo /\ Refused(Successor(bad))
  /\ phase = "back" => at \in DOMAIN paths
  /\ phase = "forward" => algorithm = "inclusion" /\ at[1] \in smaller.states

(* An entry of paths is that of an initial pair, or it names a pair that    *)
(* has an entry, another one, from which a move on the symbol leads here.   *)
IsStartEntry(p) == p \in InitialPairs /\ paths[p] = <<p, 0>>
IsStepEntry(p) ==
  \E r \in DOMAIN paths, a \in Symbol :
    /\ r # p /\ paths[p] = <<r, a>>
    /\ <<r[1], a, p[1]>> \in smaller.delta /\ p[2] = Post(bigger, r[2], a)

PathsInv ==
  wants_cex =>
    /\ processed \subseteq DOMAIN paths /\ DOMAIN paths \subseteq Pair
    /\ \A m \in todo : m[1] \in DOMAIN paths
    /\ \A p \in DOMAIN paths : IsStartEntry(p) \/ IsStepEntry(p)

LifoInv == IInv /\ WorklistInv /\ StartsInv /\ TodoInv /\ PhaseInv /\ PathsInv

(* While the counterexample is built, what is collected leads from the pair *)
(* reached by the walk back to the refused one, and from the initial states *)
(* to the state reached by the run forward, where the pair is refused.      *)
BackInv ==
  /\ cex = [word |-> cex.word, path |-> cex.path] /\ cex.word \in Seq(Symbol)
  /\ bad[3] \in Read(From(smaller, {at[1]}), Reverse(cex.word))
  /\ Read(From(bigger, at[2]), Reverse(cex.word)) = Post(bigger, bad[1][2], bad[2])
  /\ algorithm = "inclusion" =>
       /\ cex.path \in Seq(smaller.states) /\ cex.path # << >>
       /\ Last(cex.path) = at[1]
       /\ IsRun(smaller, Append(Reverse(cex.path), bad[3]), Reverse(cex.word))

ForwardInv ==
  /\ cex.word \in Seq(Symbol)
  /\ cex.path \in Seq(smaller.states) /\ cex.path # << >>
  /\ IsRun(smaller, cex.path, cex.word)
  /\ Head(cex.path) \in smaller.initial /\ Last(cex.path) = at[1]
  /\ at[1] \in Read(smaller, cex.word)
  /\ Refused(<<at[1], Read(bigger, cex.word)>>)

WitnessInv ==
  /\ phase = "search" => cex = [word |-> << >>, path |-> << >>]
  /\ phase = "back" => BackInv
  /\ phase = "forward" => ForwardInv
  /\ CexIsWitness

------------------------------------------------------------------------------
(* Every step of the code is one of InclusionSearch.                        *)

LEMMA TodoTypes ==
  ASSUME TypeOK, NEW m \in todo
  PROVE  /\ m[1] \in Pair /\ m[2] \in Symbol /\ m[3] \in smaller.states
         /\ m = <<m[1], m[2], m[3]>> /\ m[2] \in Nat /\ m[3] \in Nat
         /\ <<m[1][1], m[2], m[3]>> \in smaller.delta
         /\ Successor(m) \in Pair
<1>1. m[1] \in Pair /\ m \in Moves(m[1])
  BY DEF TypeOK
<1>2. PICK x \in smaller.delta : x[1] = m[1][1] /\ m = <<m[1], x[2], x[3]>>
  BY <1>1 DEF Moves
<1>3. x = <<x[1], x[2], x[3]>> /\ x[2] \in Symbol /\ x[3] \in smaller.states
  BY Arguments DEF IsAutomaton
<1>4. x[3] \in Nat /\ x[2] \in Nat
  <2>1. <<smaller, bigger>> \in Inputs
    BY DEF TypeOK
  <2>2. QED
    BY <1>3, <2>1, NumbersAssumption DEF Numbered
<1>5. Successor(m) \in Pair
  BY <1>1, SuccessorIsPair
<1>6. m[2] = x[2] /\ m[3] = x[3]
  BY <1>2
<1>7. <<m[1][1], m[2], m[3]>> = x
  BY <1>2, <1>3, <1>6
<1>8. QED
  BY <1>1, <1>2, <1>3, <1>4, <1>5, <1>6, <1>7

(* There is a first move as long as there is one.                           *)
LEMMA NextMoveIsMove ==
  ASSUME TypeOK, TodoInv, todo # {}
  PROVE  NextMove \in todo
<1> DEFINE A == {m[2] : m \in todo}
<1>1. A \in SUBSET Nat /\ A # {}
  BY TodoTypes
<1>2. PICK a \in A : \A b \in A : a <= b
  <2> HIDE DEF A
  <2>1. QED
    BY <1>1, LeastElement
<1> DEFINE B == {m[3] : m \in {n \in todo : n[2] = a}}
<1>3. B \in SUBSET Nat /\ B # {}
  BY TodoTypes
<1>4. PICK t \in B : \A b \in B : t <= b
  <2> HIDE DEF B
  <2>1. QED
    BY <1>3, LeastElement
<1>5. PICK m \in todo : m[2] = a /\ m[3] = t
  OBVIOUS
<1>6. ASSUME NEW n \in todo PROVE m = n \/ Before(m, n)
  <2>1. n[2] \in Nat /\ a \in Nat /\ a <= n[2]
    BY <1>1, <1>2
  <2>2. CASE n[2] # a
    BY <1>5, <2>1, <2>2 DEF Before
  <2>3. CASE n[2] = a
    <3>1. n[3] \in Nat /\ t \in Nat /\ t <= n[3]
      BY <1>3, <1>4, <2>3
    <3>2. CASE n[3] # t
      BY <1>5, <2>3, <3>1, <3>2 DEF Before
    <3>3. CASE n[3] = t
      <4>1. n[1] = m[1]
        BY DEF TodoInv
      <4>2. m = <<m[1], m[2], m[3]>> /\ n = <<n[1], n[2], n[3]>>
        BY TodoTypes
      <4>3. QED
        BY <1>5, <2>3, <3>3, <4>1, <4>2
    <3>4. QED
      BY <3>2, <3>3
  <2>4. QED
    BY <2>2, <2>3
<1>7. QED
  BY <1>5, <1>6 DEF NextMove

(* The last pair of the worklist waits.                                     *)
LEMMA LastWaits ==
  ASSUME WorklistInv, worklist # << >>
  PROVE  Last(worklist) \in waiting /\ Len(worklist) \in Nat /\ Len(worklist) > 0
<1>1. Len(worklist) \in Nat /\ Len(worklist) > 0 /\ DOMAIN worklist = 1 .. Len(worklist)
  BY DEF WorklistInv
<1>2. Len(worklist) \in DOMAIN worklist
  BY <1>1
<1>3. QED
  BY <1>1, <1>2 DEF WorklistInv, Last, ToSet

LEMMA NotIncludedIsRefuse ==
  ASSUME LifoInv, phase # "done", NEW m \in todo, Refused(Successor(m)),
         Answer("not included")
  PROVE  Refuse
<1>1. Hopeless(Successor(m))
  BY TodoTypes, RefusedIsHopeless DEF LifoInv, IInv
<1>2. Running
  BY DEF LifoInv, PhaseInv, Running
<1>3. QED
  BY <1>1, <1>2 DEF Refuse

LEMMA StepImplementsSearch ==
  ASSUME LifoInv, [LifoNext]_vars
  PROVE  [Next]_searchvars
<1> USE DEF LifoInv
<1>1. phase \in {"search", "back", "forward"} => Running
  BY DEF PhaseInv, Running
<1>2. TypeOK
  BY DEF IInv
<1>3. ASSUME NEW q \in starts, PushStart(q) PROVE Next
  BY <1>1, <1>3 DEF PushStart, Start, Next
<1>4. ASSUME NEW q \in starts, RefuseStart(q) PROVE Next
  BY <1>1, <1>4 DEF RefuseStart, Refuse, Next
<1>5. CASE Pop
  BY <1>1, <1>5, LastWaits DEF Pop, Take, Next
<1>6. CASE Subsumed
  <2>1. NextMove \in todo
    BY <1>2, <1>6, NextMoveIsMove DEF Subsumed
  <2>2. Skip(NextMove)
    BY <1>1, <1>6, <2>1 DEF Subsumed, Skip, Refused, is_subsumed
  <2>3. QED
    BY <2>1, <2>2 DEF Next
<1>7. CASE Push
  <2>1. NextMove \in todo
    BY <1>2, <1>7, NextMoveIsMove DEF Push
  <2>2. Add(NextMove)
    BY <1>1, <1>7, <2>1 DEF Push, Add, Refused, is_subsumed, Prune
  <2>3. QED
    BY <2>1, <2>2 DEF Next
<1>8. CASE RefuseAtOnce
  <2>1. NextMove \in todo
    BY <1>2, <1>8, NextMoveIsMove DEF RefuseAtOnce
  <2>2. Refuse
    BY <1>8, <2>1, NotIncludedIsRefuse DEF RefuseAtOnce
  <2>3. QED
    BY <2>2 DEF Next
<1>9. CASE RefuseWithCex
  BY <1>9 DEF RefuseWithCex
<1>10. CASE WalkBack
  BY <1>10 DEF WalkBack
<1>11. CASE TurnRound
  <2>1. CASE algorithm = "inclusion"
    BY <1>11, <2>1 DEF TurnRound
  <2>2. CASE algorithm # "inclusion"
    <3>1. bad \in todo /\ Refused(Successor(bad)) /\ phase # "done"
      BY <1>11 DEF TurnRound, PhaseInv
    <3>2. Answer("not included")
      BY <1>11, <2>2 DEF TurnRound
    <3>3. QED
      BY <3>1, <3>2, NotIncludedIsRefuse DEF Next
  <2>3. QED
    BY <2>1, <2>2
<1>12. CASE GoForward
  BY <1>12 DEF GoForward
<1>13. CASE ReturnCex
  <2>1. bad \in todo /\ Refused(Successor(bad)) /\ phase # "done"
    BY <1>13 DEF ReturnCex, PhaseInv
  <2>2. Answer("not included")
    BY <1>13 DEF ReturnCex
  <2>3. QED
    BY <2>1, <2>2, NotIncludedIsRefuse DEF Next
<1>14. CASE ReturnTrue
  <2>1. waiting = {}
    BY <1>14 DEF ReturnTrue, WorklistInv, ToSet
  <2>2. QED
    BY <1>1, <1>14, <2>1 DEF ReturnTrue, Accept, Next
<1>15. CASE UNCHANGED vars
  BY <1>15 DEF vars, searchvars
<1>16. QED
  BY <1>3, <1>4, <1>5, <1>6, <1>7, <1>8, <1>9, <1>10, <1>11, <1>12, <1>13, <1>14,
     <1>15 DEF LifoNext

------------------------------------------------------------------------------
(* Every step keeps the invariant.                                          *)

(* The steps that answer, or build the counterexample.                      *)
OnlyAnswers ==
  /\ UNCHANGED <<smaller, bigger, starts, processed, waiting, todo>>
  /\ UNCHANGED <<algorithm, wants_cex, worklist, paths>>

LEMMA SearchOrAnswer ==
  ASSUME LifoNext
  PROVE  \/ \E q \in starts : PushStart(q)
         \/ Pop \/ Subsumed \/ Push
         \/ OnlyAnswers
<1>1. ASSUME NEW q \in starts, RefuseStart(q) PROVE OnlyAnswers
  BY <1>1 DEF RefuseStart, Answer, OnlyAnswers
<1>2. RefuseAtOnce \/ ReturnCex \/ ReturnTrue => OnlyAnswers
  BY DEF RefuseAtOnce, ReturnCex, ReturnTrue, Answer, OnlyAnswers
<1>3. RefuseWithCex \/ WalkBack \/ GoForward => OnlyAnswers
  BY DEF RefuseWithCex, WalkBack, GoForward, searchvars, OnlyAnswers
<1>4. TurnRound => OnlyAnswers
  BY DEF TurnRound, Answer, searchvars, OnlyAnswers
<1>5. QED
  BY <1>1, <1>2, <1>3, <1>4 DEF LifoNext

LEMMA SameArguments ==
  ASSUME LifoNext
  PROVE  smaller' = smaller /\ bigger' = bigger /\ algorithm' = algorithm
         /\ wants_cex' = wants_cex
<1>1. ASSUME NEW q \in starts, PushStart(q)
      PROVE  smaller' = smaller /\ bigger' = bigger /\ algorithm' = algorithm
             /\ wants_cex' = wants_cex
  BY <1>1 DEF PushStart, EnterStart
<1>2. Pop => smaller' = smaller /\ bigger' = bigger /\ algorithm' = algorithm
             /\ wants_cex' = wants_cex
  BY DEF Pop, TakePair
<1>3. Subsumed => smaller' = smaller /\ bigger' = bigger /\ algorithm' = algorithm
                  /\ wants_cex' = wants_cex
  BY DEF Subsumed, SkipMove, run
<1>4. Push => smaller' = smaller /\ bigger' = bigger /\ algorithm' = algorithm
              /\ wants_cex' = wants_cex
  BY DEF Push, Prune, AddPair
<1>5. QED
  BY <1>1, <1>2, <1>3, <1>4, SearchOrAnswer DEF OnlyAnswers

(* Refusing depends on the arguments alone.                                 *)
LEMMA SameRefusals ==
  ASSUME smaller' = smaller, bigger' = bigger, algorithm' = algorithm
  PROVE  /\ distances_smaller' = distances_smaller
         /\ \A p : Refused(p)' <=> Refused(p)
         /\ \A m : Refused(Successor(m))' <=> Refused(Successor(m))
<1>1. distances_smaller' = distances_smaller /\ distances_bigger' = distances_bigger
      /\ max_state' = max_state
  BY DEF distances_smaller, distances_bigger, max_state
<1>2. \A S : min_dst(S)' = min_dst(S)
  BY <1>1 DEF min_dst, DistanceOf
<1>3. \A p : lengths_incompatible(p)' <=> lengths_incompatible(p)
  BY <1>1, <1>2 DEF lengths_incompatible, DistanceOf
<1>4. \A p : Refused(p)' <=> Refused(p)
  BY <1>3, SameInputs DEF Refused
<1>5. QED
  BY <1>1, <1>4, SameInputs

LEMMA StepWorklist == ASSUME LifoInv, LifoNext PROVE WorklistInv'
<1> USE DEF LifoInv
<1>1. Pair' = Pair
  BY SameArguments, SameInputs
<1>2. /\ worklist \in Seq(Pair) /\ Distinct(worklist) /\ ToSet(worklist) = waiting
      /\ Len(worklist) \in Nat
  BY DEF WorklistInv
<1>3. ASSUME NEW s \in Pair, NEW w \in Seq(Pair), Distinct(w), s \notin ToSet(w)
      PROVE  /\ Append(w, s) \in Seq(Pair) /\ Distinct(Append(w, s))
             /\ ToSet(Append(w, s)) = ToSet(w) \cup {s}
  <2>1. Append(w, s) \in Seq(Pair) /\ Len(Append(w, s)) = Len(w) + 1 /\ Len(w) \in Nat
        /\ \A i \in 1 .. Len(w) + 1 :
             Append(w, s)[i] = IF i = Len(w) + 1 THEN s ELSE w[i]
    BY AppendProperties
  <2>2. Distinct(Append(w, s))
    BY <1>3, <2>1 DEF Distinct, ToSet
  <2>3. ToSet(Append(w, s)) = ToSet(w) \cup {s}
    BY <2>1 DEF ToSet
  <2>4. QED
    BY <2>1, <2>2, <2>3
<1>4. ASSUME NEW q \in starts, PushStart(q) PROVE WorklistInv'
  <2> DEFINE s == <<q, bigger.initial>>
  <2>1. s \in Pair
    BY InitialPairsArePairs DEF IInv, TypeOK, InitialPairs
  <2>2. s \notin ToSet(worklist)
    BY <1>2 DEF StartsInv
  <2>3. worklist' = Append(worklist, s) /\ waiting' = waiting \cup {s}
    BY <1>4 DEF PushStart, EnterStart
  <2> HIDE DEF s
  <2>4. QED
    BY <1>1, <1>2, <1>3, <2>1, <2>2, <2>3 DEF WorklistInv
<1>5. CASE Pop
  <2> DEFINE n == Len(worklist)
  <2>1. n > 0 /\ Last(worklist) \in waiting
    BY <1>5, LastWaits DEF Pop
  <2>2. waiting' = waiting \ {worklist[n]} /\ worklist' = SubSeq(worklist, 1, n - 1)
    BY <1>5 DEF Pop, TakePair, Last, Front
  <2>3. /\ SubSeq(worklist, 1, n - 1) \in Seq(Pair)
        /\ Len(SubSeq(worklist, 1, n - 1)) = n - 1
        /\ \A i \in 1 .. n - 1 : SubSeq(worklist, 1, n - 1)[i] = worklist[i]
    <3>1. n = Len(worklist) /\ n \in Nat /\ n > 0
      BY <1>2, <2>1
    <3> HIDE DEF n
    <3>2. \A i \in 1 .. n - 1 : i \in 1 .. Len(worklist)
      BY <3>1
    <3>3. \A i \in 1 .. n - 1 : worklist[i] \in Pair
      BY <1>2, <3>2, ElementOfSeq
    <3>4. QED
      BY <3>1, <3>3, SubSeqProperties
  <2> DEFINE w == SubSeq(worklist, 1, n - 1)
  <2>4. \A i \in 1 .. n - 1 : i \in 1 .. n /\ i # n
    BY <1>2
  <2>5. n \in 1 .. n /\ \A i \in 1 .. n : i = n \/ i \in 1 .. n - 1
    BY <1>2, <2>1
  <2> HIDE DEF w
  <2>6. w \in Seq(Pair) /\ Len(w) = n - 1 /\ \A i \in 1 .. n - 1 : w[i] = worklist[i]
    BY <2>3 DEF w
  <2>7. Distinct(w)
    BY <1>2, <2>4, <2>6 DEF Distinct
  <2>8. ToSet(w) = waiting \ {worklist[n]}
    <3>1. DOMAIN w = 1 .. n - 1 /\ DOMAIN worklist = 1 .. n
      BY <1>2, <2>6
    <3>2. ToSet(w) = {worklist[i] : i \in 1 .. n - 1}
      BY <2>6, <3>1 DEF ToSet
    <3>3. waiting = {worklist[i] : i \in 1 .. n}
      BY <1>2, <3>1 DEF ToSet
    <3>4. \A i \in 1 .. n - 1 : worklist[i] # worklist[n]
      BY <1>2, <2>4, <2>5 DEF Distinct
    <3>5. QED
      BY <2>4, <2>5, <3>2, <3>3, <3>4
  <2>9. QED
    BY <1>1, <2>2, <2>6, <2>7, <2>8 DEF WorklistInv, w
<1>6. CASE Subsumed
  BY <1>1, <1>2, <1>6 DEF Subsumed, SkipMove, run, WorklistInv, Distinct, ToSet
<1>7. CASE Push
  <2> DEFINE s == Successor(NextMove)
             w == EraseSubsumed(worklist, s)
  <2>1. s \in Pair
    BY <1>7, NextMoveIsMove, TodoTypes DEF IInv, Push
  <2>2. worklist' = Append(w, s) /\ waiting' = Without(waiting, s) \cup {s}
    BY <1>7 DEF Push, Prune, AddPair
  <2> HIDE DEF s
  <2>3. w \in Seq(Pair) /\ Distinct(w) /\ ToSet(w) = Without(waiting, s)
    BY <1>2, ErasedWorklist
  <2>4. s \notin ToSet(w)
    BY <2>3, SubsumesReflexive DEF Without
  <2> HIDE DEF w
  <2>5. QED
    BY <1>1, <1>3, <2>1, <2>2, <2>3, <2>4 DEF WorklistInv
<1>8. CASE OnlyAnswers
  BY <1>1, <1>2, <1>8 DEF OnlyAnswers, WorklistInv, Distinct, ToSet
<1>9. QED
  BY <1>4, <1>5, <1>6, <1>7, <1>8, SearchOrAnswer

LEMMA StepStarts == ASSUME LifoInv, LifoNext PROVE StartsInv'
<1> USE DEF LifoInv
<1>1. bigger' = bigger
  BY SameArguments
<1>2. ASSUME NEW q \in starts, PushStart(q) PROVE StartsInv'
  <2>1. starts' = starts \ {q} /\ waiting' = waiting \cup {<<q, bigger.initial>>}
    BY <1>2 DEF PushStart, EnterStart
  <2>2. QED
    BY <1>1, <2>1 DEF StartsInv
<1>3. CASE Pop
  BY <1>1, <1>3 DEF Pop, TakePair, StartsInv
<1>4. CASE Subsumed
  BY <1>1, <1>4 DEF Subsumed, SkipMove, StartsInv
<1>5. CASE Push
  <2>1. starts = {}
    BY <1>5 DEF Push, IInv, SearchInv
  <2>2. starts' = starts
    BY <1>5 DEF Push, Prune, AddPair
  <2>3. QED
    BY <2>1, <2>2 DEF StartsInv
<1>6. CASE OnlyAnswers
  BY <1>6 DEF OnlyAnswers, StartsInv
<1>7. QED
  BY <1>2, <1>3, <1>4, <1>5, <1>6, SearchOrAnswer

LEMMA StepTodo == ASSUME LifoInv, LifoNext PROVE TodoInv'
<1> USE DEF LifoInv
<1>1. ASSUME NEW q \in starts, PushStart(q) PROVE TodoInv'
  <2>1. todo = {}
    BY DEF IInv, SearchInv
  <2>2. todo' = todo
    BY <1>1 DEF PushStart, EnterStart
  <2>3. QED
    BY <2>1, <2>2 DEF TodoInv
<1>2. CASE Pop
  <2> DEFINE p == Last(worklist)
  <2>1. p \in waiting
    BY <1>2, LastWaits DEF Pop
  <2>2. todo' = Moves(p) /\ processed' = processed
    BY <1>2 DEF Pop, TakePair
  <2>3. p \in processed
    BY <2>1 DEF IInv, TypeOK
  <2> HIDE DEF p
  <2>4. \A m \in Moves(p) : m[1] = p
    BY DEF Moves
  <2>5. Covered(p, processed)
    BY <2>3, SubsumesReflexive DEF Covered
  <2>6. QED
    BY <2>2, <2>4, <2>5 DEF TodoInv, Covered
<1>3. CASE Subsumed
  <2>1. todo' \subseteq todo /\ processed' = processed
    BY <1>3 DEF Subsumed, SkipMove
  <2>2. QED
    BY <2>1 DEF TodoInv, Covered
<1>4. CASE Push
  <2> DEFINE s == Successor(NextMove)
  <2>1. todo' \subseteq todo /\ processed' = Without(processed, s) \cup {s}
    BY <1>4 DEF Push, Prune, AddPair
  <2> HIDE DEF s
  <2>2. \A m \in todo : Covered(m[1], Without(processed, s) \cup {s})
    BY StillCovered DEF TodoInv
  <2>3. \A m \in todo' : Covered(m[1], processed')
    BY <2>1, <2>2
  <2>4. QED
    BY <2>1, <2>3 DEF TodoInv, Covered
<1>5. CASE OnlyAnswers
  BY <1>5 DEF OnlyAnswers, TodoInv, Covered
<1>6. QED
  BY <1>1, <1>2, <1>3, <1>4, <1>5, SearchOrAnswer

LEMMA StepPhase == ASSUME LifoInv, LifoNext PROVE PhaseInv'
<1> USE DEF LifoInv
<1>1. /\ smaller' = smaller /\ bigger' = bigger /\ algorithm' = algorithm
      /\ wants_cex' = wants_cex
  BY SameArguments
<1>2. TypeOK
  BY DEF IInv
<1>3. \A m : Refused(Successor(m))' <=> Refused(Successor(m))
  BY <1>1, SameRefusals
<1>4. Refused(Successor(bad)) /\ bad' = bad => Refused(Successor(bad))'
  <2> SUFFICES ASSUME NEW m, m = bad, Refused(Successor(m)), bad' = bad
               PROVE  Refused(Successor(bad))'
    OBVIOUS
  <2>1. Refused(Successor(m))'
    BY <1>3
  <2>2. QED
    BY <2>1 DEF Successor
<1>5. ASSUME phase = "search", phase' = "search", verdict' = verdict
      PROVE  PhaseInv'
  BY <1>1, <1>5 DEF PhaseInv
<1>6. ASSUME phase' = "done", verdict' \in {"included", "not included"}
      PROVE  PhaseInv'
  BY <1>1, <1>6 DEF PhaseInv
<1>7. ASSUME NEW q \in starts, PushStart(q) PROVE PhaseInv'
  BY <1>5, <1>7 DEF PushStart, EnterStart
<1>8. ASSUME NEW q \in starts, RefuseStart(q) PROVE PhaseInv'
  BY <1>6, <1>8 DEF RefuseStart, Answer
<1>9. CASE Pop
  BY <1>5, <1>9 DEF Pop, TakePair
<1>10. CASE Subsumed
  BY <1>5, <1>10 DEF Subsumed, SkipMove, run
<1>11. CASE Push
  BY <1>5, <1>11 DEF Push, Prune, AddPair
<1>12. CASE RefuseAtOnce
  BY <1>6, <1>12 DEF RefuseAtOnce, Answer
<1>13. CASE RefuseWithCex
  <2>1. PICK m \in todo : m = NextMove
    BY <1>2, <1>13, NextMoveIsMove DEF RefuseWithCex
  <2>2. /\ phase = "search" /\ wants_cex /\ Refused(Successor(m))
        /\ phase' = "back" /\ bad' = m /\ at' = m[1]
        /\ paths' = paths /\ todo' = todo /\ verdict' = verdict
    BY <1>13, <2>1 DEF RefuseWithCex, searchvars
  <2>3. m[1] \in DOMAIN paths
    BY <2>1, <2>2 DEF PathsInv
  <2>4. Refused(Successor(bad))'
    <3>1. Refused(Successor(m))'
      BY <1>3, <2>2
    <3>2. QED
      BY <2>2, <3>1 DEF Successor
  <2>5. QED
    BY <1>1, <2>1, <2>2, <2>3, <2>4 DEF PhaseInv
<1>14. CASE WalkBack
  <2>1. /\ phase = "back" /\ phase' = phase /\ bad' = bad /\ paths' = paths
        /\ at' = paths[at][1] /\ at' # at /\ todo' = todo /\ verdict' = verdict
    BY <1>14 DEF WalkBack, searchvars
  <2>2. at \in DOMAIN paths /\ wants_cex
    BY <2>1 DEF PhaseInv
  <2>3. at' \in DOMAIN paths
    <3>1. IsStartEntry(at) \/ IsStepEntry(at)
      BY <2>2 DEF PathsInv
    <3>2. ~IsStartEntry(at)
      BY <2>1 DEF IsStartEntry
    <3>3. PICK r \in DOMAIN paths, a \in Symbol : paths[at] = <<r, a>>
      BY <3>1, <3>2 DEF IsStepEntry
    <3>4. QED
      BY <2>1, <3>3
  <2>4. QED
    BY <1>1, <1>4, <2>1, <2>2, <2>3 DEF PhaseInv
<1>15. CASE TurnRound
  <2>1. CASE algorithm = "inclusion"
    <3>1. /\ phase = "back" /\ phase' = "forward" /\ bad' = bad /\ at' = <<bad[3], {}>>
          /\ todo' = todo /\ verdict' = verdict
      BY <1>15, <2>1 DEF TurnRound, searchvars
    <3>2. bad[3] \in smaller.states
      BY <1>2, <3>1, TodoTypes DEF PhaseInv
    <3>3. QED
      BY <1>1, <1>4, <2>1, <3>1, <3>2 DEF PhaseInv
  <2>2. CASE algorithm # "inclusion"
    BY <1>6, <1>15, <2>2 DEF TurnRound, Answer
  <2>3. QED
    BY <2>1, <2>2
<1>16. CASE GoForward
  <2>1. /\ phase = "forward" /\ phase' = phase /\ bad' = bad
        /\ todo' = todo /\ verdict' = verdict
    BY <1>16 DEF GoForward, searchvars
  <2>2. PICK m \in Closer : at' = <<m[3], {}>>
    BY <1>16 DEF GoForward
  <2>3. m[3] \in smaller.states
    BY <1>2, Arguments DEF Closer, IsAutomaton
  <2>4. QED
    BY <1>1, <1>4, <2>1, <2>2, <2>3 DEF PhaseInv
<1>17. CASE ReturnCex
  BY <1>6, <1>17 DEF ReturnCex, Answer
<1>18. CASE ReturnTrue
  BY <1>6, <1>18 DEF ReturnTrue, Answer
<1>19. QED
  BY <1>7, <1>8, <1>9, <1>10, <1>11, <1>12, <1>13, <1>14, <1>15, <1>16, <1>17, <1>18
     DEF LifoNext

(* The entries stay entries when one is added or overwritten by an entry.   *)
LEMMA StepPaths == ASSUME LifoInv, LifoNext PROVE PathsInv'
<1> USE DEF LifoInv
<1>1. /\ smaller' = smaller /\ bigger' = bigger /\ wants_cex' = wants_cex
      /\ Pair' = Pair /\ InitialPairs' = InitialPairs
  BY SameArguments, SameInputs
<1>2. TypeOK
  BY DEF IInv
<1> SUFFICES ASSUME wants_cex
             PROVE  /\ processed' \subseteq DOMAIN paths' /\ DOMAIN paths' \subseteq Pair
                    /\ \A m \in todo' : m[1] \in DOMAIN paths'
                    /\ \A p \in DOMAIN paths' : IsStartEntry(p)' \/ IsStepEntry(p)'
  BY <1>1 DEF PathsInv
<1>3. /\ processed \subseteq DOMAIN paths /\ DOMAIN paths \subseteq Pair
      /\ \A m \in todo : m[1] \in DOMAIN paths
      /\ \A p \in DOMAIN paths : IsStartEntry(p) \/ IsStepEntry(p)
  BY DEF PathsInv
<1>4. ASSUME NEW s \in Pair, NEW e,
             paths' = [p \in DOMAIN paths \cup {s} |-> IF p = s THEN e ELSE paths[p]],
             \/ s \in InitialPairs /\ e = <<s, 0>>
             \/ \E r \in DOMAIN paths, a \in Symbol :
                  /\ r # s /\ e = <<r, a>>
                  /\ <<r[1], a, s[1]>> \in smaller.delta /\ s[2] = Post(bigger, r[2], a)
      PROVE  \A p \in DOMAIN paths' : IsStartEntry(p)' \/ IsStepEntry(p)'
  <2>1. DOMAIN paths' = DOMAIN paths \cup {s} /\ paths'[s] = e
        /\ \A p \in DOMAIN paths : p # s => paths'[p] = paths[p]
    BY <1>4
  <2>2. IsStartEntry(s)' \/ IsStepEntry(s)'
    BY <1>1, <1>4, <2>1 DEF IsStartEntry, IsStepEntry
  <2>3. ASSUME NEW p \in DOMAIN paths, p # s PROVE IsStartEntry(p)' \/ IsStepEntry(p)'
    <3>1. IsStartEntry(p) \/ IsStepEntry(p)
      BY <1>3
    <3>2. paths'[p] = paths[p]
      BY <2>1, <2>3
    <3>3. CASE IsStartEntry(p)
      BY <1>1, <3>2, <3>3 DEF IsStartEntry
    <3>4. CASE IsStepEntry(p)
      BY <1>1, <2>1, <3>2, <3>4 DEF IsStepEntry
    <3>5. QED
      BY <3>1, <3>3, <3>4
  <2>4. QED
    BY <2>1, <2>2, <2>3
<1>5. ASSUME paths' = paths
      PROVE  \A p \in DOMAIN paths' : IsStartEntry(p)' \/ IsStepEntry(p)'
  <2>1. \A p : (IsStartEntry(p)' <=> IsStartEntry(p)) /\ (IsStepEntry(p)' <=> IsStepEntry(p))
    BY <1>1, <1>5 DEF IsStartEntry, IsStepEntry
  <2>2. QED
    BY <1>3, <1>5, <2>1
<1>6. ASSUME NEW q \in starts, PushStart(q)
      PROVE  /\ processed' \subseteq DOMAIN paths' /\ DOMAIN paths' \subseteq Pair
             /\ \A m \in todo' : m[1] \in DOMAIN paths'
             /\ \A p \in DOMAIN paths' : IsStartEntry(p)' \/ IsStepEntry(p)'
  <2> DEFINE s == <<q, bigger.initial>>
  <2>1. s \in InitialPairs /\ s \in Pair
    BY <1>2, InitialPairsArePairs DEF TypeOK, InitialPairs
  <2>2. /\ paths' = [p \in DOMAIN paths \cup {s} |-> IF p = s THEN <<s, 0>> ELSE paths[p]]
        /\ processed' = processed \cup {s} /\ todo' = todo
    BY <1>6 DEF PushStart, EnterStart
  <2> HIDE DEF s
  <2>3. \A p \in DOMAIN paths' : IsStartEntry(p)' \/ IsStepEntry(p)'
    BY <1>4, <2>1, <2>2
  <2>4. DOMAIN paths' = DOMAIN paths \cup {s}
    BY <2>2
  <2>5. QED
    BY <1>3, <2>1, <2>2, <2>3, <2>4
<1>7. CASE Pop
  <2> DEFINE p == Last(worklist)
  <2>1. p \in waiting /\ p \in processed
    BY <1>2, <1>7, LastWaits DEF Pop, TypeOK
  <2>2. todo' = Moves(p) /\ processed' = processed /\ paths' = paths
    BY <1>7 DEF Pop, TakePair
  <2> HIDE DEF p
  <2>3. \A m \in todo' : m[1] \in DOMAIN paths'
    BY <1>3, <2>1, <2>2 DEF Moves
  <2>4. QED
    BY <1>3, <1>5, <2>2, <2>3
<1>8. CASE Subsumed
  <2>1. todo' \subseteq todo /\ processed' = processed /\ paths' = paths
    BY <1>8 DEF Subsumed, SkipMove, run
  <2>2. QED
    BY <1>3, <1>5, <2>1
<1>9. CASE Push
  <2> DEFINE m == NextMove
             s == Successor(m)
  <2>1. m \in todo
    BY <1>2, <1>9, NextMoveIsMove DEF Push
  <2>2. /\ paths' = [p \in DOMAIN paths \cup {s} |->
                       IF p = s THEN <<m[1], m[2]>> ELSE paths[p]]
        /\ processed' = Without(processed, s) \cup {s} /\ todo' = todo \ {m}
        /\ ~Covered(s, processed)
    BY <1>9 DEF Push, Prune, AddPair, is_subsumed
  <2> HIDE DEF m
  <2>3. s \in Pair /\ m[1] \in DOMAIN paths /\ m[2] \in Symbol
        /\ <<m[1][1], m[2], m[3]>> \in smaller.delta
    BY <1>2, <1>3, <2>1, TodoTypes
  <2>4. m[1] # s
    BY <2>1, <2>2 DEF TodoInv
  <2>5. s[1] = m[3] /\ s[2] = Post(bigger, m[1][2], m[2])
    BY DEF Successor
  <2> HIDE DEF s
  <2>6. \A p \in DOMAIN paths' : IsStartEntry(p)' \/ IsStepEntry(p)'
    BY <1>4, <2>2, <2>3, <2>4, <2>5
  <2>7. DOMAIN paths' = DOMAIN paths \cup {s} /\ Without(processed, s) \subseteq processed
    BY <2>2 DEF Without
  <2>8. QED
    BY <1>3, <2>2, <2>3, <2>6, <2>7
<1>10. CASE OnlyAnswers
  <2>1. processed' = processed /\ todo' = todo /\ paths' = paths
    BY <1>10 DEF OnlyAnswers
  <2>2. QED
    BY <1>3, <1>5, <2>1
<1>11. QED
  BY <1>6, <1>7, <1>8, <1>9, <1>10, SearchOrAnswer

LEMMA InitLifoInv == LifoInit => LifoInv
<1> SUFFICES ASSUME LifoInit PROVE LifoInv
  OBVIOUS
<1>1. /\ Init /\ worklist = << >> /\ paths = NoPaths /\ phase = "search"
      /\ wants_cex \in BOOLEAN /\ algorithm \in {"inclusion", "universality"}
  BY DEF LifoInit
<1>2. IInv
  BY <1>1, InitIInv
<1>3. WorklistInv /\ StartsInv /\ TodoInv
  BY <1>1 DEF WorklistInv, StartsInv, TodoInv, Init, Distinct, ToSet
<1>4. PhaseInv
  BY <1>1 DEF PhaseInv, Init
<1>5. PathsInv
  BY <1>1 DEF PathsInv, NoPaths, Init
<1>6. QED
  BY <1>2, <1>3, <1>4, <1>5 DEF LifoInv

LEMMA NextLifoInv == ASSUME LifoInv, [LifoNext]_vars PROVE LifoInv'
<1>1. IInv'
  BY StepImplementsSearch, NextIInv DEF LifoInv
<1>2. CASE LifoNext
  BY <1>1, <1>2, StepWorklist, StepStarts, StepTodo, StepPhase, StepPaths DEF LifoInv
<1>3. CASE UNCHANGED vars
  <2>1. UNCHANGED <<smaller, bigger, starts, processed, waiting, todo, verdict,
                    algorithm, wants_cex, worklist, paths, cex, phase, bad, at>>
    BY <1>3 DEF vars
  <2>2. WorklistInv'
    BY <2>1, SameInputs DEF LifoInv, WorklistInv, Distinct, ToSet
  <2>3. StartsInv' /\ TodoInv'
    BY <2>1 DEF LifoInv, StartsInv, TodoInv, Covered
  <2>4. Refused(Successor(bad))' <=> Refused(Successor(bad))
    <3> SUFFICES ASSUME NEW m, m = bad
                 PROVE  Refused(Successor(bad))' <=> Refused(Successor(bad))
      OBVIOUS
    <3>1. Refused(Successor(m))' <=> Refused(Successor(m))
      BY <2>1, SameRefusals
    <3>2. QED
      BY <2>1, <3>1 DEF Successor
  <2>5. PhaseInv'
    BY <2>1, <2>4 DEF LifoInv, PhaseInv
  <2>6. PathsInv'
    <3>1. \A p : (IsStartEntry(p)' <=> IsStartEntry(p)) /\ (IsStepEntry(p)' <=> IsStepEntry(p))
      BY <2>1, SameInputs DEF IsStartEntry, IsStepEntry
    <3>2. QED
      BY <2>1, <3>1, SameInputs DEF LifoInv, PathsInv
  <2>7. QED
    BY <1>1, <2>2, <2>3, <2>5, <2>6 DEF LifoInv
<1>4. QED
  BY <1>2, <1>3

(* In every state of the calls the worklist, the paths and the refusals are *)
(* as LifoInv says.                                                         *)
THEOREM LifoInvHolds == LifoSpec => []LifoInv
<1>1. LifoInit => LifoInv
  BY InitLifoInv
<1>2. LifoInv /\ [LifoNext]_vars => LifoInv'
  BY NextLifoInv
<1>3. QED
  BY <1>1, <1>2, PTL DEF LifoSpec

(* The search of the code, with its worklist, its order and its refusals by *)
(* distances, implements the abstract search.                               *)
THEOREM LifoImplementsSearch == LifoSpec => ImplementsSearch
<1>1. LifoInit => Init
  BY DEF LifoInit
<1>2. LifoInv /\ [LifoNext]_vars => [Next]_searchvars
  BY StepImplementsSearch
<1>3. QED
  BY <1>1, <1>2, LifoInvHolds, PTL DEF LifoSpec, ImplementsSearch, Spec

(* So the answer of the code is right: "included" exactly when every word   *)
(* of smaller is a word of bigger.                                          *)
THEOREM LifoIsCorrect == LifoSpec => []Correct
BY LifoImplementsSearch, SearchIsCorrect, PTL DEF ImplementsSearch

(* And pruning the vectors keeps an antichain that covers every pair seen.  *)
THEOREM LifoKeepsAntichain == LifoSpec => []SearchInv
BY LifoImplementsSearch, SearchInvHolds, PTL DEF ImplementsSearch

(* What can be popped is what waits, each pair once, and can be traced back.*)
THEOREM LifoTypeCorrect == LifoSpec => []LifoTypeOK
<1>1. LifoInv => LifoTypeOK
  <2> SUFFICES ASSUME LifoInv PROVE LifoTypeOK
    OBVIOUS
  <2>1. TypeOK /\ ToSet(worklist) = waiting
    BY DEF LifoInv, IInv, WorklistInv
  <2>2. wants_cex => processed \subseteq DOMAIN paths
    BY DEF LifoInv, PathsInv
  <2>3. Len(worklist) = Cardinality(waiting)
    <3>1. Len(worklist) \in Nat /\ worklist \in [1 .. Len(worklist) -> waiting]
          /\ \A p \in waiting : \E i \in 1 .. Len(worklist) : worklist[i] = p
      BY DEF LifoInv, WorklistInv, ToSet
    <3>2. \A i, j \in 1 .. Len(worklist) : worklist[i] = worklist[j] => i = j
      BY DEF LifoInv, WorklistInv, Distinct
    <3>3. ExistsBijection(1 .. Len(worklist), waiting)
      BY <3>1, <3>2
         DEF ExistsBijection, Bijection, Injection, Surjection, IsInjective
    <3>4. QED
      BY <3>1, <3>3, FS_CountingElements
  <2>4. QED
    BY <2>1, <2>2, <2>3 DEF LifoTypeOK
<1>2. QED
  BY <1>1, LifoInvHolds, PTL

------------------------------------------------------------------------------
(* The counterexample.                                                      *)

LEMMA ReverseProperties ==
  ASSUME NEW D, NEW s \in Seq(D)
  PROVE  /\ Reverse(s) \in Seq(D) /\ Len(Reverse(s)) = Len(s)
         /\ \A i \in 1 .. Len(s) : Reverse(s)[i] = s[(Len(s) - i) + 1]
<1>1. \A i \in 1 .. Len(s) : s[(Len(s) - i) + 1] \in D
  <2>1. \A i \in 1 .. Len(s) : (Len(s) - i) + 1 \in 1 .. Len(s)
    OBVIOUS
  <2>2. QED
    BY <2>1, ElementOfSeq
<1>2. Reverse(s) \in [1 .. Len(s) -> D]
  BY <1>1 DEF Reverse
<1>3. Len(s) \in Nat
  OBVIOUS
<1>4. Reverse(s) \in Seq(D) /\ Len(Reverse(s)) = Len(s)
  BY <1>2, <1>3, SeqDef
<1>5. QED
  BY <1>4 DEF Reverse

(* What is appended comes first in the reverse.                             *)
LEMMA ReverseAppend ==
  ASSUME NEW D, NEW s \in Seq(D), NEW e \in D
  PROVE  IsPrefixedBy(e, Reverse(s), Reverse(Append(s, e)))
<1>1. /\ Append(s, e) \in Seq(D) /\ Len(Append(s, e)) = Len(s) + 1 /\ Len(s) \in Nat
      /\ \A i \in 1 .. Len(s) : Append(s, e)[i] = s[i]
      /\ Append(s, e)[Len(s) + 1] = e
  BY AppendProperties
<1>2. /\ Len(Reverse(s)) = Len(s) /\ Len(Reverse(Append(s, e))) = Len(s) + 1
      /\ \A i \in 1 .. Len(s) : Reverse(s)[i] = s[(Len(s) - i) + 1]
      /\ \A i \in 1 .. Len(s) + 1 :
           Reverse(Append(s, e))[i] = Append(s, e)[((Len(s) + 1) - i) + 1]
  <2> DEFINE r == Append(s, e)
  <2>1. r \in Seq(D) /\ Len(r) = Len(s) + 1
    BY <1>1
  <2> HIDE DEF r
  <2>2. Len(Reverse(r)) = Len(r)
        /\ \A i \in 1 .. Len(r) : Reverse(r)[i] = r[(Len(r) - i) + 1]
    BY <2>1, ReverseProperties
  <2>3. Len(Reverse(s)) = Len(s)
        /\ \A i \in 1 .. Len(s) : Reverse(s)[i] = s[(Len(s) - i) + 1]
    BY ReverseProperties
  <2>4. QED
    BY <2>1, <2>2, <2>3 DEF r
<1>3. Reverse(Append(s, e))[1] = e
  BY <1>1, <1>2
<1>4. ASSUME NEW n \in 1 .. Len(s)
      PROVE  Reverse(Append(s, e))[n + 1] = Reverse(s)[n]
  <2>1. /\ n + 1 \in 1 .. Len(s) + 1 /\ (Len(s) - n) + 1 \in 1 .. Len(s)
        /\ ((Len(s) + 1) - (n + 1)) + 1 = (Len(s) - n) + 1
    BY <1>1
  <2>2. QED
    BY <1>1, <1>2, <2>1
<1>5. QED
  BY <1>1, <1>2, <1>3, <1>4 DEF IsPrefixedBy

LEMMA AppendKeepsPrefix ==
  ASSUME NEW D, NEW s \in Seq(D), NEW r \in Seq(D), NEW e \in D, NEW q,
         IsPrefixedBy(q, s, r)
  PROVE  IsPrefixedBy(q, Append(s, e), Append(r, e))
<1>1. /\ Len(s) \in Nat /\ Len(r) = Len(s) + 1 /\ r[1] = q
      /\ \A n \in 1 .. Len(s) : r[n + 1] = s[n]
  BY DEF IsPrefixedBy
<1>2. /\ Len(Append(s, e)) = Len(s) + 1 /\ Append(s, e)[Len(s) + 1] = e
      /\ \A i \in 1 .. Len(s) : Append(s, e)[i] = s[i]
  BY AppendProperties
<1>3. /\ Len(Append(r, e)) = Len(r) + 1 /\ Append(r, e)[Len(r) + 1] = e
      /\ \A i \in 1 .. Len(r) : Append(r, e)[i] = r[i]
  BY AppendProperties
<1>4. Append(r, e)[1] = q
  BY <1>1, <1>3
<1>5. ASSUME NEW n \in 1 .. Len(s) + 1 PROVE Append(r, e)[n + 1] = Append(s, e)[n]
  <2>1. CASE n = Len(s) + 1
    BY <1>1, <1>2, <1>3, <2>1
  <2>2. CASE n # Len(s) + 1
    <3>1. n \in 1 .. Len(s) /\ n + 1 \in 1 .. Len(r)
      BY <1>1, <2>2
    <3>2. QED
      BY <1>1, <1>2, <1>3, <3>1
  <2>3. QED
    BY <2>1, <2>2
<1>6. QED
  BY <1>1, <1>2, <1>3, <1>4, <1>5 DEF IsPrefixedBy

(* A run with one more transition in front, and with one more at the end.   *)
LEMMA RunPrefixed ==
  ASSUME NEW A, NEW path, NEW word, IsRun(A, path, word),
         NEW q, NEW a, NEW path2, NEW word2,
         IsPrefixedBy(q, path, path2), IsPrefixedBy(a, word, word2),
         <<q, a, path[1]>> \in A.delta
  PROVE  IsRun(A, path2, word2)
<1>1. /\ Len(word) \in Nat /\ Len(path) = Len(word) + 1
      /\ \A n \in 1 .. Len(word) : <<path[n], word[n], path[n + 1]>> \in A.delta
  BY DEF IsRun, IsPrefixedBy
<1>2. /\ Len(word2) = Len(word) + 1 /\ word2[1] = a
      /\ \A n \in 1 .. Len(word) : word2[n + 1] = word[n]
      /\ Len(path2) = Len(path) + 1 /\ path2[1] = q
      /\ \A n \in 1 .. Len(path) : path2[n + 1] = path[n]
  BY DEF IsPrefixedBy
<1>3. ASSUME NEW n \in 1 .. Len(word2)
      PROVE  <<path2[n], word2[n], path2[n + 1]>> \in A.delta
  <2>1. CASE n = 1
    <3>1. 1 \in 1 .. Len(path)
      BY <1>1
    <3>2. path2[1] = q /\ word2[1] = a /\ path2[1 + 1] = path[1]
      BY <1>2, <3>1
    <3>3. QED
      BY <2>1, <3>2
  <2>2. CASE n # 1
    <3> DEFINE j == n - 1
    <3>1. j \in 1 .. Len(word) /\ j \in 1 .. Len(path) /\ j + 1 \in 1 .. Len(path)
          /\ n = j + 1
      BY <1>1, <1>2, <2>2
    <3> HIDE DEF j
    <3>2. path2[j + 1] = path[j] /\ word2[j + 1] = word[j] /\ path2[(j + 1) + 1] = path[j + 1]
      BY <1>2, <3>1
    <3>3. QED
      BY <1>1, <3>1, <3>2
  <2>3. QED
    BY <2>1, <2>2
<1>4. QED
  BY <1>1, <1>2, <1>3 DEF IsRun

LEMMA RunAppended ==
  ASSUME NEW A, NEW D, NEW path \in Seq(D), NEW E, NEW word \in Seq(E), IsRun(A, path, word),
         NEW a \in E, NEW t \in D, <<Last(path), a, t>> \in A.delta
  PROVE  IsRun(A, Append(path, t), Append(word, a))
<1>1. /\ Len(word) \in Nat /\ Len(path) = Len(word) + 1
      /\ \A n \in 1 .. Len(word) : <<path[n], word[n], path[n + 1]>> \in A.delta
  BY DEF IsRun
<1>2. /\ Len(Append(word, a)) = Len(word) + 1 /\ Append(word, a)[Len(word) + 1] = a
      /\ \A i \in 1 .. Len(word) : Append(word, a)[i] = word[i]
  BY AppendProperties
<1>3. /\ Len(Append(path, t)) = Len(path) + 1 /\ Append(path, t)[Len(path) + 1] = t
      /\ \A i \in 1 .. Len(path) : Append(path, t)[i] = path[i]
  BY AppendProperties
<1>4. ASSUME NEW n \in 1 .. Len(word) + 1
      PROVE  <<Append(path, t)[n], Append(word, a)[n], Append(path, t)[n + 1]>> \in A.delta
  <2>1. CASE n = Len(word) + 1
    <3>1. n = Len(path) /\ n \in 1 .. Len(path)
      BY <1>1, <2>1
    <3>2. /\ Append(path, t)[n] = Last(path) /\ Append(word, a)[n] = a
          /\ Append(path, t)[n + 1] = t
      BY <1>1, <1>2, <1>3, <2>1, <3>1 DEF Last
    <3>3. QED
      BY <3>2
  <2>2. CASE n # Len(word) + 1
    <3>1. n \in 1 .. Len(word) /\ n \in 1 .. Len(path) /\ n + 1 \in 1 .. Len(path)
      BY <1>1, <2>2
    <3>2. QED
      BY <1>1, <1>2, <1>3, <3>1
  <2>3. QED
    BY <2>1, <2>2
<1>5. QED
  BY <1>1, <1>2, <1>3, <1>4 DEF IsRun

(* The caller's Run is empty; what a Run held before the call would stay in *)
(* front of the word and the path.                                          *)
FreshRuns == StaleRuns \subseteq {[word |-> << >>, path |-> << >>]}

(* The steps that do not answer leave nothing to show but the phases.       *)
LEMMA NoAnswerYet == ASSUME verdict' # "not included" PROVE CexIsWitness'
BY DEF CexIsWitness

(* The last letter of the counterexample.                                   *)
LEMMA CexStart == ASSUME LifoInv, WitnessInv, RefuseWithCex PROVE WitnessInv'
<1> USE DEF LifoInv
<1>1. TypeOK
  BY DEF IInv
<1>2. PICK m \in todo : m = NextMove
  BY <1>1, NextMoveIsMove DEF RefuseWithCex
<1> DEFINE q == m[1][1]
           S == m[1][2]
           a == m[2]
           t == m[3]
<1>3. /\ phase' = "back" /\ bad' = m /\ at' = m[1] /\ smaller' = smaller
      /\ bigger' = bigger /\ algorithm' = algorithm /\ verdict' = verdict
      /\ verdict = "none" /\ cex.word = << >> /\ cex.path = << >>
      /\ algorithm = "inclusion" => cex' = [word |-> Append(<< >>, a), path |-> Append(<< >>, q)]
      /\ algorithm # "inclusion" => cex' = [cex EXCEPT !.word = <<a>>]
  BY <1>2 DEF RefuseWithCex, searchvars, WitnessInv, PhaseInv
<1>4. /\ q \in smaller.states /\ S \in SUBSET bigger.states
      /\ a \in Symbol /\ t \in smaller.states /\ <<q, a, t>> \in smaller.delta
  BY <1>1, TodoTypes DEF Pair
<1>5. cex'.word = <<a>> /\ (algorithm = "inclusion" => cex'.path = <<q>>)
  <2>1. cex = [word |-> << >>, path |-> << >>]
    BY <1>2 DEF RefuseWithCex, WitnessInv
  <2>2. Append(<< >>, a) = <<a>> /\ Append(<< >>, q) = <<q>>
    OBVIOUS
  <2>3. QED
    BY <1>3, <2>1, <2>2
<1> HIDE DEF q, S, a, t
<1>6. Reverse(<<a>>) = <<a>> /\ Reverse(<<q>>) = <<q>>
  BY DEF Reverse
<1>7. {q} \in SUBSET smaller.states
  BY <1>4
<1>8. t \in Read(From(smaller, {q}), <<a>>)
  BY <1>4, <1>7, ReadOneLetter DEF Post
<1>9. Read(From(bigger, S), <<a>>) = Post(bigger, S, a)
  BY <1>4, ReadOneLetter
<1>10. IsRun(smaller, Append(<<q>>, t), <<a>>)
  BY <1>4 DEF IsRun
<1>11. BackInv'
  <2>1. cex'.word \in Seq(Symbol) /\ cex' = [word |-> cex'.word, path |-> cex'.path]
    <3>1. cex'.word \in Seq(Symbol)
      BY <1>4, <1>5
    <3>2. cex' = [word |-> cex'.word, path |-> cex'.path]
      <4>1. cex = [word |-> << >>, path |-> << >>]
        BY <1>2 DEF RefuseWithCex, WitnessInv
      <4>2. QED
        BY <1>3, <4>1
    <3>3. QED
      BY <3>1, <3>2
  <2>2. bad[3]' = t /\ at[1]' = q /\ at[2]' = S /\ bad[1][2]' = S /\ bad[2]' = a
    BY <1>3 DEF q, S, a, t
  <2>3. (bad[3] \in Read(From(smaller, {at[1]}), Reverse(cex.word)))'
    BY <1>3, <1>5, <1>6, <1>8, <2>2
  <2>4. (Read(From(bigger, at[2]), Reverse(cex.word)) = Post(bigger, bad[1][2], bad[2]))'
    BY <1>3, <1>5, <1>6, <1>9, <2>2
  <2>5. ASSUME algorithm = "inclusion"
        PROVE  /\ cex'.path \in Seq(smaller.states) /\ cex'.path # << >>
               /\ Last(cex'.path) = q
               /\ IsRun(smaller, Append(Reverse(cex'.path), t), Reverse(cex'.word))
    <3>1. cex'.path = <<q>> /\ cex'.word = <<a>>
      BY <1>5, <2>5
    <3>2. <<q>> \in Seq(smaller.states)
      <4> DEFINE Q == smaller.states
      <4>1. q \in Q
        BY <1>4
      <4> HIDE DEF Q
      <4>2. <<q>> \in Seq(Q)
        BY <4>1
      <4>3. QED
        BY <4>2 DEF Q
    <3>3. Len(<<q>>) = 1 /\ <<q>>[1] = q
      OBVIOUS
    <3>4. Last(<<q>>) = q
      BY <3>3 DEF Last
    <3>5. <<q>> # << >>
      BY <3>3, EmptySeq
    <3>6. QED
      BY <1>6, <1>10, <3>1, <3>2, <3>4, <3>5
  <2>6. QED
    BY <1>3, <2>1, <2>2, <2>3, <2>4, <2>5 DEF BackInv
<1>12. QED
  BY <1>3, <1>11, NoAnswerYet DEF WitnessInv

(* A letter and a state more, in front of what leads to the refused pair.   *)
LEMMA CexBack == ASSUME LifoInv, WitnessInv, WalkBack PROVE WitnessInv'
<1> USE DEF LifoInv
<1>1. TypeOK /\ BackInv /\ wants_cex /\ at \in DOMAIN paths /\ verdict = "none"
      /\ bad \in todo /\ algorithm \in {"inclusion", "universality"}
  BY DEF IInv, WalkBack, PhaseInv, WitnessInv
<1>2. PICK r \in DOMAIN paths, a \in Symbol :
        /\ paths[at] = <<r, a>>
        /\ <<r[1], a, at[1]>> \in smaller.delta /\ at[2] = Post(bigger, r[2], a)
  <2>1. ~IsStartEntry(at)
    BY DEF WalkBack, IsStartEntry
  <2>2. QED
    BY <1>1, <2>1 DEF PathsInv, IsStepEntry
<1> DEFINE w == cex.word
           p == cex.path
           w2 == Append(w, a)
           p2 == Append(p, r[1])
           b == bad[3]
<1>3. /\ phase' = "back" /\ bad' = bad /\ at' = r /\ smaller' = smaller
      /\ bigger' = bigger /\ algorithm' = algorithm /\ verdict' = verdict
      /\ cex' = [word |-> w2, path |-> IF algorithm = "inclusion" THEN p2 ELSE p]
  BY <1>2 DEF WalkBack, searchvars
<1>4. /\ r[1] \in smaller.states /\ r[2] \in SUBSET bigger.states
      /\ at[1] \in smaller.states /\ b \in smaller.states
  <2>1. r \in Pair /\ at \in Pair
    BY <1>1 DEF PathsInv
  <2>2. QED
    BY <1>1, <2>1, TodoTypes DEF Pair
<1>5. w \in Seq(Symbol) /\ w2 \in Seq(Symbol)
  BY <1>1 DEF BackInv
<1>6. IsPrefixedBy(a, Reverse(w), Reverse(w2))
  BY <1>5, ReverseAppend
<1>7. Reverse(w) \in Seq(Symbol) /\ Len(Reverse(w)) \in Nat
  BY <1>5, ReverseProperties
<1> HIDE DEF w, p, w2, p2, b
<1>8. b \in Read(From(smaller, {r[1]}), Reverse(w2))
  <2> DEFINE R == Post(smaller, {r[1]}, a)
  <2>1. {r[1]} \in SUBSET smaller.states /\ {at[1]} \in SUBSET smaller.states
    BY <1>4
  <2>2. R \in SUBSET smaller.states /\ {at[1]} \subseteq R
    BY <1>2, <1>4 DEF Post
  <2>3. Read(From(smaller, {r[1]}), Reverse(w2)) = Read(From(smaller, R), Reverse(w))
    BY <1>6, <2>1, ReadPrefixed
  <2> HIDE DEF R
  <2>4. Read(From(smaller, {at[1]}), Reverse(w)) \subseteq Read(From(smaller, R), Reverse(w))
    BY <1>7, <2>1, <2>2, ReadMonotone
  <2>5. b \in Read(From(smaller, {at[1]}), Reverse(w))
    BY <1>1 DEF BackInv, b, w
  <2>6. QED
    BY <2>3, <2>4, <2>5
<1>9. Read(From(bigger, r[2]), Reverse(w2)) = Post(bigger, bad[1][2], bad[2])
  <2>1. Read(From(bigger, r[2]), Reverse(w2)) = Read(From(bigger, at[2]), Reverse(w))
    BY <1>2, <1>4, <1>6, ReadPrefixed
  <2>2. QED
    BY <1>1, <2>1 DEF BackInv, w
<1>10. ASSUME algorithm = "inclusion"
       PROVE  /\ p2 \in Seq(smaller.states) /\ p2 # << >> /\ Last(p2) = r[1]
              /\ IsRun(smaller, Append(Reverse(p2), b), Reverse(w2))
  <2> DEFINE Q == smaller.states
  <2>1. /\ p \in Seq(Q) /\ p # << >> /\ Last(p) = at[1]
        /\ IsRun(smaller, Append(Reverse(p), b), Reverse(w))
    BY <1>1, <1>10 DEF BackInv, p, b, w
  <2>2. r[1] \in Q /\ b \in Q
    BY <1>4
  <2> HIDE DEF Q
  <2>3. /\ p2 \in Seq(Q) /\ Len(p2) = Len(p) + 1 /\ p2[Len(p) + 1] = r[1]
        /\ Len(p) \in Nat /\ Len(p) > 0
    BY <2>1, <2>2, AppendProperties, EmptySeq DEF p2
  <2>4. p2 # << >> /\ Last(p2) = r[1]
    BY <2>3, EmptySeq DEF Last
  <2>5. Reverse(p) \in Seq(Q) /\ Reverse(p2) \in Seq(Q)
        /\ Len(Reverse(p)) = Len(p) /\ Reverse(p)[1] = p[Len(p)]
    <3>1. 1 \in 1 .. Len(p) /\ (Len(p) - 1) + 1 = Len(p)
      BY <2>3
    <3>2. Reverse(p) \in Seq(Q) /\ Len(Reverse(p)) = Len(p)
          /\ \A i \in 1 .. Len(p) : Reverse(p)[i] = p[(Len(p) - i) + 1]
      BY <2>1, ReverseProperties
    <3>3. Reverse(p2) \in Seq(Q)
      BY <2>3, ReverseProperties
    <3>4. QED
      BY <3>1, <3>2, <3>3
  <2>6. IsPrefixedBy(r[1], Reverse(p), Reverse(p2))
    BY <2>1, <2>2, ReverseAppend DEF p2
  <2>7. IsPrefixedBy(r[1], Append(Reverse(p), b), Append(Reverse(p2), b))
    BY <2>2, <2>5, <2>6, AppendKeepsPrefix
  <2>8. Append(Reverse(p), b)[1] = at[1]
    <3> DEFINE s == Reverse(p)
    <3>1. s \in Seq(Q) /\ 1 \in 1 .. Len(s) /\ s[1] = at[1]
      BY <2>1, <2>3, <2>5 DEF Last
    <3> HIDE DEF s
    <3>2. Append(s, b)[1] = s[1]
      BY <2>2, <3>1, AppendProperties
    <3>3. QED
      BY <3>1, <3>2 DEF s
  <2>9. IsRun(smaller, Append(Reverse(p2), b), Reverse(w2))
    BY <1>2, <1>6, <2>1, <2>7, <2>8, RunPrefixed
  <2>10. QED
    BY <2>3, <2>4, <2>9 DEF Q
<1>11. BackInv'
  <2>1. cex'.word = w2 /\ cex' = [word |-> cex'.word, path |-> cex'.path]
        /\ (algorithm = "inclusion" => cex'.path = p2)
    BY <1>3
  <2>2. bad[3]' = b /\ at[1]' = r[1] /\ at[2]' = r[2] /\ bad[1][2]' = bad[1][2]
        /\ bad[2]' = bad[2]
    BY <1>3 DEF b
  <2>3. (bad[3] \in Read(From(smaller, {at[1]}), Reverse(cex.word)))'
    BY <1>3, <1>8, <2>1, <2>2
  <2>4. (Read(From(bigger, at[2]), Reverse(cex.word)) = Post(bigger, bad[1][2], bad[2]))'
    BY <1>3, <1>9, <2>1, <2>2
  <2>5. algorithm = "inclusion" =>
          /\ cex'.path \in Seq(smaller.states) /\ cex'.path # << >>
          /\ Last(cex'.path) = r[1]
          /\ IsRun(smaller, Append(Reverse(cex'.path), b), Reverse(cex'.word))
    BY <1>10, <2>1
  <2>6. cex'.word \in Seq(Symbol)
    BY <1>5, <2>1
  <2>7. QED
    BY <1>3, <2>1, <2>2, <2>3, <2>4, <2>5, <2>6 DEF BackInv
<1>12. QED
  BY <1>1, <1>3, <1>11, NoAnswerYet DEF WitnessInv

(* The first half is turned round; universality has its counterexample then,*)
(* inclusion goes on from the refused state.                                *)
LEMMA CexTurned == ASSUME LifoInv, WitnessInv, TurnRound PROVE WitnessInv'
<1> USE DEF LifoInv
<1>1. TypeOK /\ BackInv /\ wants_cex /\ at \in DOMAIN paths /\ verdict = "none"
      /\ bad \in todo /\ Refused(Successor(bad))
      /\ algorithm \in {"inclusion", "universality"}
  BY DEF IInv, TurnRound, PhaseInv, WitnessInv
<1>2. PICK m \in todo : m = bad
  BY <1>1
<1> DEFINE w == Reverse(cex.word)
           b == m[3]
           S == Post(bigger, m[1][2], m[2])
<1>3. at[1] \in smaller.initial /\ at[2] = bigger.initial
  <2>1. ~IsStepEntry(at)
    <3>1. paths[at][1] = at
      BY DEF TurnRound
    <3>2. SUFFICES ASSUME IsStepEntry(at) PROVE FALSE
      OBVIOUS
    <3>3. PICK r \in DOMAIN paths, c \in Symbol : r # at /\ paths[at] = <<r, c>>
      BY <3>2 DEF IsStepEntry
    <3>4. QED
      BY <3>1, <3>3
  <2>2. at \in InitialPairs
    BY <1>1, <2>1 DEF PathsInv, IsStartEntry
  <2>3. QED
    BY <2>2 DEF InitialPairs
<1>4. b \in smaller.states /\ Successor(m) = <<b, S>> /\ <<b, S>> \in Pair
  BY <1>1, TodoTypes DEF Successor
<1>5. w \in Seq(Symbol) /\ Len(w) \in Nat
  <2>1. cex.word \in Seq(Symbol)
    BY <1>1 DEF BackInv
  <2>2. QED
    BY <2>1, ReverseProperties
<1>6. smaller.initial \in SUBSET smaller.states /\ bigger.initial \in SUBSET bigger.states
  BY <1>1, Arguments DEF IsAutomaton
<1>7. b \in Read(From(smaller, {at[1]}), w) /\ Read(From(bigger, at[2]), w) = S
  BY <1>1, <1>2 DEF BackInv
<1> HIDE DEF w, b, S
<1>8. b \in Read(smaller, w)
  <2>1. {at[1]} \in SUBSET smaller.states /\ {at[1]} \subseteq smaller.initial
    BY <1>3, <1>6
  <2>2. Read(From(smaller, {at[1]}), w) \subseteq Read(From(smaller, smaller.initial), w)
    BY <1>5, <1>6, <2>1, ReadMonotone
  <2>3. QED
    BY <1>5, <1>6, <1>7, <2>2, ReadFromInitial
<1>9. Read(bigger, w) = S
  BY <1>3, <1>5, <1>6, <1>7, ReadFromInitial
<1>10. Refused(<<b, S>>)
  BY <1>1, <1>2, <1>4
<1>11. /\ smaller' = smaller /\ bigger' = bigger /\ algorithm' = algorithm
       /\ wants_cex' = wants_cex
  <2>1. LifoNext
    BY DEF LifoNext
  <2>2. QED
    BY <2>1, SameArguments
<1>12. CASE algorithm = "inclusion"
  <2> DEFINE p == Append(Reverse(cex.path), b)
  <2>1. /\ phase' = "forward" /\ at' = <<b, {}>> /\ verdict' = verdict
        /\ cex' = [word |-> w, path |-> p]
    BY <1>2, <1>12 DEF TurnRound, searchvars, w, b
  <2>2. /\ cex.path \in Seq(smaller.states) /\ cex.path # << >>
        /\ Last(cex.path) = at[1] /\ IsRun(smaller, p, w)
    BY <1>1, <1>2, <1>12 DEF BackInv, b, w
  <2>3. p \in Seq(smaller.states) /\ p # << >> /\ Last(p) = b /\ Head(p) = at[1]
    <3> DEFINE Q == smaller.states
               c == cex.path
               s == Reverse(c)
    <3>1. c \in Seq(Q) /\ c # << >> /\ b \in Q
      BY <1>4, <2>2
    <3>2. Last(c) = at[1]
      BY <2>2
    <3> HIDE DEF Q, c
    <3>3. Len(c) \in Nat /\ Len(c) > 0
      BY <3>1, EmptySeq
    <3>4. s \in Seq(Q) /\ Len(s) = Len(c) /\ s[1] = c[Len(c)]
      <4>1. 1 \in 1 .. Len(c) /\ (Len(c) - 1) + 1 = Len(c)
        BY <3>3
      <4>2. Reverse(c) \in Seq(Q) /\ Len(Reverse(c)) = Len(c)
            /\ \A i \in 1 .. Len(c) : Reverse(c)[i] = c[(Len(c) - i) + 1]
        BY <3>1, ReverseProperties
      <4>3. QED
        BY <4>1, <4>2
    <3>5. p = Append(s, b)
      BY DEF c
    <3> HIDE DEF s, p
    <3>6. /\ p \in Seq(Q) /\ Len(p) = Len(s) + 1 /\ p[Len(s) + 1] = b
          /\ \A i \in 1 .. Len(s) : p[i] = s[i]
      BY <3>1, <3>4, <3>5, AppendProperties
    <3>7. p[1] = at[1]
      <4>1. 1 \in 1 .. Len(s) /\ s[1] = at[1]
        BY <3>2, <3>3, <3>4 DEF Last
      <4>2. QED
        BY <3>6, <4>1
    <3>8. Last(p) = b /\ Head(p) = p[1] /\ p # << >>
      BY <3>3, <3>4, <3>6, EmptySeq DEF Last
    <3>9. QED
      BY <3>6, <3>7, <3>8 DEF Q
  <2> HIDE DEF p
  <2>4. cex'.word = w /\ cex'.path = p
    BY <2>1
  <2>5. Refused(<<at[1], Read(bigger, cex.word)>>)'
    <3>1. PICK q : q = <<b, S>>
      OBVIOUS
    <3>2. Refused(q)'
      BY <1>10, <1>11, <3>1, SameRefusals
    <3>3. at'[1] = b /\ Read(bigger', cex'.word) = S
      BY <1>9, <1>11, <2>1, <2>4
    <3>4. QED
      BY <3>1, <3>2, <3>3
  <2>6. ForwardInv'
    BY <1>3, <1>5, <1>8, <1>11, <2>1, <2>2, <2>3, <2>4, <2>5 DEF ForwardInv
  <2>7. QED
    BY <1>1, <2>1, <2>6, NoAnswerYet DEF WitnessInv
<1>13. CASE algorithm # "inclusion"
  <2>1. phase' = "done" /\ cex' = [cex EXCEPT !.word = w]
    BY <1>13 DEF TurnRound, w
  <2>2. cex'.word = w
    BY <1>1, <2>1 DEF BackInv
  <2>3. Rejecting(<<b, S>>)
    BY <1>10, <1>13 DEF Refused
  <2>4. b \in smaller.final /\ S \cap bigger.final = {}
    BY <2>3 DEF Rejecting
  <2>5. Accepts(smaller, w) /\ ~Accepts(bigger, w)
    BY <1>8, <1>9, <2>4 DEF Accepts
  <2>6. CexIsWitness'
    BY <1>11, <1>13, <2>2, <2>5 DEF CexIsWitness
  <2>7. QED
    BY <2>1, <2>6 DEF WitnessInv
<1>14. QED
  BY <1>12, <1>13

(* The run forward gets closer to a final state; where it is, bigger is in  *)
(* states from which no accepted word is as short.                          *)
LEMMA CexForward == ASSUME LifoInv, WitnessInv, GoForward PROVE WitnessInv'
<1> USE DEF LifoInv
<1>1. TypeOK /\ ForwardInv /\ verdict = "none" /\ at[1] \in smaller.states
      /\ at[1] \notin smaller.final
  BY DEF IInv, GoForward, PhaseInv, WitnessInv
<1>2. PICK m \in Closer :
        /\ cex' = [word |-> Append(cex.word, m[2]), path |-> Append(cex.path, m[3])]
        /\ at' = <<m[3], {}>>
  BY DEF GoForward
<1>3. /\ phase' = "forward" /\ verdict' = verdict /\ smaller' = smaller
      /\ bigger' = bigger /\ algorithm' = algorithm
  BY DEF GoForward, searchvars
<1> DEFINE w == cex.word
           p == cex.path
           w2 == Append(w, m[2])
           p2 == Append(p, m[3])
           S == Read(bigger, w)
           S2 == Read(bigger, w2)
           Q == smaller.states
<1>4. /\ m \in smaller.delta /\ m[1] = at[1]
      /\ distances_smaller[m[3]] < distances_smaller[at[1]]
      /\ m[2] \in Symbol /\ m[3] \in Q /\ m = <<m[1], m[2], m[3]>>
  BY <1>1, Arguments DEF Closer, IsAutomaton
<1>5. smaller.initial \in SUBSET Q /\ bigger.initial \in SUBSET bigger.states
  BY <1>1, Arguments DEF IsAutomaton
<1>6. /\ w \in Seq(Symbol) /\ p \in Seq(Q) /\ p # << >> /\ IsRun(smaller, p, w)
      /\ Head(p) \in smaller.initial /\ Last(p) = at[1]
      /\ at[1] \in Read(smaller, w) /\ Refused(<<at[1], S>>)
  BY <1>1 DEF ForwardInv
<1>7. S \in SUBSET bigger.states /\ Len(w) \in Nat
  <2>1. Len(w) \in Nat
    BY <1>6
  <2>2. QED
    BY <1>5, <2>1, ReadIsSetOfStates
<1>8. cex'.word = w2 /\ cex'.path = p2 /\ at'[1] = m[3]
  BY <1>2
<1> HIDE DEF w, p, w2, p2, S, S2, Q
<1>9. w2 \in Seq(Symbol)
  BY <1>4, <1>6, AppendProperties DEF w2
<1>10. /\ p2 \in Seq(Q) /\ p2 # << >> /\ Last(p2) = m[3] /\ Head(p2) \in smaller.initial
  <2>1. Len(p) \in Nat /\ Len(p) > 0
    BY <1>6, EmptySeq
  <2>2. /\ p2 \in Seq(Q) /\ Len(p2) = Len(p) + 1 /\ p2[Len(p) + 1] = m[3]
        /\ \A i \in 1 .. Len(p) : p2[i] = p[i]
    BY <1>4, <1>6, AppendProperties DEF p2
  <2>3. p2 # << >> /\ Last(p2) = m[3]
    BY <2>1, <2>2, EmptySeq DEF Last
  <2>4. Head(p2) = p2[1] /\ Head(p) = p[1] /\ p2[1] = p[1]
    <3>1. 1 \in 1 .. Len(p)
      BY <2>1
    <3>2. QED
      BY <1>6, <2>2, <2>3, <3>1
  <2>5. QED
    BY <1>6, <2>2, <2>3, <2>4
<1>11. IsRun(smaller, p2, w2)
  <2>1. <<Last(p), m[2], m[3]>> \in smaller.delta
    BY <1>4, <1>6
  <2>2. QED
    BY <1>4, <1>6, <2>1, RunAppended DEF p2, w2
<1>12. m[3] \in Read(smaller, w2)
  <2>1. Read(smaller, w2) = Post(smaller, Read(smaller, w), m[2])
    <3>1. smaller.initial \in SUBSET smaller.states
      BY <1>5 DEF Q
    <3>2. w \in Seq(Symbol) /\ m[2] \in Symbol
      BY <1>4, <1>6
    <3>3. QED
      BY <3>1, <3>2, ReadAppend, Zenon DEF w2
  <2>2. QED
    BY <1>4, <1>6, <2>1 DEF Post, Q
<1>13. S2 = Post(bigger, S, m[2])
  <2>1. bigger.initial \in SUBSET bigger.states /\ w \in Seq(Symbol) /\ m[2] \in Symbol
    BY <1>4, <1>5, <1>6
  <2>2. QED
    BY <2>1, ReadAppend, Zenon DEF w2, S, S2
<1>14. Refused(<<m[3], S2>>)
  <2> DEFINE q == <<at[1], S>>
  <2>1. q \in Pair /\ q[1] = at[1] /\ q[2] = S
    BY <1>1, <1>7 DEF Pair
  <2>2. Refused(q) /\ q[1] \notin smaller.final
    BY <1>1, <1>6
  <2> HIDE DEF q
  <2>3. Refused(<<m[3], Post(bigger, q[2], m[2])>>)
    BY <1>1, <1>4, <2>1, <2>2, RefusedGoesOn
  <2>4. QED
    BY <1>13, <2>1, <2>3
<1>15. Refused(<<at[1], Read(bigger, cex.word)>>)'
  <2>1. PICK q : q = <<m[3], S2>>
    OBVIOUS
  <2>2. Refused(q)'
    BY <1>3, <1>14, <2>1, SameRefusals
  <2>3. Read(bigger', cex'.word) = S2
    BY <1>3, <1>8 DEF S2
  <2>4. QED
    BY <1>8, <2>1, <2>2, <2>3
<1>16. ForwardInv'
  BY <1>3, <1>8, <1>9, <1>10, <1>11, <1>12, <1>15 DEF ForwardInv, Q
<1>17. QED
  BY <1>1, <1>3, <1>16, NoAnswerYet DEF WitnessInv

(* The run has reached a final state of smaller; nothing bigger can be in   *)
(* after the same word is final.                                            *)
LEMMA CexReturned == ASSUME LifoInv, WitnessInv, ReturnCex PROVE WitnessInv'
<1> USE DEF LifoInv
<1>1. TypeOK /\ ForwardInv /\ at[1] \in smaller.states /\ at[1] \in smaller.final
  BY DEF IInv, ReturnCex, PhaseInv, WitnessInv
<1> DEFINE w == cex.word
           S == Read(bigger, w)
           p == <<at[1], S>>
<1>2. w \in Seq(Symbol) /\ Len(w) \in Nat
  BY <1>1 DEF ForwardInv
<1>3. p \in Pair /\ Refused(p) /\ p[1] = at[1] /\ p[2] = S
  <2>1. bigger.initial \in SUBSET bigger.states
    BY <1>1, Arguments DEF IsAutomaton
  <2>2. S \in SUBSET bigger.states
    BY <1>2, <2>1, ReadIsSetOfStates
  <2>3. QED
    BY <1>1, <2>2 DEF ForwardInv, Pair
<1> HIDE DEF p
<1>4. S \cap bigger.final = {}
  BY <1>1, <1>3, RefusedFinal DEF Rejecting
<1>5. Accepts(smaller, w) /\ ~Accepts(bigger, w)
  BY <1>1, <1>4 DEF Accepts, ForwardInv
<1>6. /\ phase' = "done" /\ cex' = cex /\ smaller' = smaller /\ bigger' = bigger
      /\ algorithm' = algorithm
  BY DEF ReturnCex, Answer
<1>7. CexIsWitness'
  BY <1>1, <1>5, <1>6 DEF CexIsWitness, ForwardInv
<1>8. QED
  BY <1>6, <1>7 DEF WitnessInv

(* The empty word, when an initial state is refused.                        *)
LEMMA CexOfStart ==
  ASSUME LifoInv, WitnessInv, NEW q \in starts, RefuseStart(q)
  PROVE  WitnessInv'
<1> USE DEF LifoInv
<1>1. TypeOK /\ q \in smaller.initial /\ q \in smaller.final
      /\ bigger.initial \cap bigger.final = {}
  BY DEF IInv, TypeOK, RefuseStart, Rejecting
<1>2. /\ phase' = "done" /\ smaller' = smaller /\ bigger' = bigger
      /\ algorithm' = algorithm /\ wants_cex' = wants_cex
      /\ wants_cex => cex' = [word |-> << >>,
                             path |-> IF algorithm = "inclusion" THEN <<q>> ELSE cex.path]
  BY DEF RefuseStart, Answer
<1>3. smaller.initial \in SUBSET smaller.states /\ bigger.initial \in SUBSET bigger.states
  BY <1>1, Arguments DEF IsAutomaton
<1>4. Accepts(smaller, << >>) /\ ~Accepts(bigger, << >>)
  BY <1>1, <1>3, ReadEmpty DEF Accepts
<1>5. IsRun(smaller, <<q>>, << >>) /\ Head(<<q>>) = q /\ Last(<<q>>) = q
  <2>1. Len(<<q>>) = 1 /\ <<q>>[1] = q /\ Len(<< >>) = 0
    OBVIOUS
  <2>2. IsRun(smaller, <<q>>, << >>)
    BY <2>1 DEF IsRun
  <2>3. Head(<<q>>) = q
    OBVIOUS
  <2>4. QED
    BY <2>1, <2>2, <2>3 DEF Last
<1>6. CexIsWitness'
  <2>1. CASE wants_cex
    <3>1. cex'.word = << >> /\ (algorithm = "inclusion" => cex'.path = <<q>>)
      BY <1>2, <2>1
    <3>2. QED
      BY <1>1, <1>2, <1>4, <1>5, <3>1 DEF CexIsWitness
  <2>2. CASE ~wants_cex
    BY <1>2, <2>2 DEF CexIsWitness
  <2>3. QED
    BY <2>1, <2>2
<1>7. QED
  BY <1>2, <1>6 DEF WitnessInv

LEMMA NextWitnessInv == ASSUME LifoInv, WitnessInv, [LifoNext]_vars PROVE WitnessInv'
<1> USE DEF LifoInv
<1>1. ASSUME phase = "search", phase' = "search", cex' = cex, verdict' = verdict
      PROVE  WitnessInv'
  BY <1>1, NoAnswerYet DEF WitnessInv, PhaseInv
<1>2. ASSUME NEW q \in starts, PushStart(q) PROVE WitnessInv'
  BY <1>1, <1>2 DEF PushStart, EnterStart
<1>3. ASSUME NEW q \in starts, RefuseStart(q) PROVE WitnessInv'
  BY <1>3, CexOfStart
<1>4. CASE Pop
  BY <1>1, <1>4 DEF Pop, TakePair
<1>5. CASE Subsumed
  BY <1>1, <1>5 DEF Subsumed, SkipMove, run
<1>6. CASE Push
  BY <1>1, <1>6 DEF Push, Prune, AddPair
<1>7. CASE RefuseAtOnce
  BY <1>7 DEF RefuseAtOnce, WitnessInv, CexIsWitness
<1>8. CASE RefuseWithCex
  BY <1>8, CexStart
<1>9. CASE WalkBack
  BY <1>9, CexBack
<1>10. CASE TurnRound
  BY <1>10, CexTurned
<1>11. CASE GoForward
  BY <1>11, CexForward
<1>12. CASE ReturnCex
  BY <1>12, CexReturned
<1>13. CASE ReturnTrue
  <2>1. phase' = "done" /\ verdict' # "not included"
    BY <1>13 DEF ReturnTrue, Answer
  <2>2. QED
    BY <2>1, NoAnswerYet DEF WitnessInv
<1>14. CASE UNCHANGED vars
  <2>1. UNCHANGED <<smaller, bigger, verdict, algorithm, wants_cex, cex, phase, bad, at>>
    BY <1>14 DEF vars
  <2>2. CexIsWitness'
    BY <2>1 DEF WitnessInv, CexIsWitness
  <2>3. phase = "back" => BackInv'
    BY <2>1 DEF WitnessInv, BackInv
  <2>4. phase = "forward" => ForwardInv'
    <3>1. PICK p : p = <<at[1], Read(bigger, cex.word)>>
      OBVIOUS
    <3>2. Refused(p)' <=> Refused(p)
      BY <2>1, SameRefusals
    <3>3. Refused(<<at[1], Read(bigger, cex.word)>>) =>
            Refused(<<at[1], Read(bigger, cex.word)>>)'
      BY <2>1, <3>1, <3>2
    <3>4. QED
      BY <2>1, <3>3 DEF WitnessInv, ForwardInv
  <2>5. QED
    BY <2>1, <2>2, <2>3, <2>4 DEF WitnessInv
<1>15. QED
  BY <1>2, <1>3, <1>4, <1>5, <1>6, <1>7, <1>8, <1>9, <1>10, <1>11, <1>12, <1>13, <1>14
     DEF LifoNext

(* When the caller's Run is empty, the counterexample returned is one: a    *)
(* word of smaller with an accepting run, that bigger does not accept,      *)
(* however the worklist and the antichain were pruned on the way to it.     *)
THEOREM CounterexampleIsRight ==
  ASSUME FreshRuns
  PROVE  LifoSpec => []WitnessIsRight
<1>1. LifoInit => WitnessInv
  <2> SUFFICES ASSUME LifoInit PROVE WitnessInv
    OBVIOUS
  <2>1. phase = "search" /\ verdict = "none" /\ cex \in StaleRuns
    BY DEF LifoInit, Init
  <2>2. QED
    BY <2>1 DEF FreshRuns, WitnessInv, CexIsWitness
<1>2. LifoInv /\ WitnessInv /\ [LifoNext]_vars => WitnessInv'
  BY NextWitnessInv
<1>3. WitnessInv /\ LifoTypeOK => WitnessIsRight
  BY DEF WitnessInv, WitnessIsRight
<1>4. QED
  BY <1>1, <1>2, <1>3, LifoInvHolds, LifoTypeCorrect, PTL DEF LifoSpec

==============================================================================
