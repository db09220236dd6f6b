---------------------------- MODULE Residual_proofs ----------------------------
(***************************************************************************)
(* Proofs about Residual, for automata of any size.                        *)
(***************************************************************************)
EXTENDS Residual, Automata_proofs, FiniteSetTheorems, SequenceTheorems, TLAPS

(***************************************************************************)
(* Macrostates, written for any automaton, is the least set that holds the *)
(* set of initial states and the posts of its members.                     *)
(***************************************************************************)
MacrostatesIn(A) ==
  LET within[n \in 0 .. 2 ^ Cardinality(A.states)] ==
        IF n = 0 THEN {A.initial}
        ELSE LET before == within[n - 1] IN before \cup PostsIn(A, before)
  IN within[2 ^ Cardinality(A.states)]

LEMMA SymbolsFromIsOut == \A S : SymbolsFrom(S) = SymbolsOut(nfa, S)
BY DEF SymbolsFrom, SymbolsOut

LEMMA PostsOfIsIn == \A family : PostsOf(family) = PostsIn(nfa, family)
BY DEF PostsOf, PostsIn, SymbolsFrom, SymbolsOut

LEMMA MacrostatesIsIn == Macrostates = MacrostatesIn(nfa)
BY DEF Macrostates, MacrostatesIn, PostsOf, PostsIn, SymbolsFrom, SymbolsOut

LEMMA NfaIsInput ==
  ASSUME job \in Jobs
  PROVE  IsInput(nfa) /\ job.type \in {"with", "after"}
BY JobsAssumption DEF IsInput, nfa

LEMMA MacrostatesAreStages ==
  ASSUME NEW A, IsInput(A)
  PROVE  /\ IsFiniteSet(MacroGraph(A).states)
         /\ \E N, f : /\ N \in Nat /\ N = Cardinality(MacroGraph(A).states)
                     /\ IsStages(MacroGraph(A), {A.initial}, N, f)
                     /\ MacrostatesIn(A) = f[N]
<1> DEFINE G == MacroGraph(A)
           S == {A.initial}
<1>0. /\ MovesInside(G) /\ IsFiniteSet(G.states) /\ S \in SUBSET G.states
      /\ G.states = SUBSET A.states
  BY GraphIsGraph, GraphStates
<1>1. PICK N \in Nat : N = 2 ^ Cardinality(A.states) /\ N = Cardinality(G.states)
  <2>1. Cardinality(SUBSET A.states) = 2 ^ Cardinality(A.states)
    BY FS_SUBSET DEF IsInput
  <2>2. Cardinality(G.states) \in Nat
    BY <1>0, FS_CardinalityType
  <2> HIDE DEF G
  <2>3. QED
    BY <1>0, <2>1, <2>2
<1> DEFINE Rec(g) ==
      g = [n \in 0 .. N |->
             IF n = 0 THEN {A.initial}
             ELSE LET before == g[n - 1] IN before \cup PostsIn(A, before)]
    within == CHOOSE g : Rec(g)
<1>2. PICK f : IsStages(G, S, N, f)
  <2> HIDE DEF G, S
  <2>1. QED
    BY <1>0, StagesExist
<1>10. f \in [0 .. N -> SUBSET SUBSET A.states]
  <2> HIDE DEF G
  <2>1. QED
    BY <1>0, <1>2 DEF IsStages
<1>3. Rec(f)
  <2>1. ASSUME NEW n \in 1 .. N PROVE f[n] = f[n - 1] \cup PostsIn(A, f[n - 1])
    <3>1. f[n] = WithTargets(G, f[n - 1])
      BY <1>2 DEF IsStages
    <3>2. f[n - 1] \in SUBSET SUBSET A.states
      BY <1>10
    <3>3. QED
      BY <3>1, <3>2, GraphTargets
  <2>2. f[0] = {A.initial}
    BY <1>2 DEF IsStages
  <2>3. \A n \in 0 .. N :
          f[n] = IF n = 0 THEN {A.initial}
                 ELSE LET before == f[n - 1] IN before \cup PostsIn(A, before)
    BY SMTT(30), <2>1, <2>2
  <2>4. f = [n \in 0 .. N |-> f[n]]
    BY <1>10
  <2>5. QED
    BY <2>3, <2>4, Zenon
<1>4. Rec(within)
  <2> HIDE DEF Rec
  <2>1. QED
    BY <1>3
<1>5. MacrostatesIn(A) = within[N]
  BY <1>1 DEF MacrostatesIn
<1>6. IsStages(G, S, N, within)
  <2> HIDE DEF within
  <2>1. ASSUME NEW n \in 0 .. N
        PROVE  within[n] = IF n = 0 THEN {A.initial}
                           ELSE within[n - 1] \cup PostsIn(A, within[n - 1])
    BY <1>4
  <2>2. within[0] = S
    <3>1. 0 \in 0 .. N
      OBVIOUS
    <3>2. QED
      BY <2>1, <3>1
  <2>3. ASSUME NEW n \in 1 .. N
        PROVE  within[n] = within[n - 1] \cup PostsIn(A, within[n - 1])
    <3>1. n \in 0 .. N /\ n # 0
      OBVIOUS
    <3>2. QED
      BY <2>1, <3>1
  <2> DEFINE T == {n \in Nat : n <= N => within[n] \in SUBSET SUBSET A.states}
  <2>4. 0 \in T
    BY <2>2, <1>0
  <2>5. ASSUME NEW n \in Nat, n \in T PROVE n + 1 \in T
    <3> SUFFICES ASSUME n + 1 <= N PROVE within[n + 1] \in SUBSET SUBSET A.states
      OBVIOUS
    <3>1. n + 1 \in 1 .. N /\ (n + 1) - 1 = n /\ within[n] \in SUBSET SUBSET A.states
      BY <2>5
    <3>2. within[n + 1] = within[n] \cup PostsIn(A, within[n])
      BY <2>3, <3>1
    <3>3. PostsIn(A, within[n]) \in SUBSET SUBSET A.states
      BY PostIsSetOfStates DEF PostsIn
    <3>4. QED
      BY <3>1, <3>2, <3>3
  <2>6. \A n \in 0 .. N : within[n] \in SUBSET SUBSET A.states
    <3>1. Nat \subseteq T
      <4> HIDE DEF T
      <4>1. QED
        BY <2>4, <2>5, SetInduction
    <3>2. QED
      BY <3>1
  <2>7. within \in [0 .. N -> SUBSET SUBSET A.states]
    BY <1>4, <2>6
  <2>8. ASSUME NEW n \in 1 .. N PROVE within[n] = WithTargets(G, within[n - 1])
    <3>1. within[n - 1] \in SUBSET SUBSET A.states
      BY <2>6
    <3>2. QED
      BY <2>3, <3>1, GraphTargets
  <2> HIDE DEF G
  <2>9. QED
    BY <1>0, <2>2, <2>7, <2>8 DEF IsStages
<1>7. QED
  <2> HIDE DEF within, G, S
  <2>1. QED
    BY <1>0, <1>1, <1>5, <1>6 DEF G, S

LEMMA MacrostatesHold ==
  ASSUME NEW A, IsInput(A)
  PROVE  /\ MacrostatesIn(A) \subseteq SUBSET A.states
         /\ A.initial \in MacrostatesIn(A)
         /\ \A S \in MacrostatesIn(A) : \A a \in SymbolsOut(A, S) : Post(A, S, a) \in MacrostatesIn(A)
<1>1. PICK N, f : /\ N \in Nat /\ N = Cardinality(MacroGraph(A).states)
                 /\ IsStages(MacroGraph(A), {A.initial}, N, f)
                 /\ MacrostatesIn(A) = f[N]
  BY MacrostatesAreStages
<1>2. {A.initial} \in SUBSET MacroGraph(A).states /\ MovesInside(MacroGraph(A))
  BY GraphIsGraph
<1>3. /\ f[N] \in SUBSET MacroGraph(A).states /\ {A.initial} \subseteq f[N]
      /\ \A m \in MacroGraph(A).delta : m[1] \in f[N] => m[3] \in f[N]
  BY <1>1, <1>2, MacrostatesAreStages, LastStageHolds
<1>4. f[N] \in SUBSET SUBSET A.states
  BY <1>3, GraphStates
<1>5. ASSUME NEW S \in f[N], NEW a \in SymbolsOut(A, S) PROVE Post(A, S, a) \in f[N]
  <2>1. <<S, a, Post(A, S, a)>> \in MacroGraph(A).delta
    BY <1>4, GraphHasMoves
  <2>2. QED
    BY <1>3, <2>1
<1>6. QED
  BY <1>1, <1>3, <1>4, <1>5

LEMMA MacrostatesAreLeast ==
  ASSUME NEW A, IsInput(A), NEW C, A.initial \in C,
         \A S \in SUBSET A.states : \A a \in SymbolsOut(A, S) : S \in C => Post(A, S, a) \in C
  PROVE  MacrostatesIn(A) \subseteq C
<1>1. PICK N, f : /\ N \in Nat /\ N = Cardinality(MacroGraph(A).states)
                 /\ IsStages(MacroGraph(A), {A.initial}, N, f)
                 /\ MacrostatesIn(A) = f[N]
  BY MacrostatesAreStages
<1>2. ASSUME NEW m \in MacroGraph(A).delta, m[1] \in C PROVE m[3] \in C
  BY <1>2, GraphMoves
<1>3. {A.initial} \subseteq C
  OBVIOUS
<1>4. f[N] \subseteq C
  BY <1>1, <1>2, <1>3, LastStageIsLeast
<1>5. QED
  BY <1>1, <1>4

(* The empty set is a macrostate only if nothing is initial, and then it is *)
(* the only one.                                                            *)
LEMMA EmptyIsAlone ==
  ASSUME NEW A, IsInput(A), {} \in MacrostatesIn(A)
  PROVE  MacrostatesIn(A) = {{}}
<1>1. \A S \in SUBSET A.states : \A a \in SymbolsOut(A, S) : Post(A, S, a) # {}
  BY DEF SymbolsOut, Post, IsInput, IsAutomaton
<1>2. CASE A.initial # {}
  <2>1. MacrostatesIn(A) \subseteq (SUBSET A.states) \ {{}}
    <3>1. A.initial \in (SUBSET A.states) \ {{}}
      BY <1>2 DEF IsInput, IsAutomaton
    <3>2. QED
      BY <1>1, <3>1, PostIsSetOfStates, MacrostatesAreLeast
  <2>2. QED
    BY <2>1
<1>3. CASE A.initial = {}
  <2>1. \A a : a \notin SymbolsOut(A, {})
    BY DEF SymbolsOut
  <2>2. MacrostatesIn(A) \subseteq {{}}
    BY <1>3, <2>1, MacrostatesAreLeast
  <2>3. QED
    BY <2>2
<1>4. QED
  BY <1>2, <1>3

(***************************************************************************)
(* An automaton B whose states stand for macrostates of A, given by g.     *)
(* Built says that B is a right replacement for A as far as it goes: what  *)
(* its states L can do by a symbol is, taken together, what their          *)
(* macrostates can do, except for the moves that are owed.                 *)
(***************************************************************************)
IsMachine(B) ==
  B = [states |-> B.states, initial |-> B.initial, delta |-> B.delta, final |-> B.final]

SymbolsIn(A) == {m[2] : m \in A.delta}

Reaches(A, B, g, L, q, a) ==
  \A x \in Post(A, g[q], a) : \E r \in L : <<q, a, r>> \in B.delta /\ x \in g[r]

MovesFit(A, B, g, L) ==
  \A m \in B.delta : /\ m[1] \in L /\ m[3] \in B.states
                     /\ g[m[3]] \subseteq Post(A, g[m[1]], m[2])

MovesReach(A, B, g, L, Owed) ==
  \A q \in L : \A a \in SymbolsIn(A) : <<q, a>> \notin Owed => Reaches(A, B, g, L, q, a)

StartsRight(A, B, g, L) ==
  /\ \A q \in B.initial : q \in B.states /\ g[q] \subseteq A.initial
  /\ \A x \in A.initial : \E r \in L : r \in B.initial /\ x \in g[r]

Built(A, B, g, L, Owed) ==
  /\ L \subseteq B.states
  /\ MovesFit(A, B, g, L) /\ MovesReach(A, B, g, L, Owed) /\ StartsRight(A, B, g, L)

(* Fewer moves are owed, for states in L; what is final is no matter.       *)
LEMMA OwedLess ==
  ASSUME NEW A, NEW B, NEW g, NEW L, NEW Owed, Built(A, B, g, L, Owed),
         NEW B2, B2.states = B.states, B2.initial = B.initial, B2.delta = B.delta,
         NEW Owed2, \A q \in L : \A a \in SymbolsIn(A) :
                      <<q, a>> \notin Owed2 /\ <<q, a>> \in Owed => Post(A, g[q], a) = {}
  PROVE  Built(A, B2, g, L, Owed2)
<1>1. MovesReach(A, B2, g, L, Owed2)
  <2> SUFFICES ASSUME NEW q \in L, NEW a \in SymbolsIn(A), <<q, a>> \notin Owed2,
                      NEW x \in Post(A, g[q], a)
               PROVE  \E r \in L : <<q, a, r>> \in B2.delta /\ x \in g[r]
    BY DEF MovesReach, Reaches
  <2>1. <<q, a>> \notin Owed
    OBVIOUS
  <2>2. QED
    BY <2>1 DEF Built, MovesReach, Reaches
<1>2. QED
  BY <1>1 DEF Built, MovesFit, StartsRight

(* A state is removed; the set K takes its place.                           *)
TakesPlace(g, L, K, e) ==
  /\ \A r \in K : r # e /\ g[r] \subseteq g[e]
  /\ \A x \in g[e] : \E r \in K : r \in L /\ x \in g[r]

MovesRemoved(old, new, K, e) ==
  /\ \A m \in new : \/ m \in old /\ m[1] # e /\ m[3] # e
                    \/ /\ m[1] # e /\ m[3] \in K
                       /\ \E n \in old : n[1] = m[1] /\ n[2] = m[2] /\ n[3] = e
  /\ \A m \in old : m[1] # e /\ m[3] # e => m \in new
  /\ \A m \in old : m[1] # e /\ m[3] = e => \A t \in K : <<m[1], m[2], t>> \in new

LEMMA RemovedFields ==
  ASSUME NEW B, IsMachine(B), NEW K, NEW e, NEW C, C = remove_covered_state(B, K, e)
  PROVE  /\ C.states = B.states /\ C.final = B.final \ {e} /\ IsMachine(C)
         /\ e \in B.initial => C.initial = (B.initial \ {e}) \cup K
         /\ e \notin B.initial => C.initial = B.initial
         /\ MovesRemoved(B.delta, C.delta, K, e)
<1> DEFINE kept == {m \in B.delta : m[1] # e}
           into == {m \in kept : m[3] = e}
           moves == (kept \ into) \cup {<<m[1], m[2], t>> : m \in into, t \in K}
           starts == IF e \in B.initial THEN (B.initial \ {e}) \cup K ELSE B.initial
<1>1. C = [B EXCEPT !.delta = moves, !.final = @ \ {e}, !.initial = starts]
  BY DEF remove_covered_state
<1>2. C = [states |-> B.states, initial |-> starts, delta |-> moves, final |-> B.final \ {e}]
  <2> HIDE DEF moves, starts
  <2>1. QED
    BY <1>1 DEF IsMachine
<1>3. MovesRemoved(B.delta, moves, K, e)
  BY DEF MovesRemoved
<1>4. C.states = B.states /\ C.final = B.final \ {e} /\ C.initial = starts /\ C.delta = moves
  <2> HIDE DEF moves, starts
  <2>1. QED
    BY <1>2
<1>5. IsMachine(C)
  <2> HIDE DEF moves, starts
  <2>1. QED
    BY <1>2, <1>4 DEF IsMachine
<1>6. QED
  <2> HIDE DEF moves
  <2>1. QED
    BY <1>3, <1>4, <1>5

LEMMA RemoveKeepsBuilt ==
  ASSUME NEW A, NEW B, NEW g, NEW L, NEW Owed, Built(A, B, g, L, Owed), IsMachine(B),
         NEW K \in SUBSET B.states, NEW e, TakesPlace(g, L, K, e)
  PROVE  Built(A, remove_covered_state(B, K, e), g, L \ {e}, Owed)
<1>1. PICK C : C = remove_covered_state(B, K, e)
  OBVIOUS
<1>2. /\ C.states = B.states
      /\ e \in B.initial => C.initial = (B.initial \ {e}) \cup K
      /\ e \notin B.initial => C.initial = B.initial
      /\ MovesRemoved(B.delta, C.delta, K, e)
  BY <1>1, RemovedFields
<1>3. MovesFit(A, C, g, L \ {e})
  <2> SUFFICES ASSUME NEW m \in C.delta
               PROVE  /\ m[1] \in L \ {e} /\ m[3] \in C.states
                      /\ g[m[3]] \subseteq Post(A, g[m[1]], m[2])
    BY DEF MovesFit
  <2>1. CASE m \in B.delta /\ m[1] # e /\ m[3] # e
    BY <1>2, <2>1 DEF Built, MovesFit
  <2>2. CASE ~(m \in B.delta /\ m[1] # e /\ m[3] # e)
    <3>1. /\ m[1] # e /\ m[3] \in K
          /\ \E n \in B.delta : n[1] = m[1] /\ n[2] = m[2] /\ n[3] = e
      BY <1>2, <2>2 DEF MovesRemoved
    <3>2. PICK n \in B.delta : n[1] = m[1] /\ n[2] = m[2] /\ n[3] = e
      BY <3>1
    <3>3. n[1] \in L /\ g[n[3]] \subseteq Post(A, g[n[1]], n[2])
      BY DEF Built, MovesFit
    <3>4. g[m[3]] \subseteq g[e] /\ m[3] \in C.states
      BY <1>2, <3>1 DEF TakesPlace
    <3>5. QED
      BY <3>1, <3>2, <3>3, <3>4
  <2>3. QED
    BY <2>1, <2>2
<1>4. MovesReach(A, C, g, L \ {e}, Owed)
  <2> SUFFICES ASSUME NEW q \in L \ {e}, NEW a \in SymbolsIn(A), <<q, a>> \notin Owed,
                      NEW x \in Post(A, g[q], a)
               PROVE  \E r \in L \ {e} : <<q, a, r>> \in C.delta /\ x \in g[r]
    BY DEF MovesReach, Reaches
  <2>1. PICK r \in L : <<q, a, r>> \in B.delta /\ x \in g[r]
    BY DEF Built, MovesReach, Reaches
  <2>2. CASE r # e
    <3>1. <<q, a, r>> \in C.delta
      BY <1>2, <2>1, <2>2 DEF MovesRemoved
    <3>2. QED
      BY <2>1, <2>2, <3>1
  <2>3. CASE r = e
    <3>1. PICK t \in K : t \in L /\ t # e /\ x \in g[t]
      BY <2>1, <2>3 DEF TakesPlace
    <3>2. <<q, a, t>> \in C.delta
      BY <1>2, <2>1, <2>3, <3>1 DEF MovesRemoved
    <3>3. QED
      BY <3>1, <3>2
  <2>4. QED
    BY <2>2, <2>3
<1>5. StartsRight(A, C, g, L \ {e})
  <2>1. ASSUME NEW q \in C.initial PROVE q \in C.states /\ g[q] \subseteq A.initial
    BY <1>2 DEF Built, StartsRight, TakesPlace
  <2>2. ASSUME NEW x \in A.initial
        PROVE  \E r \in L \ {e} : r \in C.initial /\ x \in g[r]
    <3>1. PICK r \in L : r \in B.initial /\ x \in g[r]
      BY DEF Built, StartsRight
    <3>2. CASE r # e
      BY <1>2, <3>1, <3>2
    <3>3. CASE r = e
      <4>1. PICK t \in K : t \in L /\ t # e /\ x \in g[t]
        BY <3>1, <3>3 DEF TakesPlace
      <4>2. QED
        BY <1>2, <3>1, <3>3, <4>1
    <3>4. QED
      BY <3>2, <3>3
  <2>3. QED
    BY <2>1, <2>2 DEF StartsRight
<1>6. QED
  BY <1>1, <1>2, <1>3, <1>4, <1>5 DEF Built

(* The moves of state e by a symbol are made.                               *)
WithMoves(B, e, a, T) == [B EXCEPT !.delta = @ \cup {<<e, a, t>> : t \in T}]

LEMMA MovedFields ==
  ASSUME NEW B, IsMachine(B), NEW e, NEW a, NEW T, NEW C, C = WithMoves(B, e, a, T)
  PROVE  /\ C.states = B.states /\ C.final = B.final /\ C.initial = B.initial /\ IsMachine(C)
         /\ C.delta = B.delta \cup {<<e, a, t>> : t \in T}
<1> DEFINE moves == B.delta \cup {<<e, a, t>> : t \in T}
<1>1. C = [B EXCEPT !.delta = moves]
  BY DEF WithMoves
<1> HIDE DEF moves
<1>2. C = [states |-> B.states, initial |-> B.initial, delta |-> moves, final |-> B.final]
  BY <1>1 DEF IsMachine
<1>3. /\ C.states = B.states /\ C.final = B.final /\ C.initial = B.initial
      /\ C.delta = moves
  BY <1>2
<1>4. IsMachine(C)
  BY <1>2, <1>3 DEF IsMachine
<1>5. QED
  BY <1>3, <1>4 DEF moves

Makes(A, g, L, e, a, T) ==
  /\ \A t \in T : g[t] \subseteq Post(A, g[e], a)
  /\ \A x \in Post(A, g[e], a) : \E r \in L : r \in T /\ x \in g[r]

LEMMA MovesKeepBuilt ==
  ASSUME NEW A, NEW B, NEW g, NEW L, NEW Owed, Built(A, B, g, L, Owed), IsMachine(B),
         NEW e \in L, NEW a, NEW T \in SUBSET B.states, Makes(A, g, L, e, a, T),
         NEW Owed2, \A q \in L : \A b \in SymbolsIn(A) :
                      <<q, b>> \in Owed => <<q, b>> \in Owed2 \/ (q = e /\ b = a)
  PROVE  Built(A, WithMoves(B, e, a, T), g, L, Owed2)
<1>1. PICK C : C = WithMoves(B, e, a, T)
  OBVIOUS
<1>2. /\ C.states = B.states /\ C.initial = B.initial
      /\ C.delta = B.delta \cup {<<e, a, t>> : t \in T}
  BY <1>1, MovedFields
<1>3. MovesFit(A, C, g, L)
  <2> SUFFICES ASSUME NEW m \in C.delta
               PROVE  /\ m[1] \in L /\ m[3] \in C.states
                      /\ g[m[3]] \subseteq Post(A, g[m[1]], m[2])
    BY DEF MovesFit
  <2>1. CASE m \in B.delta
    BY <1>2, <2>1 DEF Built, MovesFit
  <2>2. CASE m \notin B.delta
    <3>1. PICK t \in T : m = <<e, a, t>>
      BY <1>2, <2>2
    <3>2. m[1] = e /\ m[2] = a /\ m[3] = t
      BY <3>1
    <3>3. QED
      BY <1>2, <3>2 DEF Makes
  <2>3. QED
    BY <2>1, <2>2
<1>4. MovesReach(A, C, g, L, Owed2)
  <2> SUFFICES ASSUME NEW q \in L, NEW b \in SymbolsIn(A), <<q, b>> \notin Owed2,
                      NEW x \in Post(A, g[q], b)
               PROVE  \E r \in L : <<q, b, r>> \in C.delta /\ x \in g[r]
    BY DEF MovesReach, Reaches
  <2>1. CASE q = e /\ b = a
    <3>1. PICK r \in L : r \in T /\ x \in g[r]
      BY <2>1 DEF Makes
    <3>2. <<q, b, r>> \in C.delta
      BY <1>2, <2>1, <3>1
    <3>3. QED
      BY <3>1, <3>2
  <2>2. CASE ~(q = e /\ b = a)
    <3>1. <<q, b>> \notin Owed
      BY <2>2
    <3>2. PICK r \in L : <<q, b, r>> \in B.delta /\ x \in g[r]
      BY <3>1 DEF Built, MovesReach, Reaches
    <3>3. QED
      BY <1>2, <3>2
  <2>3. QED
    BY <2>1, <2>2
<1>5. StartsRight(A, C, g, L)
  BY <1>2 DEF Built, StartsRight
<1>6. QED
  BY <1>1, <1>2, <1>3, <1>4, <1>5 DEF Built

(* A new state owes all its moves.                                          *)
LEMMA NewStateKeepsBuilt ==
  ASSUME NEW A, NEW B, NEW g, NEW L, NEW Owed, Built(A, B, g, L, Owed),
         NEW n, n \notin B.states, NEW C, C.states = B.states \cup {n},
         C.initial = B.initial, C.delta = B.delta,
         NEW h, \A q \in B.states : h[q] = g[q],
         NEW Owed2, \A a \in SymbolsIn(A) : <<n, a>> \in Owed2,
         \A q \in L : \A a \in SymbolsIn(A) : <<q, a>> \in Owed => <<q, a>> \in Owed2
  PROVE  Built(A, C, h, L \cup {n}, Owed2)
<1>1. MovesFit(A, C, h, L \cup {n})
  BY DEF Built, MovesFit
<1>2. MovesReach(A, C, h, L \cup {n}, Owed2)
  <2> SUFFICES ASSUME NEW q \in L \cup {n}, NEW a \in SymbolsIn(A), <<q, a>> \notin Owed2,
                      NEW x \in Post(A, h[q], a)
               PROVE  \E r \in L \cup {n} : <<q, a, r>> \in C.delta /\ x \in h[r]
    BY DEF MovesReach, Reaches
  <2>1. q \in L /\ <<q, a>> \notin Owed /\ h[q] = g[q]
    BY DEF Built
  <2>2. PICK r \in L : <<q, a, r>> \in B.delta /\ x \in g[r]
    BY <2>1 DEF Built, MovesReach, Reaches
  <2>3. h[r] = g[r]
    BY DEF Built
  <2>4. QED
    BY <2>2, <2>3
<1>3. StartsRight(A, C, h, L \cup {n})
  <2>1. ASSUME NEW q \in C.initial PROVE q \in C.states /\ h[q] \subseteq A.initial
    BY DEF Built, StartsRight
  <2>2. ASSUME NEW x \in A.initial PROVE \E r \in L \cup {n} : r \in C.initial /\ x \in h[r]
    <3>1. PICK r \in L : r \in B.initial /\ x \in g[r]
      BY DEF Built, StartsRight
    <3>2. h[r] = g[r]
      BY DEF Built
    <3>3. QED
      BY <3>1, <3>2
  <2>3. QED
    BY <2>1, <2>2 DEF StartsRight
<1>4. QED
  BY <1>1, <1>2, <1>3 DEF Built

(* A state that nothing uses is left out.                                   *)
LEMMA UnusedKeepsBuilt ==
  ASSUME NEW A, NEW B, NEW g, NEW L, NEW Owed, Built(A, B, g, L, Owed),
         NEW n, n \notin B.initial, \A m \in B.delta : m[1] # n /\ m[3] # n
  PROVE  Built(A, B, g, L \ {n}, Owed)
<1>1. MovesFit(A, B, g, L \ {n})
  BY DEF Built, MovesFit
<1>2. MovesReach(A, B, g, L \ {n}, Owed)
  <2> SUFFICES ASSUME NEW q \in L \ {n}, NEW a \in SymbolsIn(A), <<q, a>> \notin Owed,
                      NEW x \in Post(A, g[q], a)
               PROVE  \E r \in L \ {n} : <<q, a, r>> \in B.delta /\ x \in g[r]
    BY DEF MovesReach, Reaches
  <2>1. PICK r \in L : <<q, a, r>> \in B.delta /\ x \in g[r]
    BY DEF Built, MovesReach, Reaches
  <2>2. r # n
    BY <2>1
  <2>3. QED
    BY <2>1, <2>2
<1>3. StartsRight(A, B, g, L \ {n})
  <2>1. ASSUME NEW x \in A.initial PROVE \E r \in L \ {n} : r \in B.initial /\ x \in g[r]
    <3>1. PICK r \in L : r \in B.initial /\ x \in g[r]
      BY DEF Built, StartsRight
    <3>2. QED
      BY <3>1
  <2>2. QED
    BY <2>1 DEF Built, StartsRight
<1>4. QED
  BY <1>1, <1>2, <1>3 DEF Built

(***************************************************************************)
(* What a complete replacement is: it accepts the same words, and the      *)
(* macrostates are the unions of those its states stand for.               *)
(***************************************************************************)
Complete(A, B, g, L) == Built(A, B, g, L, {})

StandsFor(A, B, g, L, R, S) ==
  /\ \A q \in R : g[q] \subseteq S
  /\ \A x \in S : \E r \in L : r \in R /\ x \in g[r]

LEMMA PostStandsFor ==
  ASSUME NEW A, NEW B, NEW g, NEW L, Complete(A, B, g, L), NEW R, NEW S,
         StandsFor(A, B, g, L, R, S), NEW a
  PROVE  StandsFor(A, B, g, L, Post(B, R, a), Post(A, S, a))
<1>1. ASSUME NEW q \in Post(B, R, a), NEW x \in g[q] PROVE x \in Post(A, S, a)
  <2>1. PICK p \in R : <<p, a, q>> \in B.delta
    BY DEF Post
  <2>2. g[q] \subseteq Post(A, g[p], a)
    BY <2>1 DEF Complete, Built, MovesFit
  <2>3. g[p] \subseteq S
    BY DEF StandsFor
  <2>4. QED
    BY <2>2, <2>3 DEF Post
<1>2. ASSUME NEW x \in Post(A, S, a)
      PROVE  \E r \in L : r \in Post(B, R, a) /\ x \in g[r]
  <2>1. PICK y \in S : <<y, a, x>> \in A.delta /\ x \in A.states
    BY DEF Post
  <2>2. PICK q \in L : q \in R /\ y \in g[q]
    BY DEF StandsFor
  <2>3. a \in SymbolsIn(A)
    BY <2>1 DEF SymbolsIn
  <2>4. x \in Post(A, g[q], a)
    BY <2>1, <2>2 DEF Post
  <2>5. PICK r \in L : <<q, a, r>> \in B.delta /\ x \in g[r]
    BY <2>3, <2>4 DEF Complete, Built, MovesReach, Reaches
  <2>6. r \in Post(B, R, a)
    BY <2>2, <2>5 DEF Post, Complete, Built
  <2>7. QED
    BY <2>5, <2>6
<1>3. QED
  BY <1>1, <1>2 DEF StandsFor

FinalRight(A, B, g, L) == B.final = {q \in L : g[q] \cap A.final # {}}

LEMMA CompleteKeepsLanguage ==
  ASSUME NEW A, IsInput(A), NEW B, NEW g, NEW L, Complete(A, B, g, L),
         FinalRight(A, B, g, L), NEW word, Len(word) \in Nat
  PROVE  Accepts(B, word) <=> Accepts(A, word)
<1>1. A.initial \in SUBSET A.states /\ B.initial \in SUBSET B.states
  BY DEF IsInput, IsAutomaton, Complete, Built, StartsRight
<1>2. PICK f : IsReading(A, A.initial, word, f) /\ Read(A, word) = f[Len(word)]
  BY <1>1, ReadExists
<1>3. PICK h : IsReading(B, B.initial, word, h) /\ Read(B, word) = h[Len(word)]
  BY <1>1, ReadExists
<1> DEFINE T == {n \in Nat : n <= Len(word) => StandsFor(A, B, g, L, h[n], f[n])}
<1>4. 0 \in T
  <2>1. h[0] = B.initial /\ f[0] = A.initial
    BY <1>2, <1>3 DEF IsReading
  <2>2. StandsFor(A, B, g, L, B.initial, A.initial)
    BY DEF StandsFor, Complete, Built, StartsRight
  <2>3. QED
    BY <2>1, <2>2
<1>5. ASSUME NEW n \in Nat, n \in T PROVE n + 1 \in T
  <2> SUFFICES ASSUME n + 1 <= Len(word) PROVE StandsFor(A, B, g, L, h[n + 1], f[n + 1])
    OBVIOUS
  <2>1. n + 1 \in 1 .. Len(word) /\ (n + 1) - 1 = n
    OBVIOUS
  <2>2. /\ h[n + 1] = Post(B, h[n], word[n + 1])
        /\ f[n + 1] = Post(A, f[n], word[n + 1])
    BY <1>2, <1>3, <2>1 DEF IsReading
  <2>3. StandsFor(A, B, g, L, h[n], f[n])
    BY <1>5, <2>1
  <2>4. QED
    BY <2>2, <2>3, PostStandsFor
<1>6. Len(word) \in T
  <2> HIDE DEF T
  <2>1. QED
    BY <1>4, <1>5, SetInduction
<1>7. StandsFor(A, B, g, L, Read(B, word), Read(A, word))
  BY <1>2, <1>3, <1>6
<1>8. ASSUME NEW q \in Read(B, word), q \in B.final
      PROVE  \E x \in Read(A, word) : x \in A.final
  <2>1. PICK x \in g[q] : x \in A.final
    BY <1>8 DEF FinalRight
  <2>2. QED
    BY <1>7, <1>8, <2>1 DEF StandsFor
<1>9. ASSUME NEW x \in Read(A, word), x \in A.final
      PROVE  \E q \in Read(B, word) : q \in B.final
  <2>1. PICK r \in L : r \in Read(B, word) /\ x \in g[r]
    BY <1>7 DEF StandsFor
  <2>2. QED
    BY <1>9, <2>1 DEF FinalRight
<1>10. QED
  BY <1>8, <1>9 DEF Accepts

IsWhole(g, L, S) == \A x \in S : \E r \in L : g[r] \subseteq S /\ x \in g[r]

LEMMA MacrostatesAreUnions ==
  ASSUME NEW A, IsInput(A), NEW B, NEW g, NEW L, Complete(A, B, g, L)
  PROVE  \A S \in MacrostatesIn(A) : IsWhole(g, L, S)
<1> DEFINE C == {S \in SUBSET A.states : IsWhole(g, L, S)}
<1>1. A.initial \in C
  <2>1. A.initial \in SUBSET A.states
    BY DEF IsInput, IsAutomaton
  <2>2. IsWhole(g, L, A.initial)
    BY DEF IsWhole, Complete, Built, StartsRight
  <2>3. QED
    BY <2>1, <2>2
<1>2. ASSUME NEW S \in SUBSET A.states, NEW a \in SymbolsOut(A, S), S \in C
      PROVE  Post(A, S, a) \in C
  <2>1. StandsFor(A, B, g, L, {r \in L : g[r] \subseteq S}, S)
    BY <1>2 DEF StandsFor, IsWhole
  <2>2. PICK R : R = Post(B, {r \in L : g[r] \subseteq S}, a)
    OBVIOUS
  <2>3. StandsFor(A, B, g, L, R, Post(A, S, a))
    BY <2>1, <2>2, PostStandsFor
  <2>4. IsWhole(g, L, Post(A, S, a))
    BY <2>3 DEF StandsFor, IsWhole
  <2>5. QED
    BY <2>4, PostIsSetOfStates
<1>3. MacrostatesIn(A) \subseteq C
  <2> HIDE DEF C
  <2>1. QED
    BY <1>1, <1>2, MacrostatesAreLeast
<1>4. QED
  BY <1>3

(* The macrostates that are no union of smaller ones.                       *)
IsResidual(all, S) == S = {} \/ S # UNION {T \in all : T \subseteq S /\ T # S}
Residuals(A) == {S \in MacrostatesIn(A) : IsResidual(MacrostatesIn(A), S)}

(* A state of L whose macrostate is not the union of those of others.       *)
StandsAlone(g, L, q) ==
  g[q] = {} \/ \E x \in g[q] : \A r \in L : g[r] \subseteq g[q] /\ g[r] # g[q] => x \notin g[r]

LEMMA ResidualsStay ==
  ASSUME NEW A, IsInput(A), NEW B, NEW g, NEW L, Complete(A, B, g, L), L # {},
         \A q \in L : g[q] \in MacrostatesIn(A) /\ StandsAlone(g, L, q),
         NEW S
  PROVE  S \in Residuals(A) <=> \E q \in L : S = g[q]
<1> DEFINE all == MacrostatesIn(A)
<1>1. ASSUME NEW q \in L, S = g[q] PROVE S \in Residuals(A)
  <2>1. ASSUME g[q] # {}, NEW x \in g[q],
               \A r \in L : g[r] \subseteq g[q] /\ g[r] # g[q] => x \notin g[r]
        PROVE  x \notin UNION {T \in all : T \subseteq S /\ T # S}
    <3> SUFFICES ASSUME NEW T \in all, T \subseteq S, T # S, x \in T PROVE FALSE
      OBVIOUS
    <3>1. IsWhole(g, L, T)
      BY MacrostatesAreUnions
    <3>2. PICK r \in L : g[r] \subseteq T /\ x \in g[r]
      BY <3>1 DEF IsWhole
    <3>3. g[r] \subseteq g[q] /\ g[r] # g[q]
      BY <1>1, <3>2
    <3>4. QED
      BY <2>1, <3>2, <3>3
  <2>2. StandsAlone(g, L, q) /\ S \in all
    BY <1>1
  <2> HIDE DEF all
  <2>3. QED
    BY <1>1, <2>1, <2>2 DEF StandsAlone, Residuals, IsResidual, all
<1>2. ASSUME S \in Residuals(A) PROVE \E q \in L : S = g[q]
  <2>1. S \in all /\ IsResidual(all, S)
    BY <1>2 DEF Residuals
  <2>2. CASE S = {}
    <3>1. all = {{}}
      BY <2>1, <2>2, EmptyIsAlone
    <3>2. QED
      BY <2>2, <3>1
  <2>3. CASE S # {}
    <3>1. SUFFICES ASSUME \A q \in L : S # g[q] PROVE FALSE
      OBVIOUS
    <3>2. ASSUME NEW x \in S PROVE x \in UNION {T \in all : T \subseteq S /\ T # S}
      <4>1. IsWhole(g, L, S)
        BY <2>1, MacrostatesAreUnions
      <4>2. PICK r \in L : g[r] \subseteq S /\ x \in g[r]
        BY <4>1 DEF IsWhole
      <4>3. QED
        BY <3>1, <4>2
    <3>3. S = UNION {T \in all : T \subseteq S /\ T # S}
      BY <3>2
    <3>4. QED
      BY <2>1, <2>3, <3>3 DEF IsResidual
  <2>4. QED
    BY <2>2, <2>3
<1>3. QED
  BY <1>1, <1>2

(***************************************************************************)
(* reduce_residual_with.  The macrostate of a state is g[q]; a state is    *)
(* kept if its macrostate is in subset_map, and used if it is kept or is   *)
(* the new one that is being compared.                                     *)
(***************************************************************************)
Coming == at \in {"check", "update"}
IsNew(q) == Coming /\ q = target_res
KeptStates(g) == {q \in result.states : g[q] \in DOMAIN subset_map}
Used(g) == {q \in result.states : g[q] \in DOMAIN subset_map \/ IsNew(q)}

(* Moves still to be made: of the new state, of those that wait and, by the *)
(* symbols left, of the one that is expanded.                               *)
Waits(g, q) == \E k \in 1 .. Len(worklist) : worklist[k][2] = g[q]
Reading(q, a) == a \in symbols_left /\ expanding[1] = q
Owed(g) ==
  IF at = "done" THEN {}
  ELSE {p \in result.states \X SymbolsIn(nfa) :
          IsNew(p[1]) \/ Waits(g, p[1]) \/ Reading(p[1], p[2])}

WithTypes ==
  /\ at \in {"loop", "check", "update", "done"}
  /\ IsMachine(result)
  /\ target_res \in Nat /\ result.states = 0 .. target_res
  /\ DOMAIN covering_states = result.states /\ DOMAIN covering_indexes = result.states

WithNames(g) ==
  /\ \A q \in result.states : g[q] \in MacrostatesIn(nfa)
  /\ \A p, q \in result.states : g[p] = g[q] => p = q
  /\ \A S \in DOMAIN subset_map : /\ subset_map[S] \in result.states
                                  /\ g[subset_map[S]] = S /\ S \notin DOMAIN covered
  /\ \A S \in DOMAIN covered : covered[S] \in result.states /\ g[covered[S]] = S
  /\ \A q \in result.states : g[q] \in DOMAIN subset_map \/ g[q] \in DOMAIN covered \/ IsNew(q)
  /\ {} \notin DOMAIN covered

(* covering_states[q] is the union of the macrostates below that of q, as   *)
(* far as they are used, and covering_indexes[q] has all that are kept.  It *)
(* may also have covered ones.                                              *)
CoversAreUsed(g) ==
  \A q \in KeptStates(g) : \A x \in covering_states[q] :
    \E r \in Used(g) : r # q /\ g[r] \subseteq g[q] /\ x \in g[r]
SmallerAreCovers(g) ==
  \A q, r \in KeptStates(g) : r # q /\ g[r] \subseteq g[q] =>
    g[r] \subseteq covering_states[q] /\ r \in covering_indexes[q]
NewIsCover(g) ==
  Coming => \A q \in KeptStates(g) : g[q] \notin to_check /\ targets \subseteq g[q] =>
    targets \subseteq covering_states[q] /\ target_res \in covering_indexes[q]
NoneIsCovered(g) ==
  \A q \in KeptStates(g) : covering_states[q] = g[q] =>
    g[q] = {} \/ (at = "update" /\ q = erase_state)
CoversAreSmaller(g) ==
  \A q \in KeptStates(g) : \A r \in covering_indexes[q] :
    r \in result.states /\ r # q /\ g[r] \subseteq g[q]

(* What is recorded for a covered state stays enough to cover it.           *)
CoveredBySmaller(g) ==
  \A S \in DOMAIN covered : \A r \in covering_indexes[covered[S]] :
    r \in result.states /\ g[r] \subseteq S
CoveredByUsed(g) ==
  \A S \in DOMAIN covered : \A x \in S :
    \E r \in Used(g) : r \in covering_indexes[covered[S]] /\ x \in g[r]

(* The new macrostate.                                                      *)
NewTarget(g) ==
  Coming => /\ g[target_res] = targets /\ targets # {}
            /\ targets \notin DOMAIN subset_map /\ targets \notin DOMAIN covered
            /\ to_check \subseteq DOMAIN subset_map
            /\ \A m \in result.delta : m[1] # target_res
            /\ symbols_left # {} /\ targets = Post(nfa, expanding[2], LowestOf(symbols_left))
NewCovers(g) ==
  Coming => /\ \A x \in covering_states[target_res] :
                 \E r \in KeptStates(g) : g[r] \subseteq targets /\ x \in g[r]
            /\ \A r \in KeptStates(g) : g[r] \notin to_check /\ g[r] \subseteq targets =>
                 g[r] \subseteq covering_states[target_res] /\ r \in covering_indexes[target_res]
            /\ \A r \in covering_indexes[target_res] :
                 r \in KeptStates(g) /\ g[r] \subseteq targets

(* As soon as something relies on the new state, it is not going to be      *)
(* covered itself.                                                          *)
IsNeeded(g) ==
  \E x \in targets : \A r \in KeptStates(g) : g[r] \subseteq targets => x \notin g[r]
IsUnused ==
  /\ \A S \in DOMAIN covered : target_res \notin covering_indexes[covered[S]]
  /\ \A m \in result.delta : m[3] # target_res
  /\ target_res \notin result.initial
NewIsNeeded(g) == Coming => IsNeeded(g) \/ IsUnused

Erasing(g) ==
  at = "update" =>
    /\ erase_state \in KeptStates(g) /\ g[erase_state] \notin to_check
    /\ targets \subseteq g[erase_state] /\ covering_states[erase_state] = g[erase_state]
    /\ IsNeeded(g)
    /\ to_update \subseteq DOMAIN covered
    /\ \A S \in DOMAIN covered : S \notin to_update => erase_state \notin covering_indexes[covered[S]]

IsPair(g, p) == p[1] \in result.states /\ p[2] = g[p[1]] /\ ~IsNew(p[1])
WithWork(g) ==
  /\ worklist \in Seq(Nat \X SUBSET nfa.states)
  /\ \A k \in 1 .. Len(worklist) : IsPair(g, worklist[k])
  /\ symbols_left # {} => /\ IsPair(g, expanding)
                          /\ symbols_left \subseteq SymbolsOut(nfa, expanding[2])

WithBuilt(g) ==
  /\ Built(nfa, result, g, Used(g), Owed(g))
  /\ FinalRight(nfa, result, g, KeptStates(g))

KeptInv(g) ==
  /\ CoversAreUsed(g) /\ SmallerAreCovers(g) /\ NewIsCover(g)
  /\ NoneIsCovered(g) /\ CoversAreSmaller(g)
CoveredInv(g) == CoveredBySmaller(g) /\ CoveredByUsed(g)
NewInv(g) == NewTarget(g) /\ NewCovers(g) /\ NewIsNeeded(g)

WithInv(g) ==
  /\ WithTypes /\ WithNames(g) /\ KeptInv(g) /\ CoveredInv(g) /\ NewInv(g)
  /\ Erasing(g) /\ WithWork(g) /\ WithBuilt(g)

LEMMA NumbersTo ==
  ASSUME NEW n \in Nat
  PROVE  Cardinality(0 .. n) = n + 1
BY FS_Interval

LEMMA WithInit ==
  ASSUME Init, job.type = "with"
  PROVE  \E g : WithInv(g)
<1> DEFINE g == [q \in {0} |-> nfa.initial]
<1>1. IsInput(nfa) /\ job \in Jobs
  BY NfaIsInput DEF Init
<1>2. nfa.initial \in SUBSET nfa.states /\ nfa.initial \in MacrostatesIn(nfa)
  BY <1>1, MacrostatesHold DEF IsInput, IsAutomaton
<1>3. /\ result = [states |-> {0}, initial |-> {0}, delta |-> {},
                   final |-> IF nfa.initial \cap nfa.final # {} THEN {0} ELSE {}]
      /\ result.states = {0} /\ result.initial = {0} /\ result.delta = {}
      /\ result.final = IF nfa.initial \cap nfa.final # {} THEN {0} ELSE {}
  BY DEF Init
<1>4. target_res = 0 /\ result.states = 0 .. target_res
  <2>1. 0 .. 0 = {0}
    OBVIOUS
  <2>2. Cardinality({0}) = 1
    BY FS_Singleton
  <2> HIDE DEF g
  <2>3. QED
    BY <1>3, <2>1, <2>2 DEF target_res
<1>5. /\ DOMAIN subset_map = {nfa.initial} /\ subset_map[nfa.initial] = 0
      /\ DOMAIN covered = {}
  BY DEF Init, With, Empty
<1>6. /\ at \in {"loop", "done"} /\ ~Coming
      /\ at = "done" => nfa.delta = {}
  BY DEF Init, Coming
<1>7. KeptStates(g) = {0} /\ Used(g) = {0}
  BY <1>3, <1>5, <1>6 DEF KeptStates, Used, IsNew
<1>8. WithTypes
  <2>1. IsMachine(result)
    BY <1>3 DEF IsMachine
  <2>2. DOMAIN covering_states = {0} /\ DOMAIN covering_indexes = {0}
    BY DEF Init
  <2>3. QED
    BY <1>3, <1>4, <1>6, <2>1, <2>2 DEF WithTypes
<1>9. WithNames(g)
  BY <1>2, <1>3, <1>5 DEF WithNames
<1>10. covering_states[0] = {} /\ covering_indexes[0] = {}
  BY DEF Init
<1>11. KeptInv(g)
  BY <1>6, <1>7, <1>10
     DEF KeptInv, CoversAreUsed, SmallerAreCovers, NewIsCover, NoneIsCovered, CoversAreSmaller
<1>12. CoveredInv(g)
  BY <1>5 DEF CoveredInv, CoveredBySmaller, CoveredByUsed
<1>13. NewInv(g) /\ Erasing(g)
  BY <1>6 DEF NewInv, NewTarget, NewCovers, NewIsNeeded, Erasing, Coming
<1>14. /\ worklist \in Seq(Nat \X SUBSET nfa.states)
       /\ Len(worklist) = 1 /\ worklist[1][1] = 0 /\ worklist[1][2] = nfa.initial
       /\ symbols_left = {}
  BY <1>2 DEF Init
<1>15. WithWork(g)
  BY <1>3, <1>6, <1>14 DEF WithWork, IsPair, IsNew
<1>16. WithBuilt(g)
  <2>1. \A a \in SymbolsIn(nfa) : <<0, a>> \in Owed(g)
    <3>1. CASE at = "done"
      BY <1>6, <3>1 DEF SymbolsIn
    <3>2. CASE at # "done"
      <4>1. Waits(g, 0)
        BY <1>14 DEF Waits
      <4>2. QED
        BY <1>3, <3>2, <4>1 DEF Owed
    <3>3. QED
      BY <3>1, <3>2
  <2>2. Built(nfa, result, g, {0}, Owed(g))
    BY <1>3, <2>1 DEF Built, MovesFit, MovesReach, StartsRight
  <2>3. FinalRight(nfa, result, g, {0})
    BY <1>3 DEF FinalRight
  <2>4. QED
    <3> HIDE DEF g
    <3>1. QED
      BY <1>7, <2>2, <2>3 DEF WithBuilt
<1>17. WithInv(g)
  <2> HIDE DEF g
  <2>1. QED
    BY <1>8, <1>9, <1>11, <1>12, <1>13, <1>15, <1>16 DEF WithInv
<1>18. QED
  <2> HIDE DEF g
  <2>1. QED
    BY <1>17

(* Between two macrostates only moves are added.                            *)
LEMMA IdleKeeps ==
  ASSUME NEW g, WithInv(g), job' = job, ~Coming, ~Coming', at' \in {"loop", "done"},
         result'.states = result.states, IsMachine(result'),
         UNCHANGED <<subset_map, covered, covering_states, covering_indexes>>
  PROVE  /\ WithTypes' /\ WithNames(g)' /\ KeptInv(g)' /\ CoveredInv(g)'
         /\ NewInv(g)' /\ Erasing(g)'
         /\ KeptStates(g)' = KeptStates(g) /\ Used(g) = KeptStates(g)
         /\ Used(g)' = KeptStates(g)
<1>1. nfa' = nfa /\ target_res' = target_res
  BY DEF nfa, target_res
<1>2. KeptStates(g)' = KeptStates(g) /\ Used(g) = KeptStates(g) /\ Used(g)' = KeptStates(g)
  BY DEF KeptStates, Used, IsNew
<1>3. WithTypes'
  BY <1>1 DEF WithInv, WithTypes
<1>4. WithNames(g)'
  BY <1>1 DEF WithInv, WithNames, IsNew
<1>5. at # "update" /\ at' # "update"
  BY DEF Coming
<1>6. KeptInv(g)'
  <2>1. CoversAreUsed(g)'
    BY <1>2 DEF WithInv, KeptInv, CoversAreUsed
  <2>2. SmallerAreCovers(g)'
    BY <1>2 DEF WithInv, KeptInv, SmallerAreCovers
  <2>3. NewIsCover(g)'
    BY DEF NewIsCover
  <2>4. NoneIsCovered(g)'
    BY <1>2, <1>5 DEF WithInv, KeptInv, NoneIsCovered
  <2>5. CoversAreSmaller(g)'
    BY <1>2 DEF WithInv, KeptInv, CoversAreSmaller
  <2>6. QED
    BY <2>1, <2>2, <2>3, <2>4, <2>5 DEF KeptInv
<1>7. CoveredInv(g)'
  <2>1. CoveredBySmaller(g)'
    BY DEF WithInv, CoveredInv, CoveredBySmaller
  <2>2. CoveredByUsed(g)'
    BY <1>2 DEF WithInv, CoveredInv, CoveredByUsed
  <2>3. QED
    BY <2>1, <2>2 DEF CoveredInv
<1>8. NewInv(g)'
  BY DEF NewInv, NewTarget, NewCovers, NewIsNeeded
<1>9. Erasing(g)'
  BY <1>5 DEF Erasing
<1>10. QED
  BY <1>2, <1>3, <1>4, <1>6, <1>7, <1>8, <1>9

LEMMA FrontAndLast ==
  ASSUME NEW D, NEW s \in Seq(D), s # << >>
  PROVE  /\ Len(s) \in Nat /\ Len(s) >= 1 /\ Last(s) = s[Len(s)] /\ Last(s) \in D
         /\ Front(s) \in Seq(D) /\ Len(Front(s)) = Len(s) - 1
         /\ \A k \in 1 .. Len(s) - 1 : Front(s)[k] = s[k]
<1>1. Len(s) \in Nat /\ Len(s) >= 1 /\ \A k \in 1 .. Len(s) : s[k] \in D
  BY EmptySeq
<1>2. Front(s) = [k \in 1 .. Len(s) - 1 |-> s[k]]
  BY <1>1 DEF Front
<1>3. Front(s) \in Seq(D) /\ Len(Front(s)) = Len(s) - 1
  BY <1>1, <1>2
<1>4. QED
  BY <1>1, <1>2, <1>3 DEF Last

LEMMA NoSymbolNoPost ==
  ASSUME NEW A, NEW S, NEW a, a \notin SymbolsOut(A, S)
  PROVE  Post(A, S, a) = {}
<1> SUFFICES ASSUME NEW t \in Post(A, S, a) PROVE FALSE
  OBVIOUS
<1>1. PICK s \in S : <<s, a, t>> \in A.delta
  BY DEF Post
<1>2. <<s, a, t>>[1] = s /\ <<s, a, t>>[2] = a
  OBVIOUS
<1>3. a \in SymbolsOut(A, S)
  BY <1>1, <1>2 DEF SymbolsOut
<1>4. QED
  BY <1>3

LEMMA WithPop ==
  ASSUME NEW g, WithInv(g), job \in Jobs, Pop
  PROVE  WithInv(g)'
<1> DEFINE popped == worklist # << >>
<1>1. /\ job' = job /\ result' = result /\ subset_map' = subset_map /\ covered' = covered
      /\ covering_states' = covering_states /\ covering_indexes' = covering_indexes
      /\ at = "loop" /\ symbols_left = {} /\ at' \in {"loop", "done"}
      /\ ~popped => at' = "done" /\ UNCHANGED <<worklist, expanding, symbols_left>>
      /\ popped => /\ worklist' = Front(worklist) /\ expanding' = Last(worklist)
                   /\ symbols_left' = SymbolsFrom(expanding'[2])
                   /\ at' = IF expanding'[2] = {} THEN "done" ELSE "loop"
  BY DEF Pop
<1>2. ~Coming /\ ~Coming' /\ nfa' = nfa /\ IsMachine(result)
  BY <1>1 DEF Coming, nfa, WithInv, WithTypes
<1>3. /\ WithTypes' /\ WithNames(g)' /\ KeptInv(g)' /\ CoveredInv(g)'
      /\ NewInv(g)' /\ Erasing(g)'
      /\ KeptStates(g)' = KeptStates(g) /\ Used(g) = KeptStates(g)
      /\ Used(g)' = KeptStates(g)
  BY <1>1, <1>2, IdleKeeps
<1>4. IsInput(nfa)
  BY NfaIsInput
<1>5. /\ worklist \in Seq(Nat \X SUBSET nfa.states)
      /\ \A k \in 1 .. Len(worklist) : /\ worklist[k][1] \in result.states
                                       /\ worklist[k][2] = g[worklist[k][1]]
  BY DEF WithInv, WithWork, IsPair
<1>6. popped => /\ Len(worklist) \in Nat /\ Len(worklist) >= 1
                /\ Last(worklist) = worklist[Len(worklist)]
                /\ worklist' \in Seq(Nat \X SUBSET nfa.states)
                /\ Len(worklist') = Len(worklist) - 1
                /\ \A k \in 1 .. Len(worklist) - 1 : worklist'[k] = worklist[k]
  <2> SUFFICES ASSUME popped PROVE <1>6!2
    OBVIOUS
  <2>1. PICK D, s : D = Nat \X SUBSET nfa.states /\ s = worklist
    OBVIOUS
  <2>2. s \in Seq(D) /\ s # << >> /\ worklist' = Front(s)
    BY <1>1, <1>5, <2>1
  <2>3. /\ Len(s) \in Nat /\ Len(s) >= 1 /\ Last(s) = s[Len(s)]
        /\ Front(s) \in Seq(D) /\ Len(Front(s)) = Len(s) - 1
        /\ \A k \in 1 .. Len(s) - 1 : Front(s)[k] = s[k]
    BY <2>2, FrontAndLast
  <2>4. QED
    BY <2>1, <2>2, <2>3
<1>7. popped => /\ expanding'[1] \in result.states /\ expanding'[2] = g[expanding'[1]]
                /\ expanding' = worklist[Len(worklist)]
  BY <1>1, <1>5, <1>6
<1>8. WithWork(g)'
  <2>1. CASE ~popped
    BY <1>1, <1>2, <2>1 DEF WithInv, WithWork, IsPair, IsNew
  <2>2. CASE popped
    <3>1. ASSUME NEW k \in 1 .. Len(worklist') PROVE IsPair(g, worklist[k])'
      <4>1. k \in 1 .. Len(worklist) /\ worklist'[k] = worklist[k]
        BY <1>6, <2>2
      <4>2. QED
        BY <1>1, <1>2, <1>5, <4>1 DEF IsPair, IsNew
    <3>2. IsPair(g, expanding)'
      BY <1>1, <1>2, <1>7, <2>2 DEF IsPair, IsNew
    <3>3. symbols_left' = SymbolsOut(nfa, expanding'[2])
      BY <1>1, <2>2, SymbolsFromIsOut
    <3>4. QED
      BY <1>1, <1>2, <1>6, <2>2, <3>1, <3>2, <3>3 DEF WithWork
  <2>3. QED
    BY <2>1, <2>2
<1>9. ASSUME NEW q \in Used(g), NEW a \in SymbolsIn(nfa),
             <<q, a>> \notin Owed(g)', <<q, a>> \in Owed(g)
      PROVE  Post(nfa, g[q], a) = {}
  <2>1. q \in result.states /\ Waits(g, q)
    BY <1>1, <1>2, <1>9 DEF Used, Owed, IsNew, Reading
  <2>2. PICK k \in 1 .. Len(worklist) : worklist[k][2] = g[q]
    BY <2>1 DEF Waits
  <2>3. popped
    BY <1>5, <2>2, EmptySeq
  <2>4. CASE at' = "done"
    <3>3. expanding'[2] = {}
      BY <1>1, <2>3, <2>4
    <3>1. {} \in MacrostatesIn(nfa)
      <4>1. PICK e \in result.states : g[e] = {}
        BY <1>7, <2>3, <3>3
      <4>2. g[e] \in MacrostatesIn(nfa)
        BY DEF WithInv, WithNames
      <4>3. QED
        BY <4>1, <4>2
    <3>2. g[q] = {}
      BY <1>4, <2>1, <3>1, EmptyIsAlone DEF WithInv, WithNames
    <3>4. QED
      BY <3>2 DEF Post
  <2>5. CASE at' # "done"
    <3>1. <<q, a>> \in result'.states \X SymbolsIn(nfa')
      BY <1>1, <1>2, <2>1
    <3>2. ~Waits(g, q)' /\ ~Reading(q, a)'
      BY <1>9, <2>5, <3>1 DEF Owed
    <3>3. k = Len(worklist)
      <4>1. ASSUME k # Len(worklist) PROVE FALSE
        <5>1. k \in 1 .. Len(worklist') /\ worklist'[k] = worklist[k]
          BY <1>6, <2>3, <4>1
        <5>2. QED
          BY <2>2, <3>2, <5>1 DEF Waits
      <4>2. QED
        BY <4>1
    <3>4. expanding'[1] = q
      BY <1>7, <2>1, <2>2, <2>3, <3>3 DEF WithInv, WithNames
    <3>5. a \notin SymbolsOut(nfa, g[q])
      BY <1>1, <1>7, <2>3, <3>2, <3>4, SymbolsFromIsOut DEF Reading
    <3>6. QED
      BY <3>5, NoSymbolNoPost
  <2>6. QED
    BY <2>4, <2>5
<1>10. WithBuilt(g)'
  <2>1. PICK O : O = Owed(g)'
    OBVIOUS
  <2>2. Built(nfa, result, g, Used(g), Owed(g))
    BY DEF WithInv, WithBuilt
  <2>3. Built(nfa, result, g, Used(g), O)
    BY <1>9, <2>1, <2>2, OwedLess
  <2>4. QED
    BY <1>1, <1>2, <1>3, <2>1, <2>3 DEF WithInv, WithBuilt
<1>11. QED
  BY <1>3, <1>8, <1>10 DEF WithInv

LEMMA LowestIsLeast ==
  ASSUME NEW T \in SUBSET Nat, T # {}
  PROVE  LowestOf(T) \in T /\ \A m \in T : LowestOf(T) <= m
BY LeastElement DEF LowestOf

(* What is connected to: a kept state, or what covers the state.            *)
ConnectedTo(covers, map, q) == IF q \in {map[S] : S \in DOMAIN map} THEN {q} ELSE covers[q]

LEMMA ConnectFields ==
  ASSUME NEW B, IsMachine(B), NEW map, NEW covers, NEW q,
         NEW C, C = Connect(B, covers, map, q)
  PROVE  IsMachine(C) /\ C.states = B.states /\ C.final = B.final
<1>1. CASE expanding[2] \in DOMAIN map
  <2>1. C = WithMoves(B, expanding[1], LowestOf(symbols_left), ConnectedTo(covers, map, q))
    BY <1>1 DEF Connect, WithMoves, ConnectedTo
  <2>2. PICK e, a, T : /\ e = expanding[1] /\ a = LowestOf(symbols_left)
                       /\ T = ConnectedTo(covers, map, q)
    OBVIOUS
  <2>3. QED
    BY <2>1, <2>2, MovedFields
<1>2. CASE expanding[2] \notin DOMAIN map
  BY <1>2 DEF Connect
<1>3. QED
  BY <1>1, <1>2

LEMMA ConnectKeeps ==
  ASSUME NEW g, NEW B, NEW L, NEW O, Built(nfa, B, g, L, O), IsMachine(B),
         NEW e, NEW a, e = expanding[1], a = LowestOf(symbols_left),
         NEW map, NEW covers, NEW q, NEW T, T = ConnectedTo(covers, map, q),
         NEW C, C = Connect(B, covers, map, q),
         e \in L <=> expanding[2] \in DOMAIN map,
         T \in SUBSET B.states, Makes(nfa, g, L, e, a, T),
         NEW O2, \A p \in L : \A b \in SymbolsIn(nfa) :
                   <<p, b>> \in O => <<p, b>> \in O2 \/ (p = e /\ b = a)
  PROVE  Built(nfa, C, g, L, O2)
<1>1. CASE e \in L
  <2>1. C = WithMoves(B, e, a, T)
    BY <1>1 DEF Connect, WithMoves, ConnectedTo
  <2>2. QED
    BY <1>1, <2>1, MovesKeepBuilt
<1>2. CASE e \notin L
  <2>1. C = B
    BY <1>2 DEF Connect
  <2>2. Built(nfa, B, g, L, O2)
    BY <1>2, OwedLess
  <2>3. QED
    BY <2>1, <2>2
<1>3. QED
  BY <1>1, <1>2

(* The macrostate that is read.                                             *)
TargetOf == Post(nfa, expanding[2], LowestOf(symbols_left))

LEMMA SymbolRead ==
  ASSUME NEW g, WithInv(g), job \in Jobs, symbols_left # {}
  PROVE  /\ expanding[1] \in result.states /\ expanding[2] = g[expanding[1]]
         /\ LowestOf(symbols_left) \in symbols_left
         /\ LowestOf(symbols_left) \in SymbolsOut(nfa, expanding[2])
         /\ TargetOf \in MacrostatesIn(nfa) /\ TargetOf # {}
<1>1. IsInput(nfa)
  BY NfaIsInput
<1>2. /\ expanding[1] \in result.states /\ expanding[2] = g[expanding[1]]
      /\ symbols_left \subseteq SymbolsOut(nfa, expanding[2])
  BY DEF WithInv, WithWork, IsPair
<1>3. PICK left : left = symbols_left
  OBVIOUS
<1>4. left \in SUBSET Nat /\ left # {}
  BY <1>1, <1>2, <1>3, SymbolsAreNumbers
<1>5. LowestOf(left) \in left
  BY <1>4, LowestIsLeast
<1>6. expanding[2] \in MacrostatesIn(nfa)
  BY <1>2 DEF WithInv, WithNames
<1>7. PICK S, a : S = expanding[2] /\ a = LowestOf(symbols_left)
  OBVIOUS
<1>8. a \in SymbolsOut(nfa, S)
  BY <1>2, <1>3, <1>5, <1>7
<1>9. Post(nfa, S, a) \in MacrostatesIn(nfa)
  BY <1>1, <1>6, <1>7, <1>8, MacrostatesHold
<1>10. Post(nfa, S, a) # {}
  BY <1>1, <1>8 DEF SymbolsOut, Post, IsInput, IsAutomaton
<1>11. QED
  BY <1>2, <1>3, <1>5, <1>7, <1>8, <1>9, <1>10 DEF TargetOf

(* A state of the target's macrostate, or what covers it, can be connected  *)
(* to.                                                                      *)
LEMMA ConnectionMakes ==
  ASSUME NEW A, NEW g, NEW L, NEW e, NEW a, NEW q, g[q] = Post(A, g[e], a), NEW T,
         \A t \in T : g[t] \subseteq g[q],
         \A x \in g[q] : \E r \in L : r \in T /\ x \in g[r]
  PROVE  Makes(A, g, L, e, a, T)
BY DEF Makes

LEMMA WithReadKnown ==
  ASSUME NEW g, WithInv(g), job \in Jobs, ReadSymbol,
         TargetOf \in DOMAIN subset_map \cup DOMAIN covered
  PROVE  WithInv(g)'
<1>1. PICK q, a, e : /\ q = IF TargetOf \in DOMAIN subset_map THEN subset_map[TargetOf]
                            ELSE covered[TargetOf]
                     /\ a = LowestOf(symbols_left) /\ e = expanding[1]
  OBVIOUS
<1>2. /\ at = "loop" /\ at' = "loop" /\ symbols_left # {}
      /\ result' = Connect(result, covering_indexes, subset_map, q)
      /\ symbols_left' = symbols_left \ {a}
      /\ UNCHANGED <<job, subset_map, covered, worklist, expanding, covering_states,
                     covering_indexes>>
  BY <1>1 DEF ReadSymbol, TargetOf
<1>3. ~Coming /\ ~Coming' /\ nfa' = nfa /\ IsMachine(result)
  BY <1>2 DEF Coming, nfa, WithInv, WithTypes
<1>4. /\ e \in result.states /\ expanding[2] = g[e] /\ a \in symbols_left
      /\ TargetOf = Post(nfa, g[e], a)
  BY <1>1, <1>2, SymbolRead DEF TargetOf
<1>5. q \in result.states /\ g[q] = TargetOf
  BY <1>1 DEF WithInv, WithNames
<1>6. Used(g) = KeptStates(g)
  BY <1>3 DEF Used, KeptStates, IsNew
<1>7. PICK T : T = ConnectedTo(covering_indexes, subset_map, q)
  OBVIOUS
<1>8. /\ T \in SUBSET result.states /\ \A t \in T : g[t] \subseteq g[q]
      /\ \A x \in g[q] : \E r \in Used(g) : r \in T /\ x \in g[r]
  <2>1. CASE TargetOf \in DOMAIN subset_map
    <3>1. T = {q}
      BY <1>1, <1>7, <2>1 DEF ConnectedTo
    <3>2. q \in Used(g)
      BY <1>5, <2>1 DEF Used
    <3>3. QED
      BY <1>5, <3>1, <3>2
  <2>2. CASE TargetOf \notin DOMAIN subset_map
    <3>1. q \notin {subset_map[S] : S \in DOMAIN subset_map}
      BY <1>5, <2>2 DEF WithInv, WithNames
    <3>2. T = covering_indexes[q] /\ q = covered[TargetOf] /\ TargetOf \in DOMAIN covered
      BY <1>1, <1>7, <2>2, <3>1 DEF ConnectedTo
    <3>3. \A t \in T : t \in result.states /\ g[t] \subseteq TargetOf
      BY <3>2 DEF WithInv, CoveredInv, CoveredBySmaller
    <3>4. \A x \in TargetOf : \E r \in Used(g) : r \in T /\ x \in g[r]
      BY <3>2 DEF WithInv, CoveredInv, CoveredByUsed
    <3>5. QED
      BY <1>5, <3>3, <3>4
  <2>3. QED
    BY <2>1, <2>2
<1>9. PICK L, O, O2 : L = Used(g) /\ O = Owed(g) /\ O2 = Owed(g)'
  OBVIOUS
<1>10. Makes(nfa, g, L, e, a, T)
  BY <1>4, <1>5, <1>8, <1>9, ConnectionMakes
<1>11. e \in L <=> expanding[2] \in DOMAIN subset_map
  BY <1>4, <1>6, <1>9 DEF KeptStates
<1>18. PICK C : C = result'
  OBVIOUS
<1>12. ASSUME NEW p \in L, NEW b \in SymbolsIn(nfa), <<p, b>> \in O,
              result'.states = result.states
       PROVE  <<p, b>> \in O2 \/ (p = e /\ b = a)
  <2>1. p \in result.states /\ (Waits(g, p) \/ Reading(p, b))
    BY <1>2, <1>3, <1>9, <1>12 DEF Owed, IsNew
  <2>2. Waits(g, p)' <=> Waits(g, p)
    BY <1>2 DEF Waits
  <2>3. Reading(p, b) => Reading(p, b)' \/ (p = e /\ b = a)
    BY <1>1, <1>2 DEF Reading
  <2>4. <<p, b>> \in result'.states \X SymbolsIn(nfa')
    BY <1>3, <1>12, <2>1
  <2>5. QED
    BY <1>2, <1>9, <2>1, <2>2, <2>3, <2>4 DEF Owed
<1>13. result'.states = result.states /\ IsMachine(result') /\ result'.final = result.final
  BY <1>2, <1>3, ConnectFields
<1>14. /\ WithTypes' /\ WithNames(g)' /\ KeptInv(g)' /\ CoveredInv(g)'
       /\ NewInv(g)' /\ Erasing(g)'
       /\ KeptStates(g)' = KeptStates(g) /\ Used(g)' = KeptStates(g)
  BY <1>2, <1>3, <1>13, IdleKeeps
<1>15. WithBuilt(g)'
  <2>1. Built(nfa, result, g, L, O) /\ FinalRight(nfa, result, g, KeptStates(g))
    BY <1>9 DEF WithInv, WithBuilt
  <2>2. Built(nfa, C, g, L, O2)
    BY <1>1, <1>2, <1>3, <1>7, <1>8, <1>10, <1>11, <1>12, <1>13, <1>18, <2>1, ConnectKeeps
  <2>3. Used(g)' = L
    BY <1>6, <1>9, <1>14
  <2>4. FinalRight(nfa, result', g, KeptStates(g))
    BY <1>13, <2>1 DEF FinalRight
  <2>5. QED
    BY <1>3, <1>9, <1>14, <1>18, <2>2, <2>3, <2>4 DEF WithBuilt
<1>16. WithWork(g)'
  <2>1. \A k \in 1 .. Len(worklist) : IsPair(g, worklist[k])'
    BY <1>2, <1>3, <1>13 DEF WithInv, WithWork, IsPair, IsNew
  <2>2. IsPair(g, expanding)'
    BY <1>2, <1>3, <1>13 DEF WithInv, WithWork, IsPair, IsNew
  <2>3. QED
    BY <1>2, <1>3, <2>1, <2>2 DEF WithInv, WithWork
<1>17. QED
  BY <1>14, <1>15, <1>16 DEF WithInv

LEMMA WithReadNew ==
  ASSUME NEW g, WithInv(g), job \in Jobs, ReadSymbol,
         TargetOf \notin DOMAIN subset_map \cup DOMAIN covered
  PROVE  \E h : WithInv(h)'
<1>1. PICK n, T, t : n = Cardinality(result.states) /\ T = TargetOf /\ t = target_res
  OBVIOUS
<1>2. /\ at = "loop" /\ at' = "check" /\ symbols_left # {}
      /\ result' = [result EXCEPT !.states = @ \cup {n}]
      /\ targets' = T
      /\ covering_states' = With(covering_states, n, {})
      /\ covering_indexes' = With(covering_indexes, n, {})
      /\ to_check' = DOMAIN subset_map
      /\ UNCHANGED <<job, subset_map, covered, worklist, expanding, symbols_left>>
  BY <1>1 DEF ReadSymbol, TargetOf
<1>3. /\ ~Coming /\ Coming' /\ nfa' = nfa /\ IsMachine(result) /\ at # "update" /\ at' # "update"
      /\ t \in Nat /\ result.states = 0 .. t
      /\ DOMAIN covering_states = result.states /\ DOMAIN covering_indexes = result.states
  BY <1>1, <1>2 DEF Coming, nfa, WithInv, WithTypes
<1>4. n = t + 1 /\ n \in Nat /\ n \notin result.states /\ result.states \cup {n} = 0 .. n
  <2>1. n = t + 1
    BY <1>1, <1>3, NumbersTo
  <2>2. QED
    BY <1>3, <2>1
<1>5. /\ result'.states = result.states \cup {n} /\ result'.initial = result.initial
      /\ result'.delta = result.delta /\ result'.final = result.final /\ IsMachine(result')
  <2>1. PICK B, C : B = result /\ C = result'
    OBVIOUS
  <2>2. B = [states |-> B.states, initial |-> B.initial, delta |-> B.delta, final |-> B.final]
    BY <1>3, <2>1 DEF IsMachine
  <2>3. C = [states |-> B.states \cup {n}, initial |-> B.initial, delta |-> B.delta,
             final |-> B.final]
    BY <1>2, <2>1, <2>2
  <2>4. QED
    BY <2>1, <2>3 DEF IsMachine
<1>6. target_res' = n
  <2>1. Cardinality(0 .. n) = n + 1
    BY <1>4, NumbersTo
  <2>2. result'.states = 0 .. n
    BY <1>4, <1>5
  <2>3. QED
    BY <1>4, <2>1, <2>2 DEF target_res
<1>7. /\ DOMAIN covering_states' = result.states \cup {n}
      /\ \A q \in result.states : covering_states'[q] = covering_states[q]
      /\ covering_states'[n] = {}
      /\ DOMAIN covering_indexes' = result.states \cup {n}
      /\ \A q \in result.states : covering_indexes'[q] = covering_indexes[q]
      /\ covering_indexes'[n] = {}
  BY <1>2, <1>3, <1>4 DEF With
<1>8. PICK h : (\A q \in result.states : h[q] = g[q]) /\ h[n] = T
  <2> DEFINE h == [q \in result.states \cup {n} |-> IF q = n THEN T ELSE g[q]]
  <2>1. (\A q \in result.states : h[q] = g[q]) /\ h[n] = T
    BY <1>4
  <2>2. QED
    BY <2>1
<1>9. /\ expanding[1] \in result.states /\ expanding[2] = g[expanding[1]]
      /\ T \in MacrostatesIn(nfa) /\ T # {}
      /\ T = Post(nfa, expanding[2], LowestOf(symbols_left))
      /\ T \notin DOMAIN subset_map /\ T \notin DOMAIN covered
  BY <1>1, <1>2, SymbolRead DEF TargetOf
<1>10. /\ \A q \in result.states : g[q] \in MacrostatesIn(nfa)
       /\ \A p, q \in result.states : g[p] = g[q] => p = q
       /\ \A S \in DOMAIN subset_map : /\ subset_map[S] \in result.states
                                       /\ g[subset_map[S]] = S /\ S \notin DOMAIN covered
       /\ \A S \in DOMAIN covered : covered[S] \in result.states /\ g[covered[S]] = S
       /\ \A q \in result.states : g[q] \in DOMAIN subset_map \/ g[q] \in DOMAIN covered
       /\ {} \notin DOMAIN covered
  BY <1>3 DEF WithInv, WithNames, IsNew
<1>11. /\ KeptStates(g) \subseteq result.states /\ n \notin KeptStates(g)
       /\ Used(g) = KeptStates(g)
       /\ KeptStates(h)' = KeptStates(g) /\ Used(h)' = KeptStates(g) \cup {n}
  BY <1>2, <1>3, <1>4, <1>5, <1>6, <1>8, <1>9 DEF KeptStates, Used, IsNew
<1>12. \A q \in KeptStates(g) : /\ q \in result.states /\ h[q] = g[q]
                                /\ covering_states'[q] = covering_states[q]
                                /\ covering_indexes'[q] = covering_indexes[q]
  BY <1>7, <1>8, <1>11
<1>13. WithTypes'
  BY <1>2, <1>4, <1>5, <1>6, <1>7 DEF WithTypes
<1>14. WithNames(h)'
  <2>1. \A q \in result'.states : h[q] \in MacrostatesIn(nfa')
    BY <1>3, <1>5, <1>8, <1>9, <1>10
  <2>2. \A p, q \in result'.states : h[p] = h[q] => p = q
    BY <1>5, <1>8, <1>9, <1>10
  <2>3. \A S \in DOMAIN subset_map : subset_map[S] \in result'.states /\ h[subset_map[S]] = S
    BY <1>5, <1>8, <1>10
  <2>4. \A S \in DOMAIN covered : covered[S] \in result'.states /\ h[covered[S]] = S
    BY <1>5, <1>8, <1>10
  <2>5. \A q \in result'.states :
          h[q] \in DOMAIN subset_map \/ h[q] \in DOMAIN covered \/ IsNew(q)'
    BY <1>3, <1>5, <1>6, <1>8, <1>10 DEF IsNew
  <2>6. QED
    BY <1>2, <1>10, <2>1, <2>2, <2>3, <2>4, <2>5 DEF WithNames
<1>15. KeptInv(h)'
  <2>1. CoversAreUsed(h)'
    BY <1>11, <1>12 DEF WithInv, KeptInv, CoversAreUsed
  <2>2. SmallerAreCovers(h)'
    BY <1>11, <1>12 DEF WithInv, KeptInv, SmallerAreCovers
  <2>3. NewIsCover(h)'
    <3>1. \A q \in KeptStates(h)' : h[q] \in to_check'
      BY <1>2, <1>11, <1>12 DEF KeptStates
    <3>2. QED
      BY <3>1 DEF NewIsCover
  <2>4. NoneIsCovered(h)'
    BY <1>3, <1>11, <1>12 DEF WithInv, KeptInv, NoneIsCovered
  <2>5. CoversAreSmaller(h)'
    BY <1>5, <1>8, <1>11, <1>12 DEF WithInv, KeptInv, CoversAreSmaller
  <2>6. QED
    BY <2>1, <2>2, <2>3, <2>4, <2>5 DEF KeptInv
<1>16. \A S \in DOMAIN covered :
         /\ covering_indexes'[covered[S]] = covering_indexes[covered[S]]
         /\ \A r \in covering_indexes[covered[S]] : r \in result.states /\ g[r] \subseteq S
  BY <1>7, <1>10 DEF WithInv, CoveredInv, CoveredBySmaller
<1>17. CoveredInv(h)'
  <2>1. CoveredBySmaller(h)'
    BY <1>2, <1>5, <1>8, <1>16 DEF CoveredBySmaller
  <2>2. CoveredByUsed(h)'
    BY <1>2, <1>11, <1>12, <1>16 DEF WithInv, CoveredInv, CoveredByUsed
  <2>3. QED
    BY <2>1, <2>2 DEF CoveredInv
<1>18. Built(nfa, result, g, Used(g), Owed(g)) /\ FinalRight(nfa, result, g, KeptStates(g))
  BY DEF WithInv, WithBuilt
<1>19. /\ \A m \in result.delta : m[1] \in result.states /\ m[3] \in result.states
       /\ result.initial \subseteq result.states
  BY <1>18 DEF Built, MovesFit, StartsRight
<1>20. NewInv(h)'
  <2>1. NewTarget(h)'
    BY <1>2, <1>3, <1>4, <1>5, <1>6, <1>8, <1>9, <1>19 DEF NewTarget
  <2>2. NewCovers(h)'
    <3>1. \A r \in KeptStates(h)' : h[r] \in to_check'
      BY <1>2, <1>11, <1>12 DEF KeptStates
    <3>2. QED
      BY <1>6, <1>7, <3>1 DEF NewCovers
  <2>3. IsUnused'
    BY <1>2, <1>4, <1>5, <1>6, <1>16, <1>19 DEF IsUnused
  <2>4. QED
    BY <2>1, <2>2, <2>3 DEF NewInv, NewIsNeeded
<1>21. Erasing(h)'
  BY <1>3 DEF Erasing
<1>22. WithWork(h)'
  <2>1. ASSUME NEW k \in 1 .. Len(worklist) PROVE IsPair(h, worklist[k])'
    <3>1. worklist[k][1] \in result.states /\ worklist[k][2] = g[worklist[k][1]]
      BY DEF WithInv, WithWork, IsPair
    <3>2. QED
      BY <1>2, <1>4, <1>5, <1>6, <1>8, <3>1 DEF IsPair, IsNew
  <2>2. IsPair(h, expanding)'
    BY <1>2, <1>4, <1>5, <1>6, <1>8, <1>9 DEF IsPair, IsNew
  <2>3. QED
    BY <1>2, <1>3, <2>1, <2>2 DEF WithInv, WithWork
<1>23. WithBuilt(h)'
  <2>1. PICK A, B, C, L, O, O2 : /\ A = nfa /\ B = result /\ C = result'
                                 /\ L = Used(g) /\ O = Owed(g) /\ O2 = Owed(h)'
    OBVIOUS
  <2>2. \A q \in result'.states : \A a \in SymbolsIn(nfa) :
          <<q, a>> \in O2 <=> IsNew(q)' \/ Waits(h, q)' \/ Reading(q, a)'
    BY <1>2, <1>3, <2>1 DEF Owed
  <2>3. \A a \in SymbolsIn(nfa) : <<n, a>> \in O2
    BY <1>3, <1>5, <1>6, <2>2 DEF IsNew
  <2>4. ASSUME NEW q \in L, NEW a \in SymbolsIn(nfa), <<q, a>> \in O PROVE <<q, a>> \in O2
    <3>1. q \in result.states /\ (Waits(g, q) \/ Reading(q, a))
      BY <1>2, <1>3, <2>1, <2>4 DEF Owed, IsNew
    <3>2. Waits(g, q) => Waits(h, q)'
      BY <1>2, <1>8, <3>1 DEF Waits
    <3>3. Reading(q, a) => Reading(q, a)'
      BY <1>2 DEF Reading
    <3>4. QED
      BY <1>5, <2>2, <3>1, <3>2, <3>3
  <2>5. Built(A, C, h, L \cup {n}, O2)
    <3>1. Built(A, B, g, L, O) /\ n \notin B.states /\ C.states = B.states \cup {n}
          /\ C.initial = B.initial /\ C.delta = B.delta /\ \A q \in B.states : h[q] = g[q]
      BY <1>4, <1>5, <1>8, <1>18, <2>1
    <3>2. /\ \A a \in SymbolsIn(A) : <<n, a>> \in O2
          /\ \A q \in L : \A a \in SymbolsIn(A) : <<q, a>> \in O => <<q, a>> \in O2
      BY <2>1, <2>3, <2>4
    <3>3. QED
      BY <3>1, <3>2, NewStateKeepsBuilt
  <2>6. FinalRight(nfa, result', h, KeptStates(g))
    BY <1>5, <1>12, <1>18 DEF FinalRight
  <2>7. QED
    BY <1>3, <1>11, <2>1, <2>5, <2>6 DEF WithBuilt
<1>24. WithInv(h)'
  BY <1>13, <1>14, <1>15, <1>17, <1>20, <1>21, <1>22, <1>23 DEF WithInv
<1>25. QED
  BY <1>24

(* While a macrostate is compared, the automaton stays as it is.            *)
LEMMA ComparingKeeps ==
  ASSUME NEW g, WithInv(g), Coming, Coming',
         UNCHANGED <<job, result, subset_map, covered, worklist, expanding, symbols_left, targets>>
  PROVE  /\ WithNames(g)' /\ WithWork(g)' /\ WithBuilt(g)'
         /\ KeptStates(g)' = KeptStates(g) /\ Used(g)' = Used(g)
         /\ target_res' = target_res /\ nfa' = nfa
<1>1. nfa' = nfa /\ target_res' = target_res
  BY DEF nfa, target_res
<1>2. \A q : IsNew(q)' <=> IsNew(q)
  BY <1>1 DEF IsNew
<1>3. KeptStates(g)' = KeptStates(g) /\ Used(g)' = Used(g)
  BY <1>2 DEF KeptStates, Used
<1>4. WithNames(g)'
  BY <1>1, <1>2 DEF WithInv, WithNames
<1>5. WithWork(g)'
  BY <1>1, <1>2 DEF WithInv, WithWork, IsPair
<1>6. Owed(g)' = Owed(g)
  <2>1. at # "done" /\ at' # "done"
    BY DEF Coming
  <2>2. \A q, a : (Waits(g, q)' <=> Waits(g, q)) /\ (Reading(q, a)' <=> Reading(q, a))
    BY DEF Waits, Reading
  <2>3. QED
    BY <1>1, <1>2, <2>1, <2>2 DEF Owed
<1>7. WithBuilt(g)'
  BY <1>1, <1>3, <1>6 DEF WithInv, WithBuilt
<1>8. QED
  BY <1>1, <1>3, <1>4, <1>5, <1>7

(* What is known while a macrostate is compared.                            *)
LEMMA ComparingFacts ==
  ASSUME NEW g, WithInv(g), Coming
  PROVE  /\ target_res \in result.states /\ target_res \notin KeptStates(g)
         /\ target_res \in Used(g) /\ KeptStates(g) \subseteq Used(g)
         /\ \A r \in Used(g) : r \in KeptStates(g) \/ r = target_res
         /\ Used(g) \subseteq result.states
         /\ g[target_res] = targets /\ targets # {}
         /\ \A S \in DOMAIN covered : covered[S] \notin Used(g)
         /\ \A S \in DOMAIN subset_map : subset_map[S] \in KeptStates(g) /\ g[subset_map[S]] = S
         /\ \A p, q \in result.states : g[p] = g[q] => p = q
<1>1. target_res \in result.states
  BY DEF WithInv, WithTypes
<1>2. /\ g[target_res] = targets /\ targets # {}
      /\ targets \notin DOMAIN subset_map /\ targets \notin DOMAIN covered
  BY DEF WithInv, NewInv, NewTarget
<1>3. /\ \A p, q \in result.states : g[p] = g[q] => p = q
      /\ \A S \in DOMAIN subset_map : /\ subset_map[S] \in result.states
                                      /\ g[subset_map[S]] = S /\ S \notin DOMAIN covered
      /\ \A S \in DOMAIN covered : covered[S] \in result.states /\ g[covered[S]] = S
  BY DEF WithInv, WithNames
<1>4. /\ target_res \notin KeptStates(g) /\ target_res \in Used(g)
      /\ KeptStates(g) \subseteq Used(g) /\ Used(g) \subseteq result.states
      /\ \A r \in Used(g) : r \in KeptStates(g) \/ r = target_res
  BY <1>1, <1>2 DEF KeptStates, Used, IsNew
<1>5. \A S \in DOMAIN covered : covered[S] \notin Used(g)
  BY <1>2, <1>3 DEF Used, IsNew
<1>6. \A S \in DOMAIN subset_map : subset_map[S] \in KeptStates(g)
  BY <1>3 DEF KeptStates
<1>7. QED
  BY <1>1, <1>2, <1>3, <1>4, <1>5, <1>6

LEMMA WithCompare ==
  ASSUME NEW g, WithInv(g), job \in Jobs, NEW S \in to_check, Compare(S)
  PROVE  WithInv(g)'
<1>1. PICK s, t, T : s = subset_map[S] /\ t = target_res /\ T = targets
  OBVIOUS
<1> DEFINE smaller == S \subseteq T
           larger == ~smaller /\ T \subseteq S
<1>2. /\ at = "check" /\ to_check' = to_check \ {S}
      /\ UNCHANGED <<job, result, subset_map, covered, worklist, expanding, symbols_left, targets>>
      /\ smaller => /\ covering_states' = [covering_states EXCEPT ![t] = @ \cup S]
                    /\ covering_indexes' = [covering_indexes EXCEPT ![t] = @ \cup {s}]
                    /\ at' = "check"
      /\ larger => /\ covering_states' = [covering_states EXCEPT ![s] = @ \cup T]
                   /\ covering_indexes' = [covering_indexes EXCEPT ![s] = @ \cup {t}]
                   /\ covering_states'[s] = S =>
                        at' = "update" /\ erase_state' = s /\ to_update' = DOMAIN covered
                   /\ covering_states'[s] # S => at' = "check"
      /\ ~smaller /\ ~larger => /\ UNCHANGED <<covering_states, covering_indexes>>
                                /\ at' = "check"
  BY <1>1 DEF Compare
<1>3. Coming /\ Coming'
  BY <1>2 DEF Coming
<1>4. /\ WithNames(g)' /\ WithWork(g)' /\ WithBuilt(g)'
      /\ KeptStates(g)' = KeptStates(g) /\ Used(g)' = Used(g)
      /\ target_res' = t /\ nfa' = nfa
  BY <1>1, <1>2, <1>3, ComparingKeeps
<1>5. PICK K, U : K = KeptStates(g) /\ U = Used(g)
  OBVIOUS
<1>6. /\ t \in result.states /\ t \notin K /\ t \in U /\ K \subseteq U
      /\ U \subseteq result.states
      /\ \A r \in U : r \in K \/ r = t
      /\ g[t] = T /\ T # {}
      /\ \A R \in DOMAIN covered : covered[R] \notin U
      /\ \A R \in DOMAIN subset_map : subset_map[R] \in K /\ g[subset_map[R]] = R
      /\ \A p, q \in result.states : g[p] = g[q] => p = q
  BY <1>1, <1>3, <1>5, ComparingFacts
<1>7. to_check \subseteq DOMAIN subset_map /\ T \notin DOMAIN subset_map
  BY <1>1, <1>3 DEF WithInv, NewInv, NewTarget
<1>8. s \in K /\ g[s] = S /\ s \in result.states /\ s # t /\ S # T /\ K \subseteq result.states
  BY <1>1, <1>6, <1>7
<1>9. /\ DOMAIN covering_states = result.states /\ DOMAIN covering_indexes = result.states
  BY DEF WithInv, WithTypes
<1>10. /\ DOMAIN covering_states' = result.states /\ DOMAIN covering_indexes' = result.states
       /\ \A q \in result.states : q # s /\ q # t =>
            covering_states'[q] = covering_states[q] /\ covering_indexes'[q] = covering_indexes[q]
       /\ ~smaller => covering_states'[t] = covering_states[t]
                      /\ covering_indexes'[t] = covering_indexes[t]
       /\ ~larger => covering_states'[s] = covering_states[s]
                     /\ covering_indexes'[s] = covering_indexes[s]
       /\ smaller => covering_states'[t] = covering_states[t] \cup S
                     /\ covering_indexes'[t] = covering_indexes[t] \cup {s}
       /\ larger => covering_states'[s] = covering_states[s] \cup T
                    /\ covering_indexes'[s] = covering_indexes[s] \cup {t}
  <2>1. CASE smaller
    BY <1>2, <1>6, <1>8, <1>9, <2>1
  <2>2. CASE larger
    BY <1>2, <1>6, <1>8, <1>9, <2>2
  <2>3. CASE ~smaller /\ ~larger
    BY <1>2, <1>9, <2>3
  <2>4. QED
    BY <2>1, <2>2, <2>3
<1> HIDE DEF smaller, larger
<1>11. (smaller => S \subseteq T) /\ (larger => T \subseteq S /\ ~(S \subseteq T))
       /\ (~smaller => ~(S \subseteq T)) /\ (T \subseteq S /\ ~larger => S \subseteq T)
  BY DEF smaller, larger
<1>12. /\ \A q \in K : \A x \in covering_states[q] :
            \E r \in U : r # q /\ g[r] \subseteq g[q] /\ x \in g[r]
       /\ \A q, r \in K : r # q /\ g[r] \subseteq g[q] =>
            g[r] \subseteq covering_states[q] /\ r \in covering_indexes[q]
       /\ \A q \in K : g[q] \notin to_check /\ T \subseteq g[q] =>
            T \subseteq covering_states[q] /\ t \in covering_indexes[q]
       /\ \A q \in K : covering_states[q] = g[q] => g[q] = {}
       /\ \A q \in K : \A r \in covering_indexes[q] :
            r \in result.states /\ r # q /\ g[r] \subseteq g[q]
  BY <1>1, <1>2, <1>3, <1>5 DEF WithInv, KeptInv, CoversAreUsed, SmallerAreCovers, NewIsCover,
     NoneIsCovered, CoversAreSmaller
<1>13. /\ \A x \in covering_states[t] : \E r \in K : g[r] \subseteq T /\ x \in g[r]
       /\ \A r \in K : g[r] \notin to_check /\ g[r] \subseteq T =>
            g[r] \subseteq covering_states[t] /\ r \in covering_indexes[t]
       /\ \A r \in covering_indexes[t] : r \in K /\ g[r] \subseteq T
  BY <1>1, <1>3, <1>5 DEF WithInv, NewInv, NewCovers
<1>14. \A q \in K : q # t /\ q \in result.states
  BY <1>6, <1>8
<1>15. \A q \in K : /\ covering_states[q] \subseteq covering_states'[q]
                    /\ covering_indexes[q] \subseteq covering_indexes'[q]
                    /\ q # s \/ ~larger => covering_states'[q] = covering_states[q]
                                           /\ covering_indexes'[q] = covering_indexes[q]
  BY <1>10, <1>14
<1>16. CoversAreUsed(g)'
  <2> SUFFICES ASSUME NEW q \in K, NEW x \in covering_states'[q]
               PROVE  \E r \in U : r # q /\ g[r] \subseteq g[q] /\ x \in g[r]
    BY <1>4, <1>5 DEF CoversAreUsed
  <2>1. CASE x \in covering_states[q]
    BY <1>12, <2>1
  <2>2. CASE x \notin covering_states[q]
    <3>1. q = s /\ larger /\ x \in T
      BY <1>10, <1>15, <2>2
    <3>2. QED
      BY <1>6, <1>8, <1>11, <3>1
  <2>3. QED
    BY <2>1, <2>2
<1>17. SmallerAreCovers(g)'
  BY <1>4, <1>5, <1>12, <1>15 DEF SmallerAreCovers
<1>18. NewIsCover(g)'
  <2> SUFFICES ASSUME NEW q \in K, g[q] \notin to_check', T \subseteq g[q]
               PROVE  T \subseteq covering_states'[q] /\ t \in covering_indexes'[q]
    BY <1>1, <1>2, <1>4, <1>5 DEF NewIsCover
  <2>1. CASE g[q] \notin to_check
    BY <1>12, <1>15, <2>1
  <2>2. CASE g[q] \in to_check
    <3>1. q = s
      BY <1>2, <1>6, <1>8, <1>14, <2>2
    <3>2. larger
      BY <1>8, <1>11, <3>1
    <3>3. QED
      BY <1>10, <3>1, <3>2
  <2>3. QED
    BY <2>1, <2>2
<1>19. at' = "update" => larger /\ covering_states'[s] = S /\ erase_state' = s /\ to_update' = DOMAIN covered
  BY <1>2 DEF larger
<1>20. NoneIsCovered(g)'
  <2> SUFFICES ASSUME NEW q \in K, covering_states'[q] = g[q], g[q] # {}
               PROVE  at' = "update" /\ q = erase_state'
    BY <1>4, <1>5 DEF NoneIsCovered
  <2>1. q = s /\ larger
    BY <1>12, <1>15
  <2>2. QED
    BY <1>2, <1>8, <2>1 DEF larger
<1>21. CoversAreSmaller(g)'
  <2> SUFFICES ASSUME NEW q \in K, NEW r \in covering_indexes'[q]
               PROVE  r \in result.states /\ r # q /\ g[r] \subseteq g[q]
    BY <1>2, <1>4, <1>5 DEF CoversAreSmaller
  <2>1. CASE r \in covering_indexes[q]
    BY <1>12, <2>1
  <2>2. CASE r \notin covering_indexes[q]
    <3>1. q = s /\ larger /\ r = t
      BY <1>10, <1>15, <2>2
    <3>2. QED
      BY <1>6, <1>8, <1>11, <3>1
  <2>3. QED
    BY <2>1, <2>2
<1>22. \A R \in DOMAIN covered : /\ covered[R] \in result.states
                                 /\ covering_indexes'[covered[R]] = covering_indexes[covered[R]]
  <2>1. \A R \in DOMAIN covered : covered[R] \in result.states
    BY DEF WithInv, WithNames
  <2>2. QED
    BY <1>6, <1>8, <1>10, <2>1
<1>23. CoveredInv(g)'
  <2>1. CoveredBySmaller(g)'
    BY <1>2, <1>22 DEF WithInv, CoveredInv, CoveredBySmaller
  <2>2. CoveredByUsed(g)'
    BY <1>2, <1>4, <1>22 DEF WithInv, CoveredInv, CoveredByUsed
  <2>3. QED
    BY <2>1, <2>2 DEF CoveredInv
<1>24. NewTarget(g)'
  BY <1>1, <1>2, <1>3, <1>4 DEF WithInv, NewInv, NewTarget
<1>25. NewCovers(g)'
  <2>1. ASSUME NEW x \in covering_states'[t] PROVE \E r \in K : g[r] \subseteq T /\ x \in g[r]
    BY <1>8, <1>10, <1>11, <1>13
  <2>2. ASSUME NEW r \in K, g[r] \notin to_check', g[r] \subseteq T
        PROVE  g[r] \subseteq covering_states'[t] /\ r \in covering_indexes'[t]
    <3>1. CASE g[r] \notin to_check
      BY <1>10, <1>13, <2>2, <3>1
    <3>2. CASE g[r] \in to_check
      <4>1. r = s
        BY <1>2, <1>6, <1>8, <1>14, <2>2, <3>2
      <4>2. smaller
        BY <1>8, <1>11, <2>2, <4>1
      <4>3. QED
        BY <1>8, <1>10, <4>1, <4>2
    <3>3. QED
      BY <3>1, <3>2
  <2>3. ASSUME NEW r \in covering_indexes'[t] PROVE r \in K /\ g[r] \subseteq T
    BY <1>8, <1>10, <1>11, <1>13
  <2>4. QED
    BY <1>1, <1>2, <1>4, <1>5, <2>1, <2>2, <2>3 DEF NewCovers
<1>26. IsNeeded(g)' <=> IsNeeded(g)
  BY <1>2, <1>4 DEF IsNeeded
<1>27. NewInv(g)'
  <2>1. IsUnused => IsUnused'
    BY <1>1, <1>2, <1>4, <1>22 DEF IsUnused
  <2>2. NewIsNeeded(g)'
    BY <1>3, <1>26, <2>1 DEF WithInv, NewInv, NewIsNeeded
  <2>3. QED
    BY <1>24, <1>25, <2>2 DEF NewInv
<1>28. Erasing(g)'
  <2> SUFFICES ASSUME at' = "update" PROVE Erasing(g)'
    BY DEF Erasing
  <2>1. larger /\ covering_states'[s] = S /\ erase_state' = s /\ to_update' = DOMAIN covered
    BY <1>19
  <2>2. S # {}
    BY <1>6, <1>11, <2>1
  <2>3. PICK x \in T : x \notin covering_states[s]
    <3>1. SUFFICES ASSUME T \subseteq covering_states[s] PROVE FALSE
      OBVIOUS
    <3>2. covering_states'[s] = covering_states[s] \cup T
      BY <1>10, <2>1
    <3>3. covering_states[s] = g[s]
      BY <1>8, <2>1, <3>1, <3>2
    <3>4. g[s] = {}
      BY <1>8, <1>12, <3>3
    <3>5. QED
      BY <1>8, <2>2, <3>4
  <2>4. ASSUME NEW r \in K, g[r] \subseteq T PROVE x \notin g[r]
    <3>1. r # s /\ g[r] \subseteq g[s]
      BY <1>8, <1>11, <2>1, <2>4
    <3>2. QED
      BY <1>8, <1>12, <2>3, <3>1
  <2>5. IsNeeded(g)
    BY <1>1, <1>5, <2>3, <2>4 DEF IsNeeded
  <2>6. /\ s \in KeptStates(g)' /\ g[s] \notin to_check' /\ targets' \subseteq g[s]
        /\ covering_states'[s] = g[s]
    BY <1>1, <1>2, <1>4, <1>5, <1>8, <1>11, <2>1
  <2>7. QED
    BY <1>2, <1>26, <2>1, <2>5, <2>6 DEF Erasing
<1>29. WithTypes'
  BY <1>1, <1>2, <1>3, <1>4, <1>10 DEF WithInv, WithTypes, Coming
<1>30. KeptInv(g)'
  BY <1>16, <1>17, <1>18, <1>20, <1>21 DEF KeptInv
<1>31. QED
  BY <1>4, <1>23, <1>27, <1>28, <1>29, <1>30 DEF WithInv

(* What is below a macrostate that is being erased covers it.               *)
CoversErased(g) ==
  \A x \in g[erase_state] :
    \E r \in Used(g) : /\ r \in covering_indexes[erase_state] /\ r # erase_state
                       /\ g[r] \subseteq g[erase_state] /\ x \in g[r]

LEMMA CoverOfErased ==
  ASSUME NEW g, WithInv(g), at = "update"
  PROVE  CoversErased(g)
<1>1. PICK e, t, T, K, U : /\ e = erase_state /\ t = target_res /\ T = targets
                           /\ K = KeptStates(g) /\ U = Used(g)
  OBVIOUS
<1>2. Coming
  BY DEF Coming
<1>3. /\ e \in K /\ g[e] \notin to_check /\ T \subseteq g[e] /\ covering_states[e] = g[e]
  BY <1>1 DEF WithInv, Erasing
<1>4. /\ \A r \in U : r \in K \/ r = t
      /\ g[t] = T
  BY <1>1, <1>2, ComparingFacts
<1>5. /\ \A q \in K : \A x \in covering_states[q] :
            \E r \in U : r # q /\ g[r] \subseteq g[q] /\ x \in g[r]
      /\ \A q, r \in K : r # q /\ g[r] \subseteq g[q] => r \in covering_indexes[q]
      /\ \A q \in K : g[q] \notin to_check /\ T \subseteq g[q] => t \in covering_indexes[q]
  BY <1>1, <1>2 DEF WithInv, KeptInv, CoversAreUsed, SmallerAreCovers, NewIsCover
<1>6. ASSUME NEW x \in g[e]
      PROVE  \E r \in U : r \in covering_indexes[e] /\ r # e /\ g[r] \subseteq g[e] /\ x \in g[r]
  <2>1. PICK r \in U : r # e /\ g[r] \subseteq g[e] /\ x \in g[r]
    BY <1>3, <1>5
  <2>2. r \in covering_indexes[e]
    BY <1>3, <1>4, <1>5, <2>1
  <2>3. QED
    BY <2>1, <2>2
<1>7. QED
  BY <1>1, <1>6 DEF CoversErased

(* What Replaced does, entry by entry.                                      *)
LEMMA ReplacedFields ==
  ASSUME NEW ci, NEW c \in DOMAIN ci, NEW e \in DOMAIN ci, c # e,
         NEW new, new = Replaced(ci, c, e)
  PROVE  /\ DOMAIN new = DOMAIN ci
         /\ \A q \in DOMAIN ci : q # c /\ q # e => new[q] = ci[q]
         /\ e \in ci[c] => new[c] = (ci[c] \ {e}) \cup ci[e]
         /\ e \notin ci[c] => new[c] = ci[c]
         /\ c \in ci[e] => new[e] = (ci[e] \ {c}) \cup new[c]
         /\ c \notin ci[e] => new[e] = ci[e]
<1> DEFINE mid == IF e \in ci[c] THEN [ci EXCEPT ![c] = (@ \ {e}) \cup ci[e]] ELSE ci
<1>1. new = IF c \in mid[e] THEN [mid EXCEPT ![e] = (@ \ {c}) \cup mid[c]] ELSE mid
  BY DEF Replaced
<1>2. /\ DOMAIN mid = DOMAIN ci
      /\ \A q \in DOMAIN ci : q # c => mid[q] = ci[q]
      /\ e \in ci[c] => mid[c] = (ci[c] \ {e}) \cup ci[e]
      /\ e \notin ci[c] => mid[c] = ci[c]
  OBVIOUS
<1> HIDE DEF mid
<1>3. /\ DOMAIN new = DOMAIN mid
      /\ \A q \in DOMAIN mid : q # e => new[q] = mid[q]
      /\ c \in mid[e] => new[e] = (mid[e] \ {c}) \cup mid[c]
      /\ c \notin mid[e] => new[e] = mid[e]
  BY <1>1, <1>2
<1>4. new[c] = mid[c] /\ mid[e] = ci[e]
  BY <1>2, <1>3
<1>5. QED
  BY <1>2, <1>3, <1>4

LEMMA WithUpdate ==
  ASSUME NEW g, WithInv(g), job \in Jobs, NEW S \in to_update, Update(S)
  PROVE  WithInv(g)'
<1>1. PICK c, e, t, T, K, U : /\ c = covered[S] /\ e = erase_state /\ t = target_res
                              /\ T = targets /\ K = KeptStates(g) /\ U = Used(g)
  OBVIOUS
<1>2. /\ at = "update" /\ at' = "update"
      /\ to_update' = to_update \ {S}
      /\ covering_indexes' = Replaced(covering_indexes, c, e)
      /\ UNCHANGED <<job, result, subset_map, covered, worklist, expanding, symbols_left, targets>>
      /\ UNCHANGED <<covering_states, to_check, erase_state>>
  BY <1>1 DEF Update
<1>3. Coming /\ Coming'
  BY <1>2 DEF Coming
<1>4. /\ WithNames(g)' /\ WithWork(g)' /\ WithBuilt(g)'
      /\ KeptStates(g)' = K /\ Used(g)' = U
      /\ target_res' = t /\ nfa' = nfa
  BY <1>1, <1>2, <1>3, ComparingKeeps
<1>5. /\ t \in result.states /\ t \notin K /\ t \in U /\ K \subseteq U
      /\ U \subseteq result.states
      /\ \A R \in DOMAIN covered : covered[R] \notin U
      /\ \A p, q \in result.states : g[p] = g[q] => p = q
  BY <1>1, <1>3, ComparingFacts
<1>6. /\ e \in K /\ g[e] \notin to_check /\ T \subseteq g[e] /\ covering_states[e] = g[e]
      /\ to_update \subseteq DOMAIN covered
      /\ \A R \in DOMAIN covered : R \notin to_update => e \notin covering_indexes[covered[R]]
  BY <1>1, <1>2 DEF WithInv, Erasing
<1>7. /\ \A R \in DOMAIN covered : covered[R] \in result.states /\ g[covered[R]] = R
      /\ DOMAIN covering_indexes = result.states /\ DOMAIN covering_states = result.states
  BY DEF WithInv, WithNames, WithTypes
<1>8. c \in result.states /\ g[c] = S /\ c \notin U /\ c # e /\ c # t /\ e # t /\ e \in result.states
      /\ S \in DOMAIN covered
  BY <1>1, <1>5, <1>6, <1>7
<1>9. /\ DOMAIN covering_indexes' = result.states
      /\ \A q \in result.states : q # c /\ q # e => covering_indexes'[q] = covering_indexes[q]
      /\ e \in covering_indexes[c] =>
           covering_indexes'[c] = (covering_indexes[c] \ {e}) \cup covering_indexes[e]
      /\ e \notin covering_indexes[c] => covering_indexes'[c] = covering_indexes[c]
      /\ c \in covering_indexes[e] =>
           covering_indexes'[e] = (covering_indexes[e] \ {c}) \cup covering_indexes'[c]
      /\ c \notin covering_indexes[e] => covering_indexes'[e] = covering_indexes[e]
  <2>1. PICK ci, new : ci = covering_indexes /\ new = covering_indexes'
    OBVIOUS
  <2>2. DOMAIN ci = result.states /\ new = Replaced(ci, c, e) /\ c \in DOMAIN ci /\ e \in DOMAIN ci
    BY <1>2, <1>7, <1>8, <2>1
  <2>3. /\ DOMAIN new = DOMAIN ci
        /\ \A q \in DOMAIN ci : q # c /\ q # e => new[q] = ci[q]
        /\ e \in ci[c] => new[c] = (ci[c] \ {e}) \cup ci[e]
        /\ e \notin ci[c] => new[c] = ci[c]
        /\ c \in ci[e] => new[e] = (ci[e] \ {c}) \cup new[c]
        /\ c \notin ci[e] => new[e] = ci[e]
    BY <1>8, <2>2, ReplacedFields
  <2>4. QED
    BY <2>1, <2>2, <2>3
<1>10. /\ \A q \in K : \A r \in covering_indexes[q] :
             r \in result.states /\ r # q /\ g[r] \subseteq g[q]
       /\ \A R \in DOMAIN covered : \A r \in covering_indexes[covered[R]] :
             r \in result.states /\ g[r] \subseteq R
  BY <1>1 DEF WithInv, KeptInv, CoversAreSmaller, CoveredInv, CoveredBySmaller
<1>11. /\ \A r \in covering_indexes[e] : r \in result.states /\ r # e /\ g[r] \subseteq g[e]
       /\ \A r \in covering_indexes[c] : r \in result.states /\ g[r] \subseteq S
  BY <1>1, <1>6, <1>8, <1>10
<1>12. /\ e \notin covering_indexes'[c]
       /\ \A r \in covering_indexes'[c] : r \in result.states /\ g[r] \subseteq S
  <2>1. CASE e \in covering_indexes[c]
    <3>1. g[e] \subseteq S
      BY <1>11, <2>1
    <3>2. QED
      BY <1>9, <1>11, <2>1, <3>1
  <2>2. CASE e \notin covering_indexes[c]
    BY <1>9, <1>11, <2>2
  <2>3. QED
    BY <2>1, <2>2
<1>13. \A r \in covering_indexes'[e] : r \in result.states /\ r # e /\ g[r] \subseteq g[e]
  <2>1. CASE c \in covering_indexes[e]
    <3>1. S \subseteq g[e]
      BY <1>8, <1>11, <2>1
    <3>2. QED
      BY <1>9, <1>11, <1>12, <2>1, <3>1
  <2>2. CASE c \notin covering_indexes[e]
    BY <1>9, <1>11, <2>2
  <2>3. QED
    BY <2>1, <2>2
<1>14. /\ \A r \in U : r \in covering_indexes[e] => r \in covering_indexes'[e]
       /\ \A r \in U : r # e /\ r \in covering_indexes[c] => r \in covering_indexes'[c]
       /\ e \in covering_indexes[c] => covering_indexes[e] \subseteq covering_indexes'[c]
  BY <1>8, <1>9
<1>15. \A q \in K : /\ \A r \in U : r \in covering_indexes[q] => r \in covering_indexes'[q]
                    /\ q \in result.states /\ q # c
  BY <1>5, <1>8, <1>9, <1>14
<1>16. KeptInv(g)'
  <2>1. CoversAreUsed(g)'
    BY <1>1, <1>2, <1>4 DEF WithInv, KeptInv, CoversAreUsed
  <2>2. SmallerAreCovers(g)'
    BY <1>1, <1>2, <1>4, <1>5, <1>15 DEF WithInv, KeptInv, SmallerAreCovers
  <2>3. NewIsCover(g)'
    BY <1>1, <1>2, <1>3, <1>4, <1>5, <1>15 DEF WithInv, KeptInv, NewIsCover
  <2>4. NoneIsCovered(g)'
    BY <1>1, <1>2, <1>4 DEF WithInv, KeptInv, NoneIsCovered
  <2>5. CoversAreSmaller(g)'
    <3> SUFFICES ASSUME NEW q \in K, NEW r \in covering_indexes'[q]
                 PROVE  r \in result.states /\ r # q /\ g[r] \subseteq g[q]
      BY <1>2, <1>4 DEF CoversAreSmaller
    <3>1. CASE q = e
      BY <1>13, <3>1
    <3>2. CASE q # e
      BY <1>9, <1>10, <1>15, <3>2
    <3>3. QED
      BY <3>1, <3>2
  <2>6. QED
    BY <2>1, <2>2, <2>3, <2>4, <2>5 DEF KeptInv
<1>17. \A R \in DOMAIN covered :
         R # S => covering_indexes'[covered[R]] = covering_indexes[covered[R]]
  BY <1>5, <1>6, <1>7, <1>8, <1>9
<1>18. CoveredInv(g)'
  <2>1. CoveredBySmaller(g)'
    <3> SUFFICES ASSUME NEW R \in DOMAIN covered, NEW r \in covering_indexes'[covered[R]]
                 PROVE  r \in result.states /\ g[r] \subseteq R
      BY <1>2 DEF CoveredBySmaller
    <3>1. CASE R = S
      BY <1>1, <1>12, <3>1
    <3>2. CASE R # S
      BY <1>10, <1>17, <3>2
    <3>3. QED
      BY <3>1, <3>2
  <2>2. CoveredByUsed(g)'
    <3> SUFFICES ASSUME NEW R \in DOMAIN covered, NEW x \in R
                 PROVE  \E r \in U : r \in covering_indexes'[covered[R]] /\ x \in g[r]
      BY <1>2, <1>4 DEF CoveredByUsed
    <3>1. PICK r \in U : r \in covering_indexes[covered[R]] /\ x \in g[r]
      BY <1>1 DEF WithInv, CoveredInv, CoveredByUsed
    <3>2. CASE R # S
      BY <1>17, <3>1, <3>2
    <3>3. CASE R = S /\ r # e
      BY <1>1, <1>14, <3>1, <3>3
    <3>4. CASE R = S /\ r = e
      <4>1. CoversErased(g)
        BY <1>2, CoverOfErased
      <4>2. PICK u \in U : u \in covering_indexes[e] /\ x \in g[u]
        BY <1>1, <3>1, <3>4, <4>1 DEF CoversErased
      <4>3. u \in covering_indexes'[covered[R]]
        BY <1>1, <1>14, <3>1, <3>4, <4>2
      <4>4. QED
        BY <4>2, <4>3
    <3>5. QED
      BY <3>2, <3>3, <3>4
  <2>3. QED
    BY <2>1, <2>2 DEF CoveredInv
<1>19. covering_indexes'[t] = covering_indexes[t]
  BY <1>5, <1>8, <1>9
<1>20. IsNeeded(g) /\ IsNeeded(g)'
  <2>1. IsNeeded(g)
    BY <1>2 DEF WithInv, Erasing
  <2>2. QED
    BY <1>1, <1>2, <1>4, <2>1 DEF IsNeeded
<1>21. NewInv(g)'
  <2>1. NewTarget(g)'
    BY <1>1, <1>2, <1>3, <1>4 DEF WithInv, NewInv, NewTarget
  <2>2. NewCovers(g)'
    BY <1>1, <1>2, <1>3, <1>4, <1>19 DEF WithInv, NewInv, NewCovers
  <2>3. NewIsNeeded(g)'
    BY <1>20 DEF NewIsNeeded
  <2>4. QED
    BY <2>1, <2>2, <2>3 DEF NewInv
<1>22. Erasing(g)'
  <2>1. ASSUME NEW R \in DOMAIN covered, R \notin to_update' PROVE e \notin covering_indexes'[covered[R]]
    <3>1. CASE R = S
      BY <1>1, <1>12, <3>1
    <3>2. CASE R # S
      BY <1>2, <1>6, <1>17, <2>1, <3>2
    <3>3. QED
      BY <3>1, <3>2
  <2>2. QED
    BY <1>1, <1>2, <1>4, <1>6, <1>20, <2>1 DEF Erasing
<1>23. WithTypes'
  BY <1>1, <1>2, <1>4, <1>7, <1>9 DEF WithInv, WithTypes
<1>24. QED
  BY <1>4, <1>16, <1>18, <1>21, <1>22, <1>23 DEF WithInv

LEMMA WithMove ==
  ASSUME NEW g, WithInv(g), job \in Jobs, MoveToCovered
  PROVE  WithInv(g)'
<1>1. PICK e, t, T, K, U, S : /\ e = erase_state /\ t = target_res /\ T = targets
                              /\ K = KeptStates(g) /\ U = Used(g) /\ S = g[e]
  OBVIOUS
<1>2. /\ at = "update" /\ at' = "check" /\ to_update = {}
      /\ result' = remove_covered_state(result, covering_indexes[e], e)
      /\ UNCHANGED <<job, worklist, expanding, symbols_left, targets>>
      /\ UNCHANGED <<covering_states, covering_indexes, to_check>>
  BY <1>1 DEF MoveToCovered, withvars
<1>3. Coming /\ Coming' /\ nfa' = nfa
  BY <1>2 DEF Coming, nfa
<1>4. /\ t \in result.states /\ t \notin K /\ t \in U /\ K \subseteq U
      /\ U \subseteq result.states
      /\ \A r \in U : r \in K \/ r = t
      /\ g[t] = T /\ T # {}
      /\ \A R \in DOMAIN covered : covered[R] \notin U
      /\ \A p, q \in result.states : g[p] = g[q] => p = q
  BY <1>1, <1>3, ComparingFacts
<1>5. /\ e \in K /\ S \notin to_check /\ T \subseteq S /\ covering_states[e] = S
      /\ IsNeeded(g)
      /\ \A R \in DOMAIN covered : e \notin covering_indexes[covered[R]]
  BY <1>1, <1>2 DEF WithInv, Erasing
<1>6. /\ \A q \in result.states : g[q] \in MacrostatesIn(nfa)
      /\ \A R \in DOMAIN subset_map : /\ subset_map[R] \in result.states
                                      /\ g[subset_map[R]] = R /\ R \notin DOMAIN covered
      /\ \A R \in DOMAIN covered : covered[R] \in result.states /\ g[covered[R]] = R
      /\ \A q \in result.states : g[q] \in DOMAIN subset_map \/ g[q] \in DOMAIN covered \/ q = t
      /\ {} \notin DOMAIN covered
  BY <1>1 DEF WithInv, WithNames, IsNew
<1>7. e \in result.states /\ e # t /\ S # T /\ S # {} /\ S \in DOMAIN subset_map
      /\ subset_map[S] = e /\ S \notin DOMAIN covered
  <2>1. e \in result.states /\ e # t /\ S # {}
    BY <1>4, <1>5
  <2>2. S \in DOMAIN subset_map
    BY <1>1, <1>3, <1>5, <2>1 DEF KeptStates, IsNew
  <2>3. QED
    BY <1>1, <1>4, <1>6, <2>1, <2>2
<1>8. /\ DOMAIN subset_map' = DOMAIN subset_map \ {S}
      /\ \A R \in DOMAIN subset_map' : subset_map'[R] = subset_map[R]
      /\ DOMAIN covered' = DOMAIN covered \cup {S} /\ covered'[S] = e
      /\ \A R \in DOMAIN covered : covered'[R] = covered[R]
  <2>1. PICK Q : Q = CHOOSE R \in DOMAIN subset_map : subset_map[R] = e
    OBVIOUS
  <2>2. Q \in DOMAIN subset_map /\ subset_map[Q] = e
    BY <1>7, <2>1
  <2>3. Q = S
    BY <1>1, <1>6, <2>2
  <2>4. subset_map' = Without(subset_map, S) /\ covered' = With(covered, S, e)
    BY <1>1, <2>1, <2>3 DEF MoveToCovered
  <2>5. QED
    BY <1>7, <2>4 DEF With, Without
<1>9. IsMachine(result)
  BY DEF WithInv, WithTypes
<1>10. /\ result'.states = result.states /\ result'.final = result.final \ {e} /\ IsMachine(result')
       /\ MovesRemoved(result.delta, result'.delta, covering_indexes[e], e)
  <2>1. PICK B, C, N : B = result /\ C = result' /\ N = covering_indexes[e]
    OBVIOUS
  <2>2. C = remove_covered_state(B, N, e) /\ IsMachine(B)
    BY <1>2, <1>9, <2>1
  <2>3. /\ C.states = B.states /\ C.final = B.final \ {e} /\ IsMachine(C)
        /\ MovesRemoved(B.delta, C.delta, N, e)
    BY <2>2, RemovedFields
  <2>4. QED
    BY <2>1, <2>3
<1>11. /\ target_res' = t
       /\ \A q : IsNew(q) <=> q = t
       /\ \A q : IsNew(q)' <=> q = t
  BY <1>1, <1>3, <1>10 DEF target_res, IsNew
<1>12. KeptStates(g)' = K \ {e} /\ Used(g)' = U \ {e}
  <2>1. \A q \in result.states : g[q] = S => q = e
    BY <1>1, <1>4, <1>7
  <2>2. \A q \in result.states : g[q] \in DOMAIN subset_map' <=> g[q] \in DOMAIN subset_map /\ q # e
    BY <1>1, <1>8, <2>1
  <2>3. \A q : /\ q \in KeptStates(g)' <=> q \in K /\ q # e
               /\ q \in Used(g)' <=> q \in U /\ q # e
    BY <1>1, <1>7, <1>10, <1>11, <2>2 DEF KeptStates, Used
  <2>4. QED
    BY <2>3
<1>13. \A x \in S : \E r \in U : r \in covering_indexes[e] /\ r # e /\ g[r] \subseteq S /\ x \in g[r]
  BY <1>1, <1>2, CoverOfErased DEF CoversErased
<1>14. /\ \A q \in K : \A x \in covering_states[q] :
             \E r \in U : r # q /\ g[r] \subseteq g[q] /\ x \in g[r]
       /\ \A q \in K : covering_states[q] = g[q] => g[q] = {} \/ q = e
       /\ \A q \in K : \A r \in covering_indexes[q] :
             r \in result.states /\ r # q /\ g[r] \subseteq g[q]
  BY <1>1 DEF WithInv, KeptInv, CoversAreUsed, NoneIsCovered, CoversAreSmaller
<1>15. WithTypes'
  BY <1>1, <1>2, <1>10, <1>11 DEF WithInv, WithTypes
<1>16. WithNames(g)'
  <2>1. \A q \in result'.states : g[q] \in MacrostatesIn(nfa')
    BY <1>3, <1>6, <1>10
  <2>2. \A p, q \in result'.states : g[p] = g[q] => p = q
    BY <1>4, <1>10
  <2>3. \A R \in DOMAIN subset_map' : /\ subset_map'[R] \in result'.states
                                      /\ g[subset_map'[R]] = R /\ R \notin DOMAIN covered'
    BY <1>6, <1>8, <1>10
  <2>4. \A R \in DOMAIN covered' : covered'[R] \in result'.states /\ g[covered'[R]] = R
    BY <1>1, <1>6, <1>7, <1>8, <1>10
  <2>5. \A q \in result'.states :
          g[q] \in DOMAIN subset_map' \/ g[q] \in DOMAIN covered' \/ IsNew(q)'
    BY <1>6, <1>8, <1>10, <1>11
  <2>6. {} \notin DOMAIN covered'
    BY <1>6, <1>7, <1>8
  <2>7. QED
    BY <2>1, <2>2, <2>3, <2>4, <2>5, <2>6 DEF WithNames
<1>17. KeptInv(g)'
  <2>1. CoversAreUsed(g)'
    <3> SUFFICES ASSUME NEW q \in K \ {e}, NEW x \in covering_states[q]
                 PROVE  \E r \in U \ {e} : r # q /\ g[r] \subseteq g[q] /\ x \in g[r]
      BY <1>2, <1>12 DEF CoversAreUsed
    <3>1. PICK r \in U : r # q /\ g[r] \subseteq g[q] /\ x \in g[r]
      BY <1>14
    <3>2. CASE r # e
      BY <3>1, <3>2
    <3>3. CASE r = e
      <4>1. PICK u \in U : u # e /\ g[u] \subseteq S /\ x \in g[u]
        BY <1>1, <1>13, <3>1, <3>3
      <4>2. S \subseteq g[q]
        BY <1>1, <3>1, <3>3
      <4>3. u # q
        <5>1. q \in result.states /\ q # e
          BY <1>4
        <5>2. g[q] = S => q = e
          BY <1>1, <1>4, <1>7, <5>1
        <5>3. QED
          BY <4>1, <4>2, <5>1, <5>2
      <4>4. QED
        BY <4>1, <4>2, <4>3
    <3>4. QED
      BY <3>2, <3>3
  <2>2. SmallerAreCovers(g)'
    BY <1>1, <1>2, <1>12 DEF WithInv, KeptInv, SmallerAreCovers
  <2>3. NewIsCover(g)'
    BY <1>1, <1>2, <1>3, <1>11, <1>12 DEF WithInv, KeptInv, NewIsCover
  <2>4. NoneIsCovered(g)'
    BY <1>2, <1>12, <1>14 DEF NoneIsCovered
  <2>5. CoversAreSmaller(g)'
    BY <1>2, <1>10, <1>12, <1>14 DEF CoversAreSmaller
  <2>6. QED
    BY <2>1, <2>2, <2>3, <2>4, <2>5 DEF KeptInv
<1>18. CoveredInv(g)'
  <2>1. CoveredBySmaller(g)'
    <3> SUFFICES ASSUME NEW R \in DOMAIN covered', NEW r \in covering_indexes[covered'[R]]
                 PROVE  r \in result.states /\ g[r] \subseteq R
      BY <1>2, <1>10 DEF CoveredBySmaller
    <3>1. CASE R = S
      BY <1>1, <1>5, <1>8, <1>14, <3>1
    <3>2. CASE R # S
      BY <1>8, <3>2 DEF WithInv, CoveredInv, CoveredBySmaller
    <3>3. QED
      BY <3>1, <3>2
  <2>2. CoveredByUsed(g)'
    <3> SUFFICES ASSUME NEW R \in DOMAIN covered', NEW x \in R
                 PROVE  \E r \in U \ {e} : r \in covering_indexes[covered'[R]] /\ x \in g[r]
      BY <1>2, <1>12 DEF CoveredByUsed
    <3>1. CASE R = S
      BY <1>8, <1>13, <3>1
    <3>2. CASE R # S
      <4>1. R \in DOMAIN covered /\ covered'[R] = covered[R]
        BY <1>8, <3>2
      <4>2. PICK r \in U : r \in covering_indexes[covered[R]] /\ x \in g[r]
        BY <1>1, <4>1 DEF WithInv, CoveredInv, CoveredByUsed
      <4>3. r # e
        BY <1>5, <4>1, <4>2
      <4>4. QED
        BY <4>1, <4>2, <4>3
    <3>3. QED
      BY <3>1, <3>2
  <2>3. QED
    BY <2>1, <2>2 DEF CoveredInv
<1>19. NewInv(g)'
  <2>1. NewTarget(g)'
    <3>1. /\ to_check \subseteq DOMAIN subset_map
          /\ \A m \in result.delta : m[1] # t
          /\ symbols_left # {} /\ T = Post(nfa, expanding[2], LowestOf(symbols_left))
          /\ T \notin DOMAIN subset_map /\ T \notin DOMAIN covered
      BY <1>1, <1>3 DEF WithInv, NewInv, NewTarget
    <3>2. ASSUME NEW m \in result'.delta PROVE m[1] # t
      BY <1>10, <3>1 DEF MovesRemoved
    <3>3. to_check \subseteq DOMAIN subset_map'
      BY <1>5, <1>8, <3>1
    <3>4. T \notin DOMAIN subset_map' /\ T \notin DOMAIN covered'
      BY <1>7, <1>8, <3>1
    <3>5. QED
      BY <1>1, <1>2, <1>3, <1>4, <1>11, <3>1, <3>2, <3>3, <3>4 DEF NewTarget
  <2>2. ~(S \subseteq T)
    BY <1>5, <1>7
  <2>3. NewCovers(g)'
    <3>1. /\ \A x \in covering_states[t] : \E r \in K : g[r] \subseteq T /\ x \in g[r]
          /\ \A r \in K : g[r] \notin to_check /\ g[r] \subseteq T =>
               g[r] \subseteq covering_states[t] /\ r \in covering_indexes[t]
          /\ \A r \in covering_indexes[t] : r \in K /\ g[r] \subseteq T
      BY <1>1, <1>3 DEF WithInv, NewInv, NewCovers
    <3>2. \A r \in K : g[r] \subseteq T => r \in K \ {e}
      BY <1>1, <2>2
    <3>3. QED
      BY <1>1, <1>2, <1>11, <1>12, <3>1, <3>2 DEF NewCovers
  <2>4. NewIsNeeded(g)'
    <3>1. IsNeeded(g)'
      BY <1>1, <1>2, <1>5, <1>12 DEF IsNeeded
    <3>2. QED
      BY <3>1 DEF NewIsNeeded
  <2>5. QED
    BY <2>1, <2>3, <2>4 DEF NewInv
<1>20. Erasing(g)'
  BY <1>2 DEF Erasing
<1>21. WithWork(g)'
  <2>1. \A p : IsPair(g, p)' <=> IsPair(g, p)
    BY <1>10, <1>11 DEF IsPair
  <2>2. IsPair(g, expanding)' <=> IsPair(g, expanding)
    BY <1>2, <1>10, <1>11 DEF IsPair
  <2>3. \A k \in 1 .. Len(worklist) : IsPair(g, worklist[k])' <=> IsPair(g, worklist[k])
    BY <1>2, <1>10, <1>11 DEF IsPair
  <2>4. QED
    BY <1>2, <1>3, <2>2, <2>3 DEF WithInv, WithWork
<1>22. WithBuilt(g)'
  <2>1. PICK A, B, C, N, O : /\ A = nfa /\ B = result /\ C = result' /\ N = covering_indexes[e]
                             /\ O = Owed(g)
    OBVIOUS
  <2>2. Built(A, B, g, U, O) /\ FinalRight(A, B, g, K)
    BY <1>1, <2>1 DEF WithInv, WithBuilt
  <2>3. Owed(g)' = O
    <3>1. \A q, a : (Waits(g, q)' <=> Waits(g, q)) /\ (Reading(q, a)' <=> Reading(q, a))
      BY <1>2 DEF Waits, Reading
    <3>2. QED
      BY <1>2, <1>3, <1>10, <1>11, <2>1, <3>1 DEF Owed
  <2>4. N \in SUBSET B.states /\ TakesPlace(g, U, N, e)
    <3>1. \A r \in N : r \in B.states /\ r # e /\ g[r] \subseteq g[e]
      BY <1>5, <1>14, <2>1
    <3>2. \A x \in g[e] : \E r \in N : r \in U /\ x \in g[r]
      BY <1>1, <1>13, <2>1
    <3>3. QED
      BY <3>1, <3>2 DEF TakesPlace
  <2>5. C = remove_covered_state(B, N, e) /\ IsMachine(B)
    BY <1>2, <1>9, <2>1
  <2>6. Built(A, C, g, U \ {e}, O)
    BY <2>2, <2>4, <2>5, RemoveKeepsBuilt
  <2>7. FinalRight(A, C, g, K \ {e})
    BY <1>10, <2>1, <2>2 DEF FinalRight
  <2>8. QED
    BY <1>3, <1>12, <2>1, <2>3, <2>6, <2>7 DEF WithBuilt
<1>23. QED
  BY <1>15, <1>16, <1>17, <1>18, <1>19, <1>20, <1>21, <1>22 DEF WithInv

(* The comparison is over: what is known of the new macrostate.             *)
LEMMA EnterFacts ==
  ASSUME NEW g, WithInv(g), job \in Jobs, at = "check", to_check = {},
         NEW e, NEW a, e = expanding[1], a = LowestOf(symbols_left)
  PROVE  /\ e \in result.states /\ expanding[2] = g[e] /\ e # target_res
         /\ a \in symbols_left
         /\ targets = Post(nfa, g[e], a)
         /\ targets \notin DOMAIN subset_map /\ targets \notin DOMAIN covered
         /\ \A x \in covering_states[target_res] :
              \E r \in KeptStates(g) : g[r] \subseteq targets /\ x \in g[r]
         /\ \A r \in KeptStates(g) : g[r] \subseteq targets =>
              g[r] \subseteq covering_states[target_res] /\ r \in covering_indexes[target_res]
         /\ \A r \in covering_indexes[target_res] : r \in KeptStates(g) /\ g[r] \subseteq targets
         /\ \A q \in KeptStates(g) : targets \subseteq g[q] =>
              targets \subseteq covering_states[q] /\ target_res \in covering_indexes[q]
<1>1. Coming
  BY DEF Coming
<1>2. /\ symbols_left # {} /\ targets = Post(nfa, expanding[2], a)
      /\ targets \notin DOMAIN subset_map /\ targets \notin DOMAIN covered
  BY <1>1 DEF WithInv, NewInv, NewTarget
<1>3. e \in result.states /\ expanding[2] = g[e] /\ a \in symbols_left
  BY <1>2, SymbolRead
<1>4. e # target_res
  BY <1>1, <1>2 DEF WithInv, WithWork, IsPair, IsNew
<1>5. /\ \A x \in covering_states[target_res] :
           \E r \in KeptStates(g) : g[r] \subseteq targets /\ x \in g[r]
      /\ \A r \in KeptStates(g) : g[r] \subseteq targets =>
           g[r] \subseteq covering_states[target_res] /\ r \in covering_indexes[target_res]
      /\ \A r \in covering_indexes[target_res] : r \in KeptStates(g) /\ g[r] \subseteq targets
  BY <1>1 DEF WithInv, NewInv, NewCovers
<1>6. \A q \in KeptStates(g) : targets \subseteq g[q] =>
        targets \subseteq covering_states[q] /\ target_res \in covering_indexes[q]
  BY <1>1 DEF WithInv, KeptInv, NewIsCover
<1>7. QED
  BY <1>2, <1>3, <1>4, <1>5, <1>6

(* The moves that are owed: one less for the state that is expanded.        *)
LEMMA EnterOwes ==
  ASSUME NEW g, WithInv(g), at = "check", at' = "loop", nfa' = nfa,
         NEW e, NEW a, e = expanding[1], expanding' = expanding,
         symbols_left' = symbols_left \ {a}, result'.states = result.states,
         NEW L, L \subseteq result.states,
         worklist \in Seq(Nat \X SUBSET nfa.states),
         \/ worklist' = worklist /\ target_res \notin L
         \/ worklist' = Append(worklist, <<target_res, g[target_res]>>),
         NEW p \in L, NEW b \in SymbolsIn(nfa), <<p, b>> \in Owed(g)
  PROVE  <<p, b>> \in Owed(g)' \/ (p = e /\ b = a)
<1>1. p \in result.states /\ (IsNew(p) \/ Waits(g, p) \/ Reading(p, b))
  BY DEF Owed
<1>2. Reading(p, b) => Reading(p, b)' \/ (p = e /\ b = a)
  BY DEF Reading
<1>3. (IsNew(p) \/ Waits(g, p)) => Waits(g, p)'
  <2>1. CASE worklist' = worklist /\ target_res \notin L
    BY <2>1 DEF Waits, IsNew
  <2>2. CASE worklist' = Append(worklist, <<target_res, g[target_res]>>)
    <3>1. PICK w, y : w = worklist /\ y = <<target_res, g[target_res]>>
      OBVIOUS
    <3>2. /\ Len(Append(w, y)) = Len(w) + 1 /\ Append(w, y)[Len(w) + 1] = y
          /\ \A k \in 1 .. Len(w) : Append(w, y)[k] = w[k]
          /\ Len(w) \in Nat
      BY <3>1, AppendProperties
    <3>3. CASE IsNew(p)
      <4>1. p = target_res
        BY <3>3 DEF IsNew
      <4>2. worklist'[Len(w) + 1][2] = g[p] /\ Len(w) + 1 \in 1 .. Len(worklist')
        BY <2>2, <3>1, <3>2, <4>1
      <4>3. QED
        BY <4>2 DEF Waits
    <3>4. CASE Waits(g, p)
      <4>1. PICK k \in 1 .. Len(worklist) : worklist[k][2] = g[p]
        BY <3>4 DEF Waits
      <4>2. k \in 1 .. Len(worklist') /\ worklist'[k][2] = g[p]
        BY <2>2, <3>1, <3>2, <4>1
      <4>3. QED
        BY <4>2 DEF Waits
    <3>5. QED
      BY <3>3, <3>4
  <2>3. QED
    BY <2>1, <2>2
<1>4. <<p, b>> \in result'.states \X SymbolsIn(nfa')
  BY <1>1
<1>5. QED
  BY <1>1, <1>2, <1>3, <1>4 DEF Owed

(* The new macrostate is not covered.                                       *)
LEMMA WithEnterKept ==
  ASSUME NEW g, WithInv(g), job \in Jobs, EnterTarget,
         targets # covering_states[target_res]
  PROVE  WithInv(g)'
<1>1. PICK t, T, K, U, e, a : /\ t = target_res /\ T = targets /\ K = KeptStates(g) /\ U = Used(g)
                              /\ e = expanding[1] /\ a = LowestOf(symbols_left)
  OBVIOUS
<1>2. PICK map, B : /\ map = With(subset_map, T, t)
                    /\ B = IF T \cap nfa.final = {} THEN result
                           ELSE [result EXCEPT !.final = @ \cup {t}]
  OBVIOUS
<1>3. /\ at = "check" /\ at' = "loop" /\ to_check = {}
      /\ subset_map' = map
      /\ worklist' = Append(worklist, <<t, T>>)
      /\ result' = Connect(B, covering_indexes, map, t)
      /\ symbols_left' = symbols_left \ {a}
      /\ UNCHANGED <<job, covered, expanding, covering_states, covering_indexes>>
  BY <1>1, <1>2 DEF EnterTarget
<1>4. Coming /\ ~Coming' /\ nfa' = nfa /\ IsMachine(result)
  BY <1>3 DEF Coming, nfa, WithInv, WithTypes
<1>5. /\ t \in result.states /\ t \notin K /\ t \in U /\ K \subseteq U /\ U \subseteq result.states
      /\ \A r \in U : r \in K \/ r = t
      /\ g[t] = T /\ T # {}
      /\ \A p, q \in result.states : g[p] = g[q] => p = q
  BY <1>1, <1>4, ComparingFacts
<1>6. /\ e \in result.states /\ expanding[2] = g[e] /\ e # t
      /\ a \in symbols_left /\ T = Post(nfa, g[e], a)
      /\ T \notin DOMAIN subset_map /\ T \notin DOMAIN covered
      /\ \A x \in covering_states[t] : \E r \in K : g[r] \subseteq T /\ x \in g[r]
      /\ \A r \in K : g[r] \subseteq T => g[r] \subseteq covering_states[t] /\ r \in covering_indexes[t]
      /\ \A r \in covering_indexes[t] : r \in K /\ g[r] \subseteq T
      /\ \A q \in K : T \subseteq g[q] => T \subseteq covering_states[q] /\ t \in covering_indexes[q]
  BY <1>1, <1>3, EnterFacts
<1>7. /\ DOMAIN map = DOMAIN subset_map \cup {T} /\ map[T] = t
      /\ \A R \in DOMAIN subset_map : map[R] = subset_map[R]
  BY <1>2, <1>6 DEF With
<1>8. /\ IsMachine(B) /\ B.states = result.states /\ B.initial = result.initial
      /\ B.delta = result.delta
      /\ B.final = result.final \cup {q \in {t} : g[q] \cap nfa.final # {}}
  <2>1. PICK A : A = result
    OBVIOUS
  <2>2. A = [states |-> A.states, initial |-> A.initial, delta |-> A.delta, final |-> A.final]
    BY <1>4, <2>1 DEF IsMachine
  <2>3. CASE T \cap nfa.final = {}
    BY <1>2, <1>4, <1>5, <2>3
  <2>4. CASE T \cap nfa.final # {}
    <3>1. B = [states |-> A.states, initial |-> A.initial, delta |-> A.delta,
               final |-> A.final \cup {t}]
      BY <1>2, <2>1, <2>2, <2>4
    <3>2. QED
      BY <1>5, <2>1, <2>4, <3>1 DEF IsMachine
  <2>5. QED
    BY <2>3, <2>4
<1>9. result'.states = result.states /\ IsMachine(result') /\ result'.final = B.final
  BY <1>3, <1>8, ConnectFields
<1>10. target_res' = t /\ (\A q : ~IsNew(q)')
  BY <1>1, <1>4, <1>9 DEF target_res, IsNew
<1>11. KeptStates(g)' = U /\ Used(g)' = U
  <2>1. \A q \in result.states : g[q] = T <=> q = t
    BY <1>5
  <2>2. \A q : q \in U <=> q \in result.states /\ (g[q] \in DOMAIN subset_map \/ q = t)
    BY <1>1, <1>4 DEF Used, IsNew
  <2>3. \A q : /\ q \in KeptStates(g)' <=> q \in U
               /\ q \in Used(g)' <=> q \in U
    BY <1>3, <1>7, <1>9, <1>10, <2>1, <2>2 DEF KeptStates, Used
  <2>4. QED
    BY <2>3
<1>12. WithTypes'
  BY <1>1, <1>3, <1>9, <1>10 DEF WithInv, WithTypes
<1>13. /\ \A q \in result.states : g[q] \in MacrostatesIn(nfa)
       /\ \A R \in DOMAIN subset_map : /\ subset_map[R] \in result.states
                                       /\ g[subset_map[R]] = R /\ R \notin DOMAIN covered
       /\ \A R \in DOMAIN covered : covered[R] \in result.states /\ g[covered[R]] = R
       /\ \A q \in result.states : g[q] \in DOMAIN subset_map \/ g[q] \in DOMAIN covered \/ q = t
       /\ {} \notin DOMAIN covered
  BY <1>1 DEF WithInv, WithNames, IsNew
<1>14. WithNames(g)'
  <2>1. \A R \in DOMAIN map : map[R] \in result.states /\ g[map[R]] = R /\ R \notin DOMAIN covered
    BY <1>5, <1>6, <1>7, <1>13
  <2>2. \A q \in result.states : g[q] \in DOMAIN map \/ g[q] \in DOMAIN covered
    BY <1>5, <1>7, <1>13
  <2>3. QED
    BY <1>3, <1>4, <1>5, <1>9, <1>13, <2>1, <2>2 DEF WithNames
<1>15. KeptInv(g)'
  <2>1. CoversAreUsed(g)'
    <3> SUFFICES ASSUME NEW q \in U, NEW x \in covering_states[q]
                 PROVE  \E r \in U : r # q /\ g[r] \subseteq g[q] /\ x \in g[r]
      BY <1>3, <1>11 DEF CoversAreUsed
    <3>1. CASE q \in K
      BY <1>1, <3>1 DEF WithInv, KeptInv, CoversAreUsed
    <3>2. CASE q = t
      BY <1>5, <1>6, <3>2
    <3>3. QED
      BY <1>5, <3>1, <3>2
  <2>2. SmallerAreCovers(g)'
    <3> SUFFICES ASSUME NEW q \in U, NEW r \in U, r # q, g[r] \subseteq g[q]
                 PROVE  g[r] \subseteq covering_states[q] /\ r \in covering_indexes[q]
      BY <1>3, <1>11 DEF SmallerAreCovers
    <3>1. CASE q \in K /\ r \in K
      BY <1>1, <3>1 DEF WithInv, KeptInv, SmallerAreCovers
    <3>2. CASE q = t /\ r \in K
      BY <1>5, <1>6, <3>2
    <3>3. CASE q \in K /\ r = t
      BY <1>5, <1>6, <3>3
    <3>4. QED
      BY <1>5, <3>1, <3>2, <3>3
  <2>3. NewIsCover(g)'
    BY <1>4 DEF NewIsCover
  <2>4. NoneIsCovered(g)'
    <3>1. \A q \in K : covering_states[q] = g[q] => g[q] = {}
      BY <1>1, <1>3 DEF WithInv, KeptInv, NoneIsCovered
    <3>2. covering_states[t] # g[t]
      BY <1>1, <1>5
    <3>3. QED
      BY <1>3, <1>5, <1>11, <3>1, <3>2 DEF NoneIsCovered
  <2>5. CoversAreSmaller(g)'
    <3> SUFFICES ASSUME NEW q \in U, NEW r \in covering_indexes[q]
                 PROVE  r \in result.states /\ r # q /\ g[r] \subseteq g[q]
      BY <1>3, <1>9, <1>11 DEF CoversAreSmaller
    <3>1. CASE q \in K
      BY <1>1, <3>1 DEF WithInv, KeptInv, CoversAreSmaller
    <3>2. CASE q = t
      BY <1>5, <1>6, <3>2
    <3>3. QED
      BY <1>5, <3>1, <3>2
  <2>6. QED
    BY <2>1, <2>2, <2>3, <2>4, <2>5 DEF KeptInv
<1>16. CoveredInv(g)'
  <2>1. CoveredBySmaller(g)'
    BY <1>3, <1>9 DEF WithInv, CoveredInv, CoveredBySmaller
  <2>2. CoveredByUsed(g)'
    BY <1>1, <1>3, <1>11 DEF WithInv, CoveredInv, CoveredByUsed
  <2>3. QED
    BY <2>1, <2>2 DEF CoveredInv
<1>17. NewInv(g)' /\ Erasing(g)'
  BY <1>3, <1>4 DEF NewInv, NewTarget, NewCovers, NewIsNeeded, Erasing
<1>18. /\ worklist \in Seq(Nat \X SUBSET nfa.states)
       /\ \A k \in 1 .. Len(worklist) : worklist[k][1] \in result.states
                                        /\ worklist[k][2] = g[worklist[k][1]]
       /\ symbols_left \subseteq SymbolsOut(nfa, expanding[2])
  BY <1>6 DEF WithInv, WithWork, IsPair
<1>19. WithWork(g)'
  <2>1. PICK w, y, D : w = worklist /\ y = <<t, T>> /\ D = Nat \X SUBSET nfa.states
    OBVIOUS
  <2>2. w \in Seq(D) /\ y \in D
    <3>1. IsInput(nfa)
      BY NfaIsInput
    <3>2. T \in SUBSET nfa.states
      BY <1>5, <1>13, <3>1, MacrostatesHold
    <3>3. t \in Nat
      BY <1>1 DEF WithInv, WithTypes
    <3>4. QED
      BY <1>18, <2>1, <3>2, <3>3
  <2>3. /\ Append(w, y) \in Seq(D)
        /\ Len(Append(w, y)) = Len(w) + 1 /\ Append(w, y)[Len(w) + 1] = y
        /\ \A k \in 1 .. Len(w) : Append(w, y)[k] = w[k]
        /\ Len(w) \in Nat
    BY <2>2, AppendProperties
  <2>4. ASSUME NEW k \in 1 .. Len(worklist') PROVE IsPair(g, worklist[k])'
    <3>1. worklist'[k][1] \in result.states /\ worklist'[k][2] = g[worklist'[k][1]]
      <4>1. CASE k = Len(w) + 1
        BY <1>3, <1>5, <2>1, <2>3, <4>1
      <4>2. CASE k # Len(w) + 1
        BY <1>3, <1>18, <2>1, <2>3, <4>2
      <4>3. QED
        BY <4>1, <4>2
    <3>2. QED
      BY <1>3, <1>9, <1>10, <3>1 DEF IsPair
  <2>5. IsPair(g, expanding)'
    BY <1>1, <1>3, <1>6, <1>9, <1>10 DEF IsPair
  <2>6. QED
    BY <1>3, <1>4, <1>18, <2>1, <2>3, <2>4, <2>5 DEF WithWork
<1>20. WithBuilt(g)'
  <2>1. PICK A, C, O, O2, N : /\ A = nfa /\ C = result' /\ O = Owed(g) /\ O2 = Owed(g)'
                              /\ N = ConnectedTo(covering_indexes, map, t)
    OBVIOUS
  <2>2. Built(A, result, g, U, O) /\ FinalRight(A, result, g, K)
    BY <1>1, <2>1 DEF WithInv, WithBuilt
  <2>3. Built(A, B, g, U, O)
    BY <1>8, <2>2, OwedLess
  <2>4. N = {t}
    BY <1>7, <2>1 DEF ConnectedTo
  <2>5. Makes(A, g, U, e, a, N)
    BY <1>5, <1>6, <2>1, <2>4 DEF Makes
  <2>6. e \in U <=> expanding[2] \in DOMAIN map
    <3>1. e \in K <=> g[e] \in DOMAIN subset_map
      BY <1>1, <1>6 DEF KeptStates
    <3>2. g[e] # T
      BY <1>5, <1>6
    <3>3. QED
      BY <1>5, <1>6, <1>7, <3>1, <3>2
  <2>7. ASSUME NEW p \in U, NEW b \in SymbolsIn(A), <<p, b>> \in O
        PROVE  <<p, b>> \in O2 \/ (p = e /\ b = a)
    <3>1. worklist' = Append(worklist, <<target_res, g[target_res]>>)
      BY <1>1, <1>3, <1>5
    <3>2. b \in SymbolsIn(nfa) /\ <<p, b>> \in Owed(g)
      BY <2>1, <2>7
    <3>3. /\ at = "check" /\ at' = "loop" /\ nfa' = nfa
          /\ e = expanding[1] /\ expanding' = expanding
          /\ symbols_left' = symbols_left \ {a} /\ result'.states = result.states
          /\ U \subseteq result.states /\ worklist \in Seq(Nat \X SUBSET nfa.states)
      BY <1>1, <1>3, <1>4, <1>5, <1>9, <1>18
    <3>4. <<p, b>> \in Owed(g)' \/ (p = e /\ b = a)
      BY <3>1, <3>2, <3>3, EnterOwes
    <3>5. QED
      BY <2>1, <3>4
  <2>8. Built(A, C, g, U, O2)
    <3>1. C = Connect(B, covering_indexes, map, t) /\ N \in SUBSET B.states
      BY <1>3, <1>5, <1>8, <2>1, <2>4
    <3>2. QED
      BY <1>1, <1>8, <2>1, <2>3, <2>5, <2>6, <2>7, <3>1, ConnectKeeps
  <2>9. FinalRight(A, C, g, U)
    BY <1>5, <1>8, <1>9, <2>1, <2>2 DEF FinalRight
  <2>10. QED
    BY <1>4, <1>11, <2>1, <2>8, <2>9 DEF WithBuilt
<1>21. QED
  BY <1>12, <1>14, <1>15, <1>16, <1>17, <1>19, <1>20 DEF WithInv

(* The new macrostate is covered by smaller ones.                           *)
LEMMA WithEnterCovered ==
  ASSUME NEW g, WithInv(g), job \in Jobs, EnterTarget,
         targets = covering_states[target_res]
  PROVE  WithInv(g)'
<1>1. PICK t, T, K, U, e, a, N : /\ t = target_res /\ T = targets /\ K = KeptStates(g) /\ U = Used(g)
                                 /\ e = expanding[1] /\ a = LowestOf(symbols_left)
                                 /\ N = covering_indexes[t]
  OBVIOUS
<1>2. /\ at = "check" /\ at' = "loop" /\ to_check = {}
      /\ covered' = With(covered, T, t)
      /\ result' = Connect(result, covering_indexes, subset_map, t)
      /\ symbols_left' = symbols_left \ {a}
      /\ UNCHANGED <<job, subset_map, worklist, expanding, covering_states, covering_indexes>>
  BY <1>1 DEF EnterTarget
<1>3. Coming /\ ~Coming' /\ nfa' = nfa /\ IsMachine(result)
  BY <1>2 DEF Coming, nfa, WithInv, WithTypes
<1>4. /\ t \in result.states /\ t \notin K /\ t \in U /\ K \subseteq U /\ U \subseteq result.states
      /\ \A r \in U : r \in K \/ r = t
      /\ g[t] = T /\ T # {}
      /\ \A R \in DOMAIN subset_map : subset_map[R] \in K
      /\ \A p, q \in result.states : g[p] = g[q] => p = q
  BY <1>1, <1>3, ComparingFacts
<1>5. /\ e \in result.states /\ expanding[2] = g[e] /\ e # t
      /\ a \in symbols_left /\ T = Post(nfa, g[e], a)
      /\ T \notin DOMAIN subset_map /\ T \notin DOMAIN covered
      /\ \A x \in covering_states[t] : \E r \in K : g[r] \subseteq T /\ x \in g[r]
      /\ \A r \in K : g[r] \subseteq T => r \in covering_indexes[t]
      /\ \A r \in covering_indexes[t] : r \in K /\ g[r] \subseteq T
  BY <1>1, <1>2, EnterFacts
<1>6. \A x \in T : \E r \in K : r \in N /\ g[r] \subseteq T /\ x \in g[r]
  BY <1>1, <1>5
<1>7. /\ \A R \in DOMAIN covered : t \notin covering_indexes[covered[R]]
      /\ \A m \in result.delta : m[1] # t /\ m[3] # t
      /\ t \notin result.initial
  <2>1. ~IsNeeded(g)
    BY <1>1, <1>6 DEF IsNeeded
  <2>2. IsUnused
    BY <1>3, <2>1 DEF WithInv, NewInv, NewIsNeeded
  <2>3. \A m \in result.delta : m[1] # t
    BY <1>1, <1>3 DEF WithInv, NewInv, NewTarget
  <2>4. QED
    BY <1>1, <2>2, <2>3 DEF IsUnused
<1>8. /\ DOMAIN covered' = DOMAIN covered \cup {T} /\ covered'[T] = t
      /\ \A R \in DOMAIN covered : covered'[R] = covered[R]
  BY <1>2, <1>5 DEF With
<1>9. result'.states = result.states /\ IsMachine(result') /\ result'.final = result.final
  BY <1>2, <1>3, ConnectFields
<1>10. target_res' = t /\ (\A q : ~IsNew(q)')
  BY <1>1, <1>3, <1>9 DEF target_res, IsNew
<1>11. KeptStates(g)' = K /\ Used(g)' = K
  <2>1. KeptStates(g)' = K
    BY <1>1, <1>2, <1>9 DEF KeptStates
  <2>2. Used(g)' = KeptStates(g)'
    BY <1>10 DEF Used, KeptStates
  <2>3. QED
    BY <2>1, <2>2
<1>12. WithTypes'
  BY <1>1, <1>2, <1>9, <1>10 DEF WithInv, WithTypes
<1>13. /\ \A q \in result.states : g[q] \in MacrostatesIn(nfa)
       /\ \A R \in DOMAIN subset_map : /\ subset_map[R] \in result.states
                                       /\ g[subset_map[R]] = R /\ R \notin DOMAIN covered
       /\ \A R \in DOMAIN covered : covered[R] \in result.states /\ g[covered[R]] = R
       /\ \A q \in result.states : g[q] \in DOMAIN subset_map \/ g[q] \in DOMAIN covered \/ q = t
       /\ {} \notin DOMAIN covered
  BY <1>1 DEF WithInv, WithNames, IsNew
<1>14. WithNames(g)'
  <2>1. /\ \A R \in DOMAIN subset_map : R \notin DOMAIN covered'
        /\ \A R \in DOMAIN covered' : covered'[R] \in result.states /\ g[covered'[R]] = R
        /\ {} \notin DOMAIN covered'
    BY <1>4, <1>5, <1>8, <1>13
  <2>2. \A q \in result.states : g[q] \in DOMAIN subset_map \/ g[q] \in DOMAIN covered'
    BY <1>4, <1>8, <1>13
  <2>3. QED
    BY <1>2, <1>3, <1>4, <1>9, <1>13, <2>1, <2>2 DEF WithNames
<1>15. KeptInv(g)'
  <2>1. CoversAreUsed(g)'
    <3> SUFFICES ASSUME NEW q \in K, NEW x \in covering_states[q]
                 PROVE  \E r \in K : r # q /\ g[r] \subseteq g[q] /\ x \in g[r]
      BY <1>2, <1>11 DEF CoversAreUsed
    <3>1. PICK r \in U : r # q /\ g[r] \subseteq g[q] /\ x \in g[r]
      BY <1>1 DEF WithInv, KeptInv, CoversAreUsed
    <3>2. CASE r \in K
      BY <3>1, <3>2
    <3>3. CASE r = t
      <4>1. PICK u \in K : g[u] \subseteq T /\ x \in g[u]
        BY <1>4, <1>6, <3>1, <3>3
      <4>2. T \subseteq g[q]
        BY <1>4, <3>1, <3>3
      <4>3. u # q
        <5>1. q \in result.states /\ q # t
          BY <1>4
        <5>2. g[q] # T
          BY <1>4, <5>1
        <5>3. QED
          BY <4>1, <4>2, <5>2
      <4>4. QED
        BY <4>1, <4>2, <4>3
    <3>4. QED
      BY <1>4, <3>2, <3>3
  <2>2. SmallerAreCovers(g)'
    BY <1>1, <1>2, <1>11 DEF WithInv, KeptInv, SmallerAreCovers
  <2>3. NewIsCover(g)'
    BY <1>3 DEF NewIsCover
  <2>4. NoneIsCovered(g)'
    BY <1>1, <1>2, <1>11 DEF WithInv, KeptInv, NoneIsCovered
  <2>5. CoversAreSmaller(g)'
    BY <1>1, <1>2, <1>9, <1>11 DEF WithInv, KeptInv, CoversAreSmaller
  <2>6. QED
    BY <2>1, <2>2, <2>3, <2>4, <2>5 DEF KeptInv
<1>16. CoveredInv(g)'
  <2>1. CoveredBySmaller(g)'
    <3> SUFFICES ASSUME NEW R \in DOMAIN covered', NEW r \in covering_indexes[covered'[R]]
                 PROVE  r \in result.states /\ g[r] \subseteq R
      BY <1>2, <1>9 DEF CoveredBySmaller
    <3>1. CASE R = T
      BY <1>4, <1>5, <1>8, <3>1
    <3>2. CASE R # T
      BY <1>8, <3>2 DEF WithInv, CoveredInv, CoveredBySmaller
    <3>3. QED
      BY <3>1, <3>2
  <2>2. CoveredByUsed(g)'
    <3> SUFFICES ASSUME NEW R \in DOMAIN covered', NEW x \in R
                 PROVE  \E r \in K : r \in covering_indexes[covered'[R]] /\ x \in g[r]
      BY <1>2, <1>11 DEF CoveredByUsed
    <3>1. CASE R = T
      BY <1>1, <1>6, <1>8, <3>1
    <3>2. CASE R # T
      <4>1. R \in DOMAIN covered /\ covered'[R] = covered[R]
        BY <1>8, <3>2
      <4>2. PICK r \in U : r \in covering_indexes[covered[R]] /\ x \in g[r]
        BY <1>1, <4>1 DEF WithInv, CoveredInv, CoveredByUsed
      <4>3. r \in K
        BY <1>4, <1>7, <4>1, <4>2
      <4>4. QED
        BY <4>1, <4>2, <4>3
    <3>3. QED
      BY <3>1, <3>2
  <2>3. QED
    BY <2>1, <2>2 DEF CoveredInv
<1>17. NewInv(g)' /\ Erasing(g)'
  BY <1>2, <1>3 DEF NewInv, NewTarget, NewCovers, NewIsNeeded, Erasing
<1>18. /\ worklist \in Seq(Nat \X SUBSET nfa.states)
       /\ \A k \in 1 .. Len(worklist) : worklist[k][1] \in result.states
                                        /\ worklist[k][2] = g[worklist[k][1]]
       /\ symbols_left \subseteq SymbolsOut(nfa, expanding[2])
  BY <1>5 DEF WithInv, WithWork, IsPair
<1>19. WithWork(g)'
  <2>1. IsPair(g, expanding)'
    BY <1>1, <1>2, <1>5, <1>9, <1>10 DEF IsPair
  <2>2. \A k \in 1 .. Len(worklist') : IsPair(g, worklist[k])'
    BY <1>2, <1>9, <1>10, <1>18 DEF IsPair
  <2>3. QED
    BY <1>2, <1>3, <1>18, <2>1, <2>2 DEF WithWork
<1>20. WithBuilt(g)'
  <2>1. PICK A, B, C, O, O2, map : /\ A = nfa /\ B = result /\ C = result' /\ O = Owed(g)
                                   /\ O2 = Owed(g)' /\ map = subset_map
    OBVIOUS
  <2>2. Built(A, B, g, U, O) /\ FinalRight(A, B, g, K)
    BY <1>1, <2>1 DEF WithInv, WithBuilt
  <2>3. Built(A, B, g, K, O)
    <3>1. Built(A, B, g, U \ {t}, O)
      BY <1>7, <2>1, <2>2, UnusedKeepsBuilt
    <3>2. U \ {t} = K
      BY <1>4
    <3>3. QED
      BY <3>1, <3>2
  <2>4. N = ConnectedTo(covering_indexes, map, t)
    BY <1>1, <1>4, <2>1 DEF ConnectedTo
  <2>5. Makes(A, g, K, e, a, N)
    <3>1. \A r \in N : g[r] \subseteq T
      BY <1>1, <1>5
    <3>2. \A x \in T : \E r \in K : r \in N /\ x \in g[r]
      BY <1>6
    <3>3. QED
      BY <1>5, <2>1, <3>1, <3>2 DEF Makes
  <2>6. e \in K <=> expanding[2] \in DOMAIN map
    BY <1>1, <1>5, <2>1 DEF KeptStates
  <2>7. ASSUME NEW p \in K, NEW b \in SymbolsIn(A), <<p, b>> \in O
        PROVE  <<p, b>> \in O2 \/ (p = e /\ b = a)
    <3>1. worklist' = worklist /\ target_res \notin K
      BY <1>1, <1>2, <1>4
    <3>2. b \in SymbolsIn(nfa) /\ <<p, b>> \in Owed(g)
      BY <2>1, <2>7
    <3>3. /\ at = "check" /\ at' = "loop" /\ nfa' = nfa
          /\ e = expanding[1] /\ expanding' = expanding
          /\ symbols_left' = symbols_left \ {a} /\ result'.states = result.states
          /\ K \subseteq result.states /\ worklist \in Seq(Nat \X SUBSET nfa.states)
      BY <1>1, <1>2, <1>3, <1>4, <1>9, <1>18
    <3>4. <<p, b>> \in Owed(g)' \/ (p = e /\ b = a)
      BY <3>1, <3>2, <3>3, EnterOwes
    <3>5. QED
      BY <2>1, <3>4
  <2>8. Built(A, C, g, K, O2)
    <3>1. C = Connect(B, covering_indexes, map, t) /\ N \in SUBSET B.states /\ IsMachine(B)
      BY <1>1, <1>2, <1>3, <1>4, <1>5, <2>1
    <3>2. QED
      BY <1>1, <2>1, <2>3, <2>4, <2>5, <2>6, <2>7, <3>1, ConnectKeeps
  <2>9. FinalRight(A, C, g, K)
    BY <1>9, <2>1, <2>2 DEF FinalRight
  <2>10. QED
    BY <1>3, <1>11, <2>1, <2>8, <2>9 DEF WithBuilt
<1>21. QED
  BY <1>12, <1>14, <1>15, <1>16, <1>17, <1>19, <1>20 DEF WithInv

(* The inductive invariant of reduce_residual_with.                         *)
WithHolds == \E g : WithInv(g)

LEMMA WithStep ==
  ASSUME WithHolds, job \in Jobs,
         \/ Pop \/ ReadSymbol \/ (\E S \in to_check : Compare(S))
         \/ (\E S \in to_update : Update(S)) \/ MoveToCovered \/ EnterTarget
  PROVE  WithHolds'
<1>1. PICK g : WithInv(g)
  BY DEF WithHolds
<1>2. CASE Pop
  BY <1>1, <1>2, WithPop DEF WithHolds
<1>3. CASE ReadSymbol
  <2>1. CASE TargetOf \in DOMAIN subset_map \cup DOMAIN covered
    BY <1>1, <1>3, <2>1, WithReadKnown DEF WithHolds
  <2>2. CASE TargetOf \notin DOMAIN subset_map \cup DOMAIN covered
    BY <1>1, <1>3, <2>2, WithReadNew DEF WithHolds
  <2>3. QED
    BY <2>1, <2>2
<1>4. ASSUME NEW S \in to_check, Compare(S) PROVE WithHolds'
  BY <1>1, <1>4, WithCompare DEF WithHolds
<1>5. ASSUME NEW S \in to_update, Update(S) PROVE WithHolds'
  BY <1>1, <1>5, WithUpdate DEF WithHolds
<1>6. CASE MoveToCovered
  BY <1>1, <1>6, WithMove DEF WithHolds
<1>7. CASE EnterTarget
  <2>1. CASE targets # covering_states[target_res]
    BY <1>1, <1>7, <2>1, WithEnterKept DEF WithHolds
  <2>2. CASE targets = covering_states[target_res]
    BY <1>1, <1>7, <2>2, WithEnterCovered DEF WithHolds
  <2>3. QED
    BY <2>1, <2>2
<1>8. QED
  BY <1>2, <1>3, <1>4, <1>5, <1>6, <1>7

(* What the two algorithms promise.                                         *)
KeepsLanguage == \A word \in Seq(Nat) : Accepts(result, word) <=> Accepts(nfa, word)
EndsRight ==
  at = "done" => DOMAIN subset_map \ DOMAIN covered = Residuals(nfa) /\ KeepsLanguage

LEMMA EndsRightMeans ==
  ASSUME RemovedIsDead, EndsRight
  PROVE  MacrostatesAreRight
BY MacrostatesIsIn
   DEF MacrostatesAreRight, OnlyResidualsStay, EndsRight, Residuals, IsResidual

LEMMA RemovedAreUnused ==
  ASSUME NEW g, WithInv(g)
  PROVE  \A S \in DOMAIN covered : covered[S] \notin Used(g)
<1> SUFFICES ASSUME NEW S \in DOMAIN covered, covered[S] \in Used(g) PROVE FALSE
  OBVIOUS
<1>1. g[covered[S]] = S /\ S \notin DOMAIN subset_map
  BY DEF WithInv, WithNames
<1>2. Coming /\ covered[S] = target_res
  BY <1>1 DEF Used, IsNew
<1>3. g[target_res] = targets /\ targets \notin DOMAIN covered
  BY <1>2 DEF WithInv, NewInv, NewTarget
<1>4. QED
  BY <1>1, <1>2, <1>3

LEMMA WithRemoves ==
  ASSUME WithHolds, job.type = "with"
  PROVE  RemovedIsDead
<1>1. PICK g : WithInv(g)
  BY DEF WithHolds
<1>2. \A S \in DOMAIN covered : covered[S] \notin Used(g)
  BY <1>1, RemovedAreUnused
<1>3. KeptStates(g) \subseteq Used(g)
  BY DEF KeptStates, Used
<1>4. \A q \in result.final : q \in Used(g)
  BY <1>1, <1>3 DEF WithInv, WithBuilt, FinalRight
<1>5. \A m \in result.delta : m[1] \in Used(g)
  BY <1>1 DEF WithInv, WithBuilt, Built, MovesFit
<1>6. QED
  BY <1>2, <1>4, <1>5 DEF RemovedIsDead, Removed

LEMMA WithEndsRight ==
  ASSUME WithHolds, job \in Jobs
  PROVE  EndsRight
<1> SUFFICES ASSUME at = "done"
             PROVE  DOMAIN subset_map \ DOMAIN covered = Residuals(nfa) /\ KeepsLanguage
  BY DEF EndsRight
<1>1. PICK g : WithInv(g)
  BY DEF WithHolds
<1>2. PICK K, A, B : K = KeptStates(g) /\ A = nfa /\ B = result
  OBVIOUS
<1>3. IsInput(A)
  BY <1>2, NfaIsInput
<1>4. ~Coming
  BY DEF Coming
<1>5. Used(g) = K /\ Owed(g) = {}
  BY <1>2, <1>4 DEF Used, KeptStates, IsNew, Owed
<1>6. Complete(A, B, g, K) /\ FinalRight(A, B, g, K)
  BY <1>1, <1>2, <1>5 DEF WithInv, WithBuilt, Complete
<1>7. KeepsLanguage
  <2>1. ASSUME NEW word \in Seq(Nat) PROVE Accepts(B, word) <=> Accepts(A, word)
    <3>1. Len(word) \in Nat
      OBVIOUS
    <3>2. QED
      BY <1>3, <1>6, <3>1, CompleteKeepsLanguage
  <2>2. QED
    BY <1>2, <2>1 DEF KeepsLanguage
<1>8. \A q \in K : q \in result.states /\ g[q] \in MacrostatesIn(A) /\ g[q] \in DOMAIN subset_map
  BY <1>1, <1>2, <1>4 DEF KeptStates, WithInv, WithNames, IsNew
<1>9. ASSUME NEW q \in K PROVE StandsAlone(g, K, q)
  <2>1. covering_states[q] \subseteq g[q]
    BY <1>1, <1>2 DEF WithInv, KeptInv, CoversAreUsed
  <2>2. covering_states[q] # g[q] \/ g[q] = {}
    BY <1>1, <1>2 DEF WithInv, KeptInv, NoneIsCovered
  <2>3. \A r \in K : g[r] \subseteq g[q] /\ g[r] # g[q] => g[r] \subseteq covering_states[q]
    BY <1>1, <1>2 DEF WithInv, KeptInv, SmallerAreCovers
  <2>4. CASE g[q] # {}
    <3>1. PICK x \in g[q] : x \notin covering_states[q]
      BY <2>1, <2>2, <2>4
    <3>2. QED
      BY <2>3, <3>1 DEF StandsAlone
  <2>5. QED
    BY <2>4 DEF StandsAlone
<1>10. K # {}
  <2>1. 0 \in result.states
    BY <1>1 DEF WithInv, WithTypes
  <2>2. CASE g[0] \in DOMAIN subset_map
    BY <1>2, <2>1, <2>2 DEF KeptStates
  <2>3. CASE g[0] \notin DOMAIN subset_map
    <3>1. g[0] \in DOMAIN covered /\ g[0] # {}
      BY <1>1, <1>4, <2>1, <2>3 DEF WithInv, WithNames, IsNew
    <3>2. \E r \in Used(g) : TRUE
      BY <1>1, <3>1 DEF WithInv, CoveredInv, CoveredByUsed
    <3>3. QED
      BY <1>5, <3>2
  <2>4. QED
    BY <2>2, <2>3
<1>11. \A S : S \in Residuals(A) <=> \E q \in K : S = g[q]
  BY <1>3, <1>6, <1>8, <1>9, <1>10, ResidualsStay
<1>12. \A S : S \in DOMAIN subset_map \ DOMAIN covered <=> \E q \in K : S = g[q]
  <2>1. \A S \in DOMAIN subset_map : /\ subset_map[S] \in result.states /\ g[subset_map[S]] = S
                                     /\ S \notin DOMAIN covered
    BY <1>1 DEF WithInv, WithNames
  <2>2. \A S \in DOMAIN subset_map : subset_map[S] \in K /\ S = g[subset_map[S]]
    BY <1>2, <2>1 DEF KeptStates
  <2>3. QED
    BY <1>8, <2>1, <2>2
<1>13. QED
  BY <1>2, <1>7, <1>11, <1>12

(***************************************************************************)
(* reduce_residual_after.  The macrostate of a state is its entry of       *)
(* macrostate_vec; a state is gone if its macrostate is in covered.        *)
(***************************************************************************)
VecStates == DOMAIN macrostate_vec
Gone == {q \in VecStates : macrostate_vec[q] \in DOMAIN covered}
Staying == {q \in VecStates : macrostate_vec[q] \notin DOMAIN covered}
Below(p, q) == p # q /\ macrostate_vec[p] \subseteq macrostate_vec[q]
IsUnion(q) ==
  /\ macrostate_vec[q] # {}
  /\ \A x \in macrostate_vec[q] : \E p \in VecStates : Below(p, q) /\ x \in macrostate_vec[p]

VecRight ==
  /\ macrostate_vec \in Seq(MacrostatesIn(nfa))
  /\ \A p, q \in VecStates : macrostate_vec[p] = macrostate_vec[q] => p = q
  /\ \A p, q \in VecStates :
       p < q => Cardinality(macrostate_vec[q]) <= Cardinality(macrostate_vec[p])

(* Until the automaton is built.                                            *)
NothingRemoved ==
  covered = Empty /\ frames = << >> /\ visited = {} /\ i = 1
Collecting ==
  at = "determinize" =>
    /\ NothingRemoved /\ macrostate_vec = << >>
    /\ nfa.initial \in unsorted /\ unsorted \subseteq MacrostatesIn(nfa)
Sorting ==
  at = "sort" =>
    /\ NothingRemoved /\ VecRight
    /\ unsorted \subseteq MacrostatesIn(nfa)
    /\ \A S \in MacrostatesIn(nfa) : S \in unsorted \/ \E q \in VecStates : macrostate_vec[q] = S
    /\ \A S \in unsorted : \A q \in VecStates :
         macrostate_vec[q] # S /\ Cardinality(S) <= Cardinality(macrostate_vec[q])

(* The states have their numbers.                                           *)
StatesNumbered ==
  /\ VecRight
  /\ \A S \in MacrostatesIn(nfa) : \E q \in VecStates : macrostate_vec[q] = S
  /\ DOMAIN subset_map = MacrostatesIn(nfa)
  /\ \A q \in VecStates : subset_map[macrostate_vec[q]] = q

(* What is gone is covered by what stays, and nothing leads to it.          *)
GoneCovered ==
  \A q \in Gone : \A x \in macrostate_vec[q] :
    \E p \in Staying : Below(p, q) /\ x \in macrostate_vec[p]
RemovedRight ==
  /\ \A S \in DOMAIN covered : S \in DOMAIN subset_map /\ S # {} /\ covered[S] = subset_map[S]
  /\ GoneCovered
  /\ IsMachine(result) /\ result.states = VecStates
  /\ Built(nfa, result, macrostate_vec, Staying, {})
  /\ FinalRight(nfa, result, macrostate_vec, Staying)
  /\ \A m \in result.delta : m[3] \notin Gone
  /\ \A q \in result.initial : q \notin Gone

(* A call of residual_recurse_coverable is going to remove a macrostate     *)
(* that is the union of smaller ones, and knows all of those that stay.     *)
FrameSet == [of : Nat, covering : SUBSET Nat, left : SUBSET Nat]
IsFrame(f) ==
  /\ f.of \in Staying /\ IsUnion(f.of)
  /\ f.left \subseteq f.covering
  /\ \A j \in f.covering : j \in VecStates /\ Below(j, f.of)
  /\ \A j \in Staying : Below(j, f.of) => j \in f.covering
  /\ \A j \in f.covering \ f.left : \A l \in f.left : j < l
AreFrames(fr) ==
  /\ fr \in Seq(FrameSet)
  /\ \A k \in 1 .. Len(fr) : IsFrame(fr[k])
  /\ \A k, l \in 1 .. Len(fr) : fr[k].of = fr[l].of => k = l
IsIn(fr, q) == \E k \in 1 .. Len(fr) : fr[k].of = q

FramesRight == AreFrames(frames)
InFrames(q) == IsIn(frames, q)
VisitsRight ==
  /\ i \in Nat /\ i >= 1
  /\ \A q \in Gone : q \in visited
  /\ \A q \in VecStates : InFrames(q) => q \in visited
  /\ \A q \in VecStates : q < i => q \in visited
  /\ \A q \in VecStates : q \in visited /\ IsUnion(q) => q \in Gone \/ InFrames(q)

Outermost ==
  /\ at \in {"outer", "done"} => StatesNumbered /\ RemovedRight /\ FramesRight /\ VisitsRight
  /\ at = "done" => \A q \in VecStates : IsUnion(q) => q \in Gone

AfterInv ==
  /\ at \in {"determinize", "sort", "outer", "done"}
  /\ Collecting /\ Sorting /\ Outermost

(* The macrostates below another one come after it, and are smaller.        *)
IsOrdered ==
  \A p, q \in VecStates : Below(p, q) =>
    q < p /\ Cardinality(macrostate_vec[p]) < Cardinality(macrostate_vec[q])
VecSets ==
  \A q \in VecStates : /\ q \in Nat /\ macrostate_vec[q] \in MacrostatesIn(nfa)
                       /\ Cardinality(macrostate_vec[q]) \in Nat

LEMMA VecFacts ==
  ASSUME VecRight, job \in Jobs
  PROVE  /\ Len(macrostate_vec) \in Nat /\ VecStates = 1 .. Len(macrostate_vec)
         /\ VecSets /\ IsOrdered
<1>1. IsInput(nfa)
  BY NfaIsInput
<1>2. PICK v, D : v = macrostate_vec /\ D = MacrostatesIn(nfa)
  OBVIOUS
<1>3. v \in Seq(D)
  BY <1>2 DEF VecRight
<1>4. Len(v) \in Nat /\ DOMAIN v = 1 .. Len(v) /\ \A q \in DOMAIN v : v[q] \in D
  BY <1>3, LenProperties
<1>5. \A S \in D : IsFiniteSet(S)
  BY <1>1, <1>2, MacrostatesHold, FS_Subset DEF IsInput
<1>6. \A q \in DOMAIN v : Cardinality(v[q]) \in Nat
  BY <1>4, <1>5, FS_CardinalityType
<1>7. VecSets
  BY <1>2, <1>4, <1>6 DEF VecSets, VecStates
<1>8. ASSUME NEW p \in DOMAIN v, NEW q \in DOMAIN v, p # q, v[p] \subseteq v[q]
      PROVE  q < p /\ Cardinality(v[p]) < Cardinality(v[q])
  <2>1. v[p] # v[q]
    BY <1>2, <1>8 DEF VecRight, VecStates
  <2>2. Cardinality(v[p]) <= Cardinality(v[q]) /\ Cardinality(v[p]) # Cardinality(v[q])
    BY <1>4, <1>5, <1>8, <2>1, FS_Subset
  <2>3. Cardinality(v[p]) < Cardinality(v[q])
    BY <1>6, <2>2
  <2>4. p < q => Cardinality(v[q]) <= Cardinality(v[p])
    BY <1>2 DEF VecRight, VecStates
  <2>5. QED
    BY <1>4, <1>6, <1>8, <2>3, <2>4
<1>9. IsOrdered
  BY <1>2, <1>8 DEF IsOrdered, Below, VecStates
<1>10. QED
  BY <1>2, <1>4, <1>7, <1>9 DEF VecStates

LEMMA BelowIsTransitive ==
  ASSUME IsOrdered, VecSets
  PROVE  \A p, q, r \in VecStates : Below(p, q) /\ Below(q, r) => Below(p, r)
<1> SUFFICES ASSUME NEW p \in VecStates, NEW q \in VecStates, NEW r \in VecStates,
                    Below(p, q), Below(q, r)
             PROVE  Below(p, r)
  OBVIOUS
<1>1. q < p /\ r < q /\ p \in Nat /\ q \in Nat /\ r \in Nat
  BY DEF IsOrdered, VecSets
<1>2. p # r
  BY <1>1
<1>3. QED
  BY <1>2 DEF Below

(* A union of smaller macrostates is that of smaller ones that stay.        *)
LEMMA CoveredByStaying ==
  ASSUME VecRight, job \in Jobs, GoneCovered, NEW q \in VecStates, IsUnion(q),
         NEW x \in macrostate_vec[q]
  PROVE  \E p \in Staying : Below(p, q) /\ x \in macrostate_vec[p]
<1>1. IsOrdered /\ VecSets
  BY VecFacts
<1>2. PICK p \in VecStates : Below(p, q) /\ x \in macrostate_vec[p]
  BY DEF IsUnion
<1>3. CASE p \in Staying
  BY <1>2, <1>3
<1>4. CASE p \notin Staying
  <2>1. p \in Gone
    BY <1>4 DEF Gone, Staying
  <2>2. PICK r \in Staying : Below(r, p) /\ x \in macrostate_vec[r]
    BY <1>2, <2>1 DEF GoneCovered
  <2>3. r \in VecStates
    BY DEF Staying
  <2>4. Below(r, q)
    BY <1>1, <1>2, <2>2, <2>3, BelowIsTransitive
  <2>5. QED
    BY <2>2, <2>4
<1>5. QED
  BY <1>3, <1>4

LEMMA AfterInit ==
  ASSUME Init, job.type = "after"
  PROVE  AfterInv
<1>1. nfa.initial \in MacrostatesIn(nfa)
  BY NfaIsInput, MacrostatesHold DEF Init
<1>2. at = "determinize"
  BY DEF Init
<1>3. Collecting
  BY <1>1 DEF Init, Collecting, NothingRemoved
<1>4. QED
  BY <1>2, <1>3 DEF AfterInv, Sorting, Outermost

LEMMA AfterDeterminize ==
  ASSUME AfterInv, job \in Jobs, Determinize
  PROVE  AfterInv'
<1>1. PICK A, D : A = nfa /\ D = MacrostatesIn(nfa)
  OBVIOUS
<1>2. /\ at = "determinize" /\ at' \in {"determinize", "sort"}
      /\ unsorted' = unsorted \cup PostsIn(A, unsorted)
      /\ at' = "sort" => unsorted' = unsorted
      /\ UNCHANGED <<job, covered, macrostate_vec, visited, frames, i>>
  BY <1>1, PostsOfIsIn DEF Determinize
<1>3. nfa' = A /\ MacrostatesIn(nfa)' = D
  BY <1>1, <1>2 DEF nfa
<1>4. /\ NothingRemoved /\ macrostate_vec = << >>
      /\ A.initial \in unsorted /\ unsorted \subseteq D
  BY <1>1, <1>2 DEF AfterInv, Collecting
<1>5. IsInput(A)
  BY <1>1, NfaIsInput
<1>6. /\ \A S \in D : \A a \in SymbolsOut(A, S) : Post(A, S, a) \in D
      /\ D \subseteq SUBSET A.states
  BY <1>1, <1>5, MacrostatesHold
<1>7. unsorted' \subseteq D /\ A.initial \in unsorted'
  BY <1>2, <1>4, <1>6 DEF PostsIn
<1>8. at' = "sort" => D \subseteq unsorted'
  <2> SUFFICES ASSUME at' = "sort" PROVE D \subseteq unsorted'
    OBVIOUS
  <2>1. PICK C : C = unsorted
    OBVIOUS
  <2>2. PostsIn(A, C) \subseteq C
    BY <1>2, <2>1
  <2>3. \A S \in SUBSET A.states : \A a \in SymbolsOut(A, S) : S \in C => Post(A, S, a) \in C
    BY <2>2 DEF PostsIn
  <2>4. D \subseteq C
    BY <1>1, <1>4, <1>5, <2>1, <2>3, MacrostatesAreLeast
  <2>5. QED
    BY <1>2, <2>1, <2>4
<1>9. NothingRemoved' /\ macrostate_vec' = << >>
  BY <1>2, <1>4 DEF NothingRemoved
<1>10. Collecting'
  BY <1>3, <1>7, <1>9 DEF Collecting
<1>11. Sorting'
  <2>1. VecStates' = {}
    BY <1>9 DEF VecStates
  <2>2. macrostate_vec' \in Seq(D)
    BY <1>9
  <2>3. VecRight'
    BY <1>3, <2>1, <2>2 DEF VecRight
  <2>4. QED
    BY <1>3, <1>7, <1>8, <1>9, <2>1, <2>3 DEF Sorting
<1>12. QED
  BY <1>2, <1>10, <1>11 DEF AfterInv, Outermost

LEMMA AfterSort ==
  ASSUME AfterInv, job \in Jobs, Sort
  PROVE  AfterInv'
<1>1. PICK S \in unsorted :
        /\ \A T \in unsorted : Cardinality(T) <= Cardinality(S)
        /\ macrostate_vec' = Append(macrostate_vec, S) /\ unsorted' = unsorted \ {S}
  BY DEF Sort
<1>2. at = "sort" /\ at' = "sort" /\ UNCHANGED <<job, covered, visited, frames, i>>
  BY DEF Sort
<1>3. PICK v, w, n, D : /\ v = macrostate_vec /\ w = macrostate_vec' /\ n = Len(v)
                        /\ D = MacrostatesIn(nfa)
  OBVIOUS
<1>4. MacrostatesIn(nfa)' = D
  BY <1>2, <1>3 DEF nfa
<1>5. /\ NothingRemoved /\ VecRight
      /\ unsorted \subseteq D
      /\ \A T \in D : T \in unsorted \/ \E q \in DOMAIN v : v[q] = T
      /\ \A T \in unsorted : \A q \in DOMAIN v : v[q] # T /\ Cardinality(T) <= Cardinality(v[q])
  BY <1>2, <1>3 DEF AfterInv, Sorting, VecStates
<1>6. /\ v \in Seq(D)
      /\ \A p, q \in DOMAIN v : v[p] = v[q] => p = q
      /\ \A p, q \in DOMAIN v : p < q => Cardinality(v[q]) <= Cardinality(v[p])
  BY <1>3, <1>5 DEF VecRight, VecStates
<1>7. /\ w \in Seq(D) /\ n \in Nat /\ DOMAIN v = 1 .. n /\ DOMAIN w = 1 .. n + 1
      /\ \A q \in 1 .. n : w[q] = v[q]
      /\ w[n + 1] = S
  BY <1>1, <1>3, <1>5, <1>6, AppendProperties, LenProperties
<1>8. VecRight'
  <2>1. ASSUME NEW p \in DOMAIN w, NEW q \in DOMAIN w, w[p] = w[q] PROVE p = q
    BY <1>5, <1>6, <1>7, <2>1
  <2>2. ASSUME NEW p \in DOMAIN w, NEW q \in DOMAIN w, p < q
        PROVE  Cardinality(w[q]) <= Cardinality(w[p])
    <3>1. p \in 1 .. n
      BY <1>7, <2>2
    <3>2. CASE q \in 1 .. n
      BY <1>6, <1>7, <2>2, <3>1, <3>2
    <3>3. CASE q = n + 1
      BY <1>5, <1>7, <3>1, <3>3
    <3>4. QED
      BY <1>7, <3>2, <3>3
  <2>3. QED
    BY <1>3, <1>4, <1>7, <2>1, <2>2 DEF VecRight, VecStates
<1>9. Sorting'
  <2>1. NothingRemoved'
    BY <1>2, <1>5 DEF NothingRemoved
  <2>2. ASSUME NEW T \in D PROVE T \in unsorted' \/ \E q \in DOMAIN w : w[q] = T
    <3>1. CASE T = S
      BY <1>7, <3>1
    <3>2. CASE T # S /\ T \in unsorted
      BY <1>1, <3>2
    <3>3. CASE T \notin unsorted
      BY <1>5, <1>7, <3>3
    <3>4. QED
      BY <3>1, <3>2, <3>3
  <2>3. ASSUME NEW T \in unsorted', NEW q \in DOMAIN w
        PROVE  w[q] # T /\ Cardinality(T) <= Cardinality(w[q])
    <3>1. CASE q \in 1 .. n
      BY <1>1, <1>5, <1>7, <3>1
    <3>2. CASE q = n + 1
      BY <1>1, <1>7, <3>2
    <3>3. QED
      BY <1>7, <3>1, <3>2
  <2>4. QED
    BY <1>1, <1>3, <1>4, <1>5, <1>8, <2>1, <2>2, <2>3 DEF Sorting, VecStates
<1>10. QED
  BY <1>2, <1>9 DEF AfterInv, Collecting, Outermost

(* The automaton that determinize returns.                                  *)
LEMMA AfterBuild ==
  ASSUME AfterInv, job \in Jobs, Build
  PROVE  AfterInv'
<1>1. PICK A, D, v, W, B : /\ A = nfa /\ D = MacrostatesIn(nfa) /\ v = macrostate_vec
                           /\ W = VecStates /\ B = result'
  OBVIOUS
<1>2. /\ at = "sort" /\ at' = "outer" /\ unsorted = {}
      /\ UNCHANGED <<job, covered, macrostate_vec, visited, frames, i>>
  BY DEF Build, aftervars
<1>3. nfa' = A /\ MacrostatesIn(nfa)' = D /\ VecStates' = W
  BY <1>1, <1>2 DEF nfa, VecStates
<1>4. /\ NothingRemoved /\ VecRight
      /\ \A S \in D : \E q \in W : v[q] = S
  BY <1>1, <1>2 DEF AfterInv, Sorting
<1>5. IsInput(A)
  BY <1>1, NfaIsInput
<1>6. /\ W = 1 .. Len(v) /\ Len(v) \in Nat
      /\ \A q \in W : v[q] \in D
      /\ \A p, q \in W : v[p] = v[q] => p = q
  BY <1>1, <1>4, VecFacts DEF VecSets, VecRight
<1>7. /\ \A S \in D : \A a \in SymbolsOut(A, S) : Post(A, S, a) \in D
      /\ D \subseteq SUBSET A.states /\ A.initial \in D
  BY <1>1, <1>5, MacrostatesHold
<1>8. /\ subset_map' = [S \in ToSet(v) |-> CHOOSE q \in W : v[q] = S]
      /\ B = [states |-> W,
              initial |-> {q \in W : v[q] = A.initial},
              final |-> {q \in W : v[q] \cap A.final # {}},
              delta |-> {m \in W \X SymbolsFrom(A.states) \X W :
                           /\ m[2] \in SymbolsFrom(v[m[1]])
                           /\ v[m[3]] = Post(A, v[m[1]], m[2])}]
  BY <1>1 DEF Build, VecStates
<1>9. /\ B.states = W
      /\ B.initial = {q \in W : v[q] = A.initial}
      /\ B.final = {q \in W : v[q] \cap A.final # {}}
      /\ \A m : m \in B.delta <=> /\ m \in W \X SymbolsFrom(A.states) \X W
                                  /\ m[2] \in SymbolsFrom(v[m[1]])
                                  /\ v[m[3]] = Post(A, v[m[1]], m[2])
      /\ IsMachine(B)
  BY <1>8 DEF IsMachine
<1>10. DOMAIN subset_map' = D /\ \A q \in W : subset_map'[v[q]] = q
  <2>1. ToSet(v) = D
    BY <1>1, <1>4, <1>6 DEF ToSet, VecStates
  <2>2. ASSUME NEW q \in W PROVE subset_map'[v[q]] = q
    <3>1. v[q] \in ToSet(v)
      BY <1>6, <2>1
    <3>2. PICK c : c = CHOOSE p \in W : v[p] = v[q]
      OBVIOUS
    <3>3. c \in W /\ v[c] = v[q]
      BY <3>2
    <3>4. QED
      BY <1>6, <1>8, <3>1, <3>2, <3>3
  <2>3. QED
    BY <1>8, <2>1, <2>2
<1>11. StatesNumbered'
  <2>1. VecRight'
    BY <1>2, <1>3, <1>4, <1>1 DEF VecRight
  <2>2. QED
    BY <1>1, <1>2, <1>3, <1>4, <1>10, <2>1 DEF StatesNumbered
<1>12. DOMAIN covered' = {} /\ Gone' = {} /\ Staying' = W
  <2>1. DOMAIN covered' = {}
    BY <1>2, <1>4 DEF NothingRemoved, Empty
  <2>2. QED
    BY <1>3, <2>1 DEF Gone, Staying
<1>13. Built(A, B, v, W, {})
  <2>1. MovesFit(A, B, v, W)
    <3> SUFFICES ASSUME NEW m \in B.delta
                 PROVE  m[1] \in W /\ m[3] \in W /\ v[m[3]] \subseteq Post(A, v[m[1]], m[2])
      BY <1>9 DEF MovesFit
    <3>1. m \in W \X SymbolsFrom(A.states) \X W /\ v[m[3]] = Post(A, v[m[1]], m[2])
      BY <1>9
    <3>2. QED
      BY <3>1
  <2>2. MovesReach(A, B, v, W, {})
    <3> SUFFICES ASSUME NEW q \in W, NEW a \in SymbolsIn(A), NEW x \in Post(A, v[q], a)
                 PROVE  \E r \in W : <<q, a, r>> \in B.delta /\ x \in v[r]
      BY DEF MovesReach, Reaches
    <3>1. a \in SymbolsOut(A, v[q])
      BY NoSymbolNoPost
    <3>2. a \in SymbolsFrom(v[q]) /\ a \in SymbolsFrom(A.states)
      BY <1>1, <1>6, <1>7, <3>1 DEF SymbolsOut, SymbolsFrom
    <3>3. PICK r \in W : v[r] = Post(A, v[q], a)
      BY <1>4, <1>6, <1>7, <3>1
    <3>4. PICK m : m = <<q, a, r>>
      OBVIOUS
    <3>5. m \in W \X SymbolsFrom(A.states) \X W /\ m[1] = q /\ m[2] = a /\ m[3] = r
      BY <3>2, <3>4
    <3>6. m \in B.delta
      BY <1>9, <3>2, <3>3, <3>5
    <3>7. QED
      BY <3>3, <3>4, <3>6
  <2>3. StartsRight(A, B, v, W)
    BY <1>4, <1>7, <1>9 DEF StartsRight
  <2>4. QED
    BY <1>9, <2>1, <2>2, <2>3 DEF Built
<1>14. RemovedRight'
  <2>1. GoneCovered'
    BY <1>12 DEF GoneCovered
  <2>2. FinalRight(A, B, v, W)
    BY <1>9 DEF FinalRight
  <2>3. \A S \in DOMAIN covered' : /\ S \in DOMAIN subset_map' /\ S # {}
                                   /\ covered'[S] = subset_map'[S]
    BY <1>12
  <2>4. /\ IsMachine(result') /\ result'.states = VecStates'
        /\ Built(nfa', result', macrostate_vec', Staying', {})
        /\ FinalRight(nfa', result', macrostate_vec', Staying')
    BY <1>1, <1>2, <1>3, <1>9, <1>12, <1>13, <2>2
  <2>5. (\A m \in result'.delta : m[3] \notin Gone') /\ (\A q \in result'.initial : q \notin Gone')
    BY <1>12
  <2>6. QED
    BY <2>1, <2>3, <2>4, <2>5 DEF RemovedRight
<1>15. FramesRight' /\ VisitsRight'
  <2>1. frames' = << >> /\ visited' = {} /\ i' = 1
    BY <1>2, <1>4 DEF NothingRemoved
  <2>2. FramesRight'
    BY <2>1 DEF FramesRight, AreFrames
  <2>3. VisitsRight'
    BY <1>3, <1>6, <1>12, <2>1 DEF VisitsRight, InFrames, IsIn
  <2>4. QED
    BY <2>2, <2>3
<1>16. Outermost'
  BY <1>2, <1>11, <1>14, <1>15 DEF Outermost
<1>17. QED
  BY <1>2, <1>16 DEF AfterInv, Collecting, Sorting

(* What a step that removes nothing keeps.                                  *)
LEMMA NothingMoves ==
  ASSUME UNCHANGED <<job, result, subset_map, covered, macrostate_vec>>
  PROVE  /\ nfa' = nfa /\ VecStates' = VecStates /\ Gone' = Gone /\ Staying' = Staying
         /\ \A q : IsUnion(q)' <=> IsUnion(q)
         /\ \A f : IsFrame(f)' <=> IsFrame(f)
         /\ StatesNumbered => StatesNumbered'
         /\ RemovedRight => RemovedRight'
<1>1. nfa' = nfa /\ VecStates' = VecStates
  BY DEF nfa, VecStates
<1>2. Gone' = Gone /\ Staying' = Staying
  BY <1>1 DEF Gone, Staying
<1>3. \A p, q : Below(p, q)' <=> Below(p, q)
  BY DEF Below
<1>4. \A q : IsUnion(q)' <=> IsUnion(q)
  BY <1>1, <1>3 DEF IsUnion
<1>5. \A f : IsFrame(f)' <=> IsFrame(f)
  BY <1>1, <1>2, <1>3, <1>4 DEF IsFrame
<1>6. StatesNumbered => StatesNumbered'
  BY <1>1 DEF StatesNumbered, VecRight
<1>7. GoneCovered => GoneCovered'
  BY <1>2, <1>3 DEF GoneCovered
<1>8. RemovedRight => RemovedRight'
  BY <1>1, <1>2, <1>7 DEF RemovedRight
<1>9. QED
  BY <1>1, <1>2, <1>4, <1>5, <1>6, <1>8

LEMMA NoneIsEmpty ==
  ASSUME StatesNumbered, job \in Jobs, NEW p \in VecStates, NEW q \in VecStates, p # q
  PROVE  macrostate_vec[p] # {}
<1>1. VecRight
  BY DEF StatesNumbered
<1>2. macrostate_vec[p] \in MacrostatesIn(nfa) /\ macrostate_vec[q] \in MacrostatesIn(nfa)
  BY <1>1, VecFacts DEF VecSets
<1>3. macrostate_vec[p] # macrostate_vec[q]
  BY <1>1 DEF VecRight
<1>4. {} \in MacrostatesIn(nfa) => MacrostatesIn(nfa) = {{}}
  BY NfaIsInput, EmptyIsAlone
<1>5. QED
  BY <1>2, <1>3, <1>4

(* Smaller finds what is below a macrostate and stays, if it looks far      *)
(* enough, and its union tells whether the macrostate is one.               *)
LooksFar(q, indexes) ==
  /\ indexes \subseteq VecStates /\ q \notin indexes
  /\ \A j \in Staying : Below(j, q) => j \in indexes

LEMMA SmallerStay ==
  ASSUME VecRight, NEW q \in VecStates, NEW indexes, LooksFar(q, indexes)
  PROVE  Smaller(q, indexes) = {j \in Staying : Below(j, q)}
BY DEF Smaller, LooksFar, Below, Staying

LEMMA UnionIsFound ==
  ASSUME VecRight, job \in Jobs, GoneCovered, NEW q \in VecStates,
         NEW sub, sub = {j \in Staying : Below(j, q)}, IsUnion(q)
  PROVE  UnionOf(sub) = macrostate_vec[q]
<1>1. \A x \in macrostate_vec[q] : \E p \in Staying : Below(p, q) /\ x \in macrostate_vec[p]
  BY CoveredByStaying
<1>2. \A j \in sub : macrostate_vec[j] \subseteq macrostate_vec[q]
  BY DEF Below
<1>3. QED
  BY <1>1, <1>2 DEF UnionOf

LEMMA FoundIsFrame ==
  ASSUME VecRight, job \in Jobs, NEW q \in Staying,
         NEW sub, sub = {j \in Staying : Below(j, q)},
         UnionOf(sub) = macrostate_vec[q], macrostate_vec[q] # {}
  PROVE  Frame(q, sub) \in FrameSet /\ Frame(q, sub).of = q /\ IsFrame(Frame(q, sub))
<1>1. VecStates \subseteq Nat
  BY VecFacts
<1>2. Staying \subseteq VecStates
  BY DEF Staying
<1>3. /\ Frame(q, sub).of = q /\ Frame(q, sub).covering = sub /\ Frame(q, sub).left = sub
      /\ Frame(q, sub) \in FrameSet
  BY <1>1, <1>2 DEF Frame, FrameSet
<1>4. IsUnion(q)
  BY <1>2 DEF IsUnion, UnionOf
<1>5. QED
  BY <1>2, <1>3, <1>4 DEF IsFrame

(* One frame more and one frame less.                                       *)
LEMMA PushedFrames ==
  ASSUME NEW fr, AreFrames(fr), NEW f \in FrameSet, IsFrame(f), ~IsIn(fr, f.of)
  PROVE  /\ AreFrames(Append(fr, f))
         /\ \A q : IsIn(Append(fr, f), q) <=> IsIn(fr, q) \/ q = f.of
<1>1. fr \in Seq(FrameSet)
  BY DEF AreFrames
<1>2. PICK w, n : w = Append(fr, f) /\ n = Len(fr)
  OBVIOUS
<1>3. /\ w \in Seq(FrameSet) /\ Len(w) = n + 1 /\ n \in Nat
      /\ \A k \in 1 .. n : w[k] = fr[k]
      /\ w[n + 1] = f
  BY <1>1, <1>2, AppendProperties
<1>4. \A k \in 1 .. n + 1 : k \in 1 .. n \/ k = n + 1
  BY <1>3
<1>5. \A k \in 1 .. n : fr[k].of # f.of /\ IsFrame(fr[k])
  BY <1>2 DEF AreFrames, IsIn
<1>6. \A k \in 1 .. n + 1 : IsFrame(w[k])
  BY <1>3, <1>4, <1>5
<1>7. ASSUME NEW k \in 1 .. n + 1, NEW l \in 1 .. n + 1, w[k].of = w[l].of PROVE k = l
  <2>1. CASE k \in 1 .. n /\ l \in 1 .. n
    BY <1>2, <1>3, <1>7, <2>1 DEF AreFrames
  <2>2. CASE k = n + 1 \/ l = n + 1
    BY <1>3, <1>4, <1>5, <1>7, <2>2
  <2>3. QED
    BY <1>4, <2>1, <2>2
<1>8. AreFrames(w)
  BY <1>3, <1>6, <1>7 DEF AreFrames
<1>9. ASSUME NEW q PROVE IsIn(w, q) <=> IsIn(fr, q) \/ q = f.of
  <2>1. ASSUME IsIn(w, q) PROVE IsIn(fr, q) \/ q = f.of
    BY <1>2, <1>3, <1>4, <2>1 DEF IsIn
  <2>2. ASSUME IsIn(fr, q) PROVE IsIn(w, q)
    <3>1. PICK k \in 1 .. n : fr[k].of = q
      BY <1>2, <2>2 DEF IsIn
    <3>2. k \in 1 .. Len(w) /\ w[k].of = q
      BY <1>3, <3>1
    <3>3. QED
      BY <3>2 DEF IsIn
  <2>3. ASSUME q = f.of PROVE IsIn(w, q)
    <3>1. n + 1 \in 1 .. Len(w) /\ w[n + 1].of = q
      BY <1>3, <2>3
    <3>2. QED
      BY <3>1 DEF IsIn
  <2>4. QED
    BY <2>1, <2>2, <2>3
<1>10. QED
  BY <1>2, <1>8, <1>9

LEMMA PoppedFrames ==
  ASSUME NEW fr, AreFrames(fr), fr # << >>
  PROVE  /\ AreFrames(Front(fr)) /\ Last(fr) \in FrameSet /\ IsFrame(Last(fr))
         /\ \A q : IsIn(fr, q) <=> IsIn(Front(fr), q) \/ q = Last(fr).of
         /\ ~IsIn(Front(fr), Last(fr).of)
<1>1. fr \in Seq(FrameSet)
  BY DEF AreFrames
<1>2. PICK w, f, n : w = Front(fr) /\ f = Last(fr) /\ n = Len(fr)
  OBVIOUS
<1>3. /\ n \in Nat /\ n >= 1 /\ f = fr[n] /\ f \in FrameSet
      /\ w \in Seq(FrameSet) /\ Len(w) = n - 1
      /\ \A k \in 1 .. n - 1 : w[k] = fr[k]
  BY <1>1, <1>2, FrontAndLast
<1>4. \A k \in 1 .. n : k \in 1 .. n - 1 \/ k = n
  BY <1>3
<1>5. /\ \A k \in 1 .. n : IsFrame(fr[k])
      /\ \A k, l \in 1 .. n : fr[k].of = fr[l].of => k = l
  BY <1>2 DEF AreFrames
<1>6. \A k \in 1 .. n - 1 : k \in 1 .. n /\ k # n /\ w[k] = fr[k]
  BY <1>3
<1>7. n \in 1 .. n
  BY <1>3
<1>8. AreFrames(w)
  <2>1. \A k \in 1 .. n - 1 : IsFrame(w[k])
    BY <1>5, <1>6
  <2>2. \A k, l \in 1 .. n - 1 : w[k].of = w[l].of => k = l
    BY <1>5, <1>6
  <2>3. QED
    BY <1>3, <2>1, <2>2 DEF AreFrames
<1>9. ~IsIn(w, f.of)
  BY <1>3, <1>5, <1>6, <1>7 DEF IsIn
<1>10. ASSUME NEW q PROVE IsIn(fr, q) <=> IsIn(w, q) \/ q = f.of
  <2>1. ASSUME IsIn(fr, q) PROVE IsIn(w, q) \/ q = f.of
    <3>1. PICK k \in 1 .. n : fr[k].of = q
      BY <1>2, <2>1 DEF IsIn
    <3>2. CASE k = n
      BY <1>3, <3>1, <3>2
    <3>3. CASE k \in 1 .. n - 1
      BY <1>3, <1>6, <3>1, <3>3 DEF IsIn
    <3>4. QED
      BY <1>4, <3>2, <3>3
  <2>2. ASSUME IsIn(w, q) PROVE IsIn(fr, q)
    BY <1>2, <1>3, <1>6, <2>2 DEF IsIn
  <2>3. ASSUME q = f.of PROVE IsIn(fr, q)
    BY <1>2, <1>3, <1>7, <2>3 DEF IsIn
  <2>4. QED
    BY <2>1, <2>2, <2>3
<1>11. QED
  BY <1>2, <1>3, <1>5, <1>7, <1>8, <1>9, <1>10

(* A macrostate is visited: if it is a union and stays, its removal is      *)
(* under way from now on.                                                   *)
LEMMA VisitKeeps ==
  ASSUME StatesNumbered, RemovedRight, VisitsRight, job \in Jobs,
         UNCHANGED <<job, result, subset_map, covered, macrostate_vec>>,
         NEW fr, AreFrames(fr), \A p : IsIn(fr, p) <=> InFrames(p),
         NEW q \in VecStates, macrostate_vec[q] # {},
         NEW sub, sub = {j \in Staying : Below(j, q)},
         visited' = visited \cup {q},
         frames' = IF q \notin visited /\ UnionOf(sub) = macrostate_vec[q]
                     THEN Append(fr, Frame(q, sub)) ELSE fr,
         i' \in Nat, i' >= 1, \A p \in VecStates : p < i' => p < i \/ p = q
  PROVE  FramesRight' /\ VisitsRight'
<1>1. /\ nfa' = nfa /\ VecStates' = VecStates /\ Gone' = Gone /\ Staying' = Staying
      /\ \A p : IsUnion(p)' <=> IsUnion(p)
      /\ \A f : IsFrame(f)' <=> IsFrame(f)
  BY NothingMoves
<1>2. VecRight /\ GoneCovered
  BY DEF StatesNumbered, RemovedRight
<1>3. /\ \A p \in Gone : p \in visited
      /\ \A p \in VecStates : InFrames(p) => p \in visited
      /\ \A p \in VecStates : p < i => p \in visited
      /\ \A p \in VecStates : p \in visited /\ IsUnion(p) => p \in Gone \/ InFrames(p)
  BY DEF VisitsRight
<1>4. PICK w, found : /\ w = frames'
                      /\ found = (q \notin visited /\ UnionOf(sub) = macrostate_vec[q])
  OBVIOUS
<1>5. /\ AreFrames(w)
      /\ found => \A p : IsIn(w, p) <=> IsIn(fr, p) \/ p = q
      /\ ~found => \A p : IsIn(w, p) <=> IsIn(fr, p)
  <2>1. CASE found
    <3>1. q \in Staying
      BY <1>3, <1>4, <2>1 DEF Gone, Staying
    <3>2. PICK f : f = Frame(q, sub)
      OBVIOUS
    <3>3. f \in FrameSet /\ f.of = q /\ IsFrame(f)
      BY <1>2, <1>4, <2>1, <3>1, <3>2, FoundIsFrame
    <3>4. ~IsIn(fr, q)
      BY <1>3, <1>4, <2>1
    <3>5. w = Append(fr, f)
      BY <1>4, <2>1, <3>2
    <3>6. AreFrames(w) /\ \A p : IsIn(w, p) <=> IsIn(fr, p) \/ p = f.of
      BY <3>3, <3>4, <3>5, PushedFrames
    <3>7. QED
      BY <2>1, <3>3, <3>6
  <2>2. CASE ~found
    <3>1. w = fr
      BY <1>4, <2>2
    <3>2. QED
      BY <2>2, <3>1
  <2>3. QED
    BY <2>1, <2>2, <1>4
<1>6. FramesRight'
  <2>1. AreFrames(w)'
    BY <1>1, <1>5 DEF AreFrames
  <2>2. QED
    BY <1>4, <2>1 DEF FramesRight, AreFrames
<1>7. \A p : InFrames(p)' <=> IsIn(w, p)
  BY <1>4 DEF InFrames, IsIn
<1>8. IsUnion(q) /\ q \notin visited => found
  BY <1>2, <1>4, UnionIsFound
<1>9. VisitsRight'
  <2>1. \A p \in Gone : p \in visited'
    BY <1>3
  <2>2. ASSUME NEW p \in VecStates, InFrames(p)' PROVE p \in visited'
    BY <1>3, <1>4, <1>5, <1>7, <2>2
  <2>3. \A p \in VecStates : p < i' => p \in visited'
    BY <1>3
  <2>4. ASSUME NEW p \in VecStates, p \in visited', IsUnion(p)
        PROVE  p \in Gone \/ InFrames(p)'
    <3>1. CASE p \in visited
      BY <1>3, <1>4, <1>5, <1>7, <2>4, <3>1
    <3>2. CASE p \notin visited
      <4>1. p = q /\ found
        BY <1>8, <2>4, <3>2
      <4>2. QED
        BY <1>5, <1>7, <4>1
    <3>3. QED
      BY <3>1, <3>2
  <2>5. QED
    BY <1>1, <2>1, <2>2, <2>3, <2>4 DEF VisitsRight
<1>10. QED
  BY <1>6, <1>9

LEMMA AfterOuterRound ==
  ASSUME AfterInv, job \in Jobs, Outer
  PROVE  AfterInv'
<1>1. PICK v, n : v = macrostate_vec /\ n = Len(macrostate_vec)
  OBVIOUS
<1> DEFINE stops == i >= n \/ Cardinality(v[i]) = 1
           covering == Smaller(i, Upwards(i))
<1>2. /\ at = "outer" /\ frames = << >>
      /\ UNCHANGED <<job, result, subset_map, covered, macrostate_vec>>
      /\ stops => at' = "done" /\ UNCHANGED <<visited, frames, i>>
      /\ ~stops => /\ i' = i + 1 /\ visited' = visited \cup {i} /\ at' = "outer"
                   /\ frames' = IF i \notin visited /\ UnionOf(covering) = v[i]
                                  THEN <<Frame(i, covering)>> ELSE << >>
  BY <1>1 DEF Outer
<1>3. StatesNumbered /\ RemovedRight /\ FramesRight /\ VisitsRight
  BY <1>2 DEF AfterInv, Outermost
<1>4. /\ nfa' = nfa /\ VecStates' = VecStates /\ Gone' = Gone /\ Staying' = Staying
      /\ \A q : IsUnion(q)' <=> IsUnion(q)
      /\ \A f : IsFrame(f)' <=> IsFrame(f)
      /\ StatesNumbered' /\ RemovedRight'
  BY <1>2, <1>3, NothingMoves
<1>5. VecRight /\ n \in Nat /\ VecStates = 1 .. n /\ VecSets /\ IsOrdered
  BY <1>1, <1>3, VecFacts DEF StatesNumbered
<1>6. i \in Nat /\ i >= 1
  BY <1>3 DEF VisitsRight
<1>7. \A q : ~InFrames(q)
  BY <1>2 DEF InFrames, IsIn
<1>8. CASE stops
  <2>1. FramesRight'
    <3>1. frames' = << >>
      BY <1>2, <1>8
    <3>2. QED
      BY <3>1 DEF FramesRight, AreFrames
  <2>2. VisitsRight'
    BY <1>2, <1>3, <1>4, <1>8 DEF VisitsRight, InFrames, IsIn
  <2>3. ASSUME NEW q \in VecStates, IsUnion(q) PROVE q \in Gone
    <3>1. CASE q < i
      BY <1>3, <1>7, <2>3, <3>1 DEF VisitsRight
    <3>2. CASE q >= i
      <4>1. PICK x \in v[q] : TRUE
        BY <1>1, <2>3 DEF IsUnion
      <4>2. PICK p \in VecStates : Below(p, q) /\ x \in v[p]
        BY <1>1, <2>3, <4>1 DEF IsUnion
      <4>3. q < p /\ Cardinality(v[p]) < Cardinality(v[q]) /\ Cardinality(v[p]) \in Nat
            /\ Cardinality(v[q]) \in Nat
        BY <1>1, <1>5, <4>2 DEF IsOrdered, VecSets
      <4>4. i < n /\ i \in VecStates
        BY <1>5, <1>6, <3>2, <4>3
      <4>5. Cardinality(v[i]) = 1
        BY <1>5, <1>6, <1>8, <4>4
      <4>6. Cardinality(v[q]) <= 1
        <5>1. CASE q = i
          BY <4>5, <5>1
        <5>2. CASE i < q
          BY <1>1, <1>5, <4>4, <4>5, <5>2 DEF VecRight
        <5>3. QED
          BY <1>5, <1>6, <3>2, <5>1, <5>2
      <4>7. Cardinality(v[p]) = 0
        BY <4>3, <4>6
      <4>8. IsFiniteSet(v[p])
        <5>1. v[p] \in MacrostatesIn(nfa) /\ IsInput(nfa)
          BY <1>1, <1>5, NfaIsInput DEF VecSets
        <5>2. QED
          BY <5>1, MacrostatesHold, FS_Subset DEF IsInput
      <4>9. v[p] = {}
        BY <4>7, <4>8, FS_EmptySet
      <4>10. QED
        BY <4>2, <4>9
    <3>3. QED
      BY <1>5, <1>6, <3>1, <3>2
  <2>4. Outermost'
    BY <1>4, <2>1, <2>2, <2>3 DEF Outermost
  <2>5. QED
    BY <1>2, <1>8, <2>4 DEF AfterInv, Collecting, Sorting
<1>9. CASE ~stops
  <2>1. i < n /\ i \in VecStates /\ i + 1 \in VecStates /\ i + 1 # i
    BY <1>5, <1>6, <1>9
  <2>2. v[i] # {}
    BY <1>1, <1>3, <2>1, NoneIsEmpty
  <2>3. LooksFar(i, Upwards(i))
    BY <1>1, <1>5, <1>6, <2>1 DEF LooksFar, Upwards, IsOrdered, Staying
  <2>4. covering = {j \in Staying : Below(j, i)}
    BY <1>5, <2>1, <2>3, SmallerStay
  <2> HIDE DEF covering
  <2>5. PICK q, sub, fr : q = i /\ sub = covering /\ fr = << >>
    OBVIOUS
  <2>6. <<Frame(q, sub)>> = Append(fr, Frame(q, sub))
    BY <2>5
  <2>7. frames' = IF q \notin visited /\ UnionOf(sub) = macrostate_vec[q]
                    THEN Append(fr, Frame(q, sub)) ELSE fr
    BY <1>1, <1>2, <1>9, <2>5, <2>6
  <2>8. AreFrames(fr) /\ \A p : IsIn(fr, p) <=> InFrames(p)
    BY <1>2, <1>3, <2>5 DEF FramesRight, InFrames
  <2>9. /\ i' \in Nat /\ i' >= 1 /\ visited' = visited \cup {q}
        /\ \A p \in VecStates : p < i' => p < i \/ p = q
    BY <1>2, <1>5, <1>6, <1>9, <2>5
  <2>10. q \in VecStates /\ macrostate_vec[q] # {} /\ sub = {j \in Staying : Below(j, q)}
    BY <1>1, <2>1, <2>2, <2>4, <2>5
  <2>11. FramesRight' /\ VisitsRight'
    BY <1>2, <1>3, <2>7, <2>8, <2>9, <2>10, VisitKeeps
  <2>12. Outermost'
    BY <1>2, <1>4, <1>9, <2>11 DEF Outermost
  <2>13. QED
    BY <1>2, <1>9, <2>12 DEF AfterInv, Collecting, Sorting
<1>10. QED
  BY <1>8, <1>9

LEMMA AfterRecurse ==
  ASSUME AfterInv, job \in Jobs, Recurse
  PROVE  AfterInv'
<1>1. PICK f, q, front : f = Last(frames) /\ q = LowestOf(f.left) /\ front = Front(frames)
  OBVIOUS
<1>2. PICK below, sub, h : /\ below = f.left \ {q} /\ sub = Smaller(q, below)
                           /\ h = [f EXCEPT !.left = below]
  OBVIOUS
<1>3. PICK fr : fr = Append(front, h)
  OBVIOUS
<1>4. /\ at = "outer" /\ at' = "outer" /\ frames # << >>
      /\ ~LastOrSingle(f.left)
      /\ UNCHANGED <<job, result, subset_map, covered, macrostate_vec, i>>
      /\ visited' = visited \cup {q}
      /\ frames' = IF q \notin visited /\ UnionOf(sub) = macrostate_vec[q]
                     THEN Append(fr, Frame(q, sub)) ELSE fr
  BY <1>1, <1>2, <1>3 DEF Recurse
<1>5. StatesNumbered /\ RemovedRight /\ FramesRight /\ VisitsRight
  BY <1>4 DEF AfterInv, Outermost
<1>6. VecRight /\ VecSets /\ IsOrdered /\ GoneCovered /\ VecStates \subseteq Nat
  BY <1>5, VecFacts DEF StatesNumbered, RemovedRight
<1>7. /\ AreFrames(front) /\ f \in FrameSet /\ IsFrame(f)
      /\ \A p : InFrames(p) <=> IsIn(front, p) \/ p = f.of
      /\ ~IsIn(front, f.of)
  <2>1. PICK g : g = frames
    OBVIOUS
  <2>2. AreFrames(g) /\ g # << >>
    BY <1>4, <1>5, <2>1 DEF FramesRight
  <2>3. /\ AreFrames(Front(g)) /\ Last(g) \in FrameSet /\ IsFrame(Last(g))
        /\ \A p : IsIn(g, p) <=> IsIn(Front(g), p) \/ p = Last(g).of
        /\ ~IsIn(Front(g), Last(g).of)
    BY <2>2, PoppedFrames
  <2>4. QED
    BY <1>1, <2>1, <2>3 DEF InFrames
<1>8. /\ f.of \in Staying /\ IsUnion(f.of) /\ f.left \subseteq f.covering
      /\ \A j \in f.covering : j \in VecStates /\ Below(j, f.of)
      /\ \A j \in Staying : Below(j, f.of) => j \in f.covering
      /\ \A j \in f.covering \ f.left : \A l \in f.left : j < l
  BY <1>7 DEF IsFrame
<1>9. q \in f.left /\ \A l \in f.left : q <= l
  <2>1. f.left \in SUBSET Nat
    BY <1>6, <1>8
  <2>2. f.left # {}
    <3>1. SUFFICES ASSUME f.left = {} PROVE FALSE
      OBVIOUS
    <3>2. Cardinality(f.left) = 0
      BY <3>1, FS_EmptySet
    <3>3. LastOrSingle(f.left)
      BY <3>2 DEF LastOrSingle
    <3>4. QED
      BY <1>4, <3>3
  <2>3. QED
    BY <1>1, <2>1, <2>2, LowestIsLeast
<1>10. /\ h.of = f.of /\ h.covering = f.covering /\ h.left = below /\ h \in FrameSet
  BY <1>2, <1>7 DEF FrameSet
<1>11. IsFrame(h)
  <2>1. \A j \in f.covering \ below : \A l \in below : j < l
    <3> SUFFICES ASSUME NEW j \in f.covering \ below, NEW l \in below PROVE j < l
      OBVIOUS
    <3>1. j \in Nat /\ l \in Nat /\ l \in f.left /\ l # q
      BY <1>2, <1>6, <1>8
    <3>2. CASE j = q
      BY <1>9, <3>1, <3>2
    <3>3. CASE j # q
      BY <1>2, <1>8, <3>1, <3>3
    <3>4. QED
      BY <3>2, <3>3
  <2>2. below \subseteq f.covering
    BY <1>2, <1>8
  <2>3. QED
    BY <1>8, <1>10, <2>1, <2>2 DEF IsFrame
<1>12. AreFrames(fr) /\ \A p : IsIn(fr, p) <=> InFrames(p)
  <2>1. ~IsIn(front, h.of)
    BY <1>7, <1>10
  <2>2. AreFrames(fr) /\ \A p : IsIn(fr, p) <=> IsIn(front, p) \/ p = h.of
    BY <1>3, <1>7, <1>10, <1>11, <2>1, PushedFrames
  <2>3. QED
    BY <1>7, <1>10, <2>2
<1>13. q \in VecStates /\ f.of \in VecStates /\ Below(q, f.of) /\ q # f.of
  BY <1>8, <1>9 DEF Below, Staying
<1>14. macrostate_vec[q] # {}
  BY <1>5, <1>13, NoneIsEmpty
<1>15. LooksFar(q, below)
  <2>1. ASSUME NEW j \in Staying, Below(j, q) PROVE j \in below
    <3>1. j \in VecStates /\ q < j /\ j \in Nat /\ q \in Nat
      BY <1>6, <1>13, <2>1 DEF Staying, IsOrdered
    <3>2. j \in f.covering
      BY <1>6, <1>8, <1>13, <2>1, <3>1, BelowIsTransitive
    <3>3. j \in f.left
      BY <1>8, <1>9, <3>1, <3>2
    <3>4. QED
      BY <1>2, <3>1, <3>3
  <2>2. below \subseteq VecStates /\ q \notin below
    BY <1>2, <1>8
  <2>3. QED
    BY <2>1, <2>2 DEF LooksFar
<1>16. sub = {j \in Staying : Below(j, q)}
  BY <1>2, <1>6, <1>13, <1>15, SmallerStay
<1>17. i' \in Nat /\ i' >= 1 /\ \A p \in VecStates : p < i' => p < i \/ p = q
  BY <1>4, <1>5 DEF VisitsRight
<1>18. FramesRight' /\ VisitsRight'
  BY <1>4, <1>5, <1>12, <1>13, <1>14, <1>16, <1>17, VisitKeeps
<1>19. StatesNumbered' /\ RemovedRight'
  BY <1>4, <1>5, NothingMoves
<1>20. Outermost'
  BY <1>4, <1>18, <1>19 DEF Outermost
<1>21. QED
  BY <1>4, <1>20 DEF AfterInv, Collecting, Sorting

(* A macrostate is removed, and all that stays below takes its place.       *)
LEMMA AfterRemove ==
  ASSUME AfterInv, job \in Jobs, RemoveAndReturn
  PROVE  AfterInv'
<1>1. PICK f, e, v, S, W, K, A, B, C :
        /\ f = Last(frames) /\ e = f.of /\ v = macrostate_vec /\ S = macrostate_vec[e]
        /\ W = VecStates /\ K = Staying /\ A = nfa /\ B = result /\ C = result'
  OBVIOUS
<1>2. PICK N : N = {subset_map[macrostate_vec[j]] : j \in
                      {n \in f.covering : macrostate_vec[n] \notin DOMAIN covered}}
  OBVIOUS
<1>3. /\ at = "outer" /\ at' = "outer" /\ frames # << >>
      /\ C = remove_covered_state(B, N, subset_map[S])
      /\ covered' = With(covered, S, subset_map[S])
      /\ frames' = Front(frames)
      /\ UNCHANGED <<job, subset_map, macrostate_vec, visited, i>>
  BY <1>1, <1>2 DEF RemoveAndReturn
<1>4. StatesNumbered /\ RemovedRight /\ FramesRight /\ VisitsRight
  BY <1>3 DEF AfterInv, Outermost
<1>5. VecRight /\ VecSets /\ IsOrdered /\ GoneCovered /\ W \subseteq Nat
  BY <1>1, <1>4, VecFacts DEF StatesNumbered, RemovedRight
<1>6. /\ AreFrames(frames') /\ IsFrame(f)
      /\ \A p : InFrames(p) <=> IsIn(frames', p) \/ p = e
      /\ ~IsIn(frames', e)
  <2>1. PICK g : g = frames
    OBVIOUS
  <2>2. AreFrames(g) /\ g # << >>
    BY <1>3, <1>4, <2>1 DEF FramesRight
  <2>3. /\ AreFrames(Front(g)) /\ IsFrame(Last(g))
        /\ \A p : IsIn(g, p) <=> IsIn(Front(g), p) \/ p = Last(g).of
        /\ ~IsIn(Front(g), Last(g).of)
    BY <2>2, PoppedFrames
  <2>4. QED
    BY <1>1, <1>3, <2>1, <2>3 DEF InFrames
<1>7. /\ e \in K /\ e \in W /\ IsUnion(e)
      /\ \A j \in f.covering : j \in W /\ Below(j, e)
      /\ \A j \in K : Below(j, e) => j \in f.covering
  BY <1>1, <1>6 DEF IsFrame, Staying
<1>8. /\ \A p, q \in W : v[p] = v[q] => p = q
      /\ \A q \in W : subset_map[v[q]] = q
      /\ \A q \in W : v[q] \in DOMAIN subset_map
      /\ \A q \in W : q \in K <=> v[q] \notin DOMAIN covered
      /\ K \subseteq W
  BY <1>1, <1>4, <1>5 DEF StatesNumbered, VecRight, VecSets, Staying
<1>9. subset_map[S] = e /\ S # {} /\ S \notin DOMAIN covered /\ S \in DOMAIN subset_map
  BY <1>1, <1>7, <1>8 DEF IsUnion
<1>10. N = {j \in K : Below(j, e)}
  <2>1. \A j \in f.covering : macrostate_vec[j] \notin DOMAIN covered <=> j \in K
    BY <1>1, <1>7, <1>8
  <2>2. \A j \in K : subset_map[macrostate_vec[j]] = j
    BY <1>1, <1>8
  <2>3. QED
    BY <1>2, <1>7, <2>1, <2>2
<1>11. C = remove_covered_state(B, N, e)
  BY <1>3, <1>9
<1>12. IsMachine(B) /\ B.states = W
  BY <1>1, <1>4 DEF RemovedRight
<1>13. /\ C.states = B.states /\ C.final = B.final \ {e} /\ IsMachine(C)
       /\ e \in B.initial => C.initial = (B.initial \ {e}) \cup N
       /\ e \notin B.initial => C.initial = B.initial
       /\ MovesRemoved(B.delta, C.delta, N, e)
  BY <1>11, <1>12, RemovedFields
<1>14. DOMAIN covered' = DOMAIN covered \cup {S} /\ covered'[S] = e
       /\ \A R \in DOMAIN covered : covered'[R] = covered[R]
  BY <1>3, <1>9 DEF With
<1>15. VecStates' = W /\ nfa' = A /\ Staying' = K \ {e}
       /\ \A q : q \in Gone' <=> q \in Gone \/ q = e
  <2>1. VecStates' = W /\ nfa' = A
    BY <1>1, <1>3 DEF VecStates, nfa
  <2>2. \A q \in W : v[q] \in DOMAIN covered' <=> v[q] \in DOMAIN covered \/ q = e
    BY <1>1, <1>7, <1>8, <1>14
  <2>3. QED
    BY <1>1, <1>3, <1>7, <2>1, <2>2 DEF Staying, Gone
<1>16. \A p, q : Below(p, q)' <=> Below(p, q)
  BY <1>3 DEF Below
<1>17. \A q : IsUnion(q)' <=> IsUnion(q)
  BY <1>1, <1>3, <1>15, <1>16 DEF IsUnion
<1>18. \A x \in v[e] : \E r \in N : r \in K /\ r # e /\ x \in v[r]
  <2>1. ASSUME NEW x \in v[e] PROVE \E r \in K : Below(r, e) /\ x \in v[r]
    BY <1>1, <1>5, <1>7, CoveredByStaying
  <2>2. QED
    BY <1>10, <2>1 DEF Below
<1>19. StatesNumbered'
  BY <1>1, <1>3, <1>4, <1>15 DEF StatesNumbered, VecRight
<1>20. GoneCovered'
  <2> SUFFICES ASSUME NEW q \in W, q \in Gone \/ q = e, NEW x \in v[q]
               PROVE  \E p \in K \ {e} : Below(p, q) /\ x \in v[p]
    <3>1. \A q \in Gone' : q \in W
      BY <1>15 DEF Gone
    <3>2. QED
      BY <1>1, <1>3, <1>15, <1>16, <3>1 DEF GoneCovered
  <2>1. CASE q = e
    BY <1>10, <1>18, <2>1
  <2>2. CASE q \in Gone
    <3>1. PICK p \in K : Below(p, q) /\ x \in v[p]
      BY <1>1, <1>5, <2>2 DEF GoneCovered
    <3>2. CASE p # e
      BY <3>1, <3>2
    <3>3. CASE p = e
      <4>1. PICK r \in N : r \in K /\ r # e /\ x \in v[r]
        BY <1>18, <3>1, <3>3
      <4>2. r \in W /\ Below(r, e) /\ Below(e, q)
        BY <1>8, <1>10, <3>1, <3>3, <4>1
      <4>3. Below(r, q)
        BY <1>1, <1>5, <1>7, <4>2, BelowIsTransitive
      <4>4. QED
        BY <4>1, <4>3
    <3>4. QED
      BY <3>2, <3>3
  <2>3. QED
    BY <2>1, <2>2
<1>21. Built(A, C, v, K \ {e}, {})
  <2>1. Built(A, B, v, K, {})
    BY <1>1, <1>4 DEF RemovedRight
  <2>2. N \in SUBSET B.states
    BY <1>8, <1>10, <1>12
  <2>3. TakesPlace(v, K, N, e)
    <3>1. \A r \in N : r # e /\ v[r] \subseteq v[e]
      BY <1>1, <1>10 DEF Below
    <3>2. QED
      BY <1>18, <3>1 DEF TakesPlace
  <2>4. QED
    BY <1>11, <1>12, <2>1, <2>2, <2>3, RemoveKeepsBuilt
<1>22. RemovedRight'
  <2>1. ASSUME NEW R \in DOMAIN covered'
        PROVE  R \in DOMAIN subset_map' /\ R # {} /\ covered'[R] = subset_map'[R]
    <3>1. CASE R = S
      BY <1>3, <1>9, <1>14, <3>1
    <3>2. CASE R # S
      BY <1>3, <1>4, <1>14, <3>2 DEF RemovedRight
    <3>3. QED
      BY <3>1, <3>2
  <2>2. FinalRight(A, C, v, K \ {e})
    <3>1. B.final = {q \in K : v[q] \cap A.final # {}}
      BY <1>1, <1>4 DEF RemovedRight, FinalRight
    <3>2. QED
      BY <1>13, <3>1 DEF FinalRight
  <2>3. \A q \in N : q # e /\ q \notin Gone
    BY <1>1, <1>10 DEF Below, Staying, Gone
  <2>4. (\A m \in B.delta : m[3] \notin Gone) /\ (\A q \in B.initial : q \notin Gone)
    BY <1>1, <1>4 DEF RemovedRight
  <2>5. ASSUME NEW m \in C.delta PROVE m[3] \notin Gone'
    <3>1. (m \in B.delta /\ m[3] # e) \/ m[3] \in N
      BY <1>13 DEF MovesRemoved
    <3>2. QED
      BY <1>15, <2>3, <2>4, <3>1
  <2>6. ASSUME NEW q \in C.initial PROVE q \notin Gone'
    <3>1. (q \in B.initial /\ q # e) \/ q \in N
      BY <1>13
    <3>2. QED
      BY <1>15, <2>3, <2>4, <3>1
  <2>7. /\ IsMachine(result') /\ result'.states = VecStates'
        /\ Built(nfa', result', macrostate_vec', Staying', {})
        /\ FinalRight(nfa', result', macrostate_vec', Staying')
    BY <1>1, <1>3, <1>12, <1>13, <1>15, <1>21, <2>2
  <2>8. QED
    BY <1>1, <1>20, <2>1, <2>5, <2>6, <2>7 DEF RemovedRight
<1>23. FramesRight'
  <2>1. PICK w : w = frames'
    OBVIOUS
  <2>2. ASSUME NEW k \in 1 .. Len(w) PROVE IsFrame(w[k])'
    <3>1. IsFrame(w[k]) /\ w[k].of # e
      BY <1>6, <2>1 DEF AreFrames, IsIn
    <3>2. QED
      BY <1>1, <1>15, <1>16, <1>17, <3>1 DEF IsFrame
  <2>3. AreFrames(w)'
    BY <1>6, <2>1, <2>2 DEF AreFrames
  <2>4. QED
    BY <2>1, <2>3 DEF FramesRight, AreFrames
<1>24. VisitsRight'
  <2>1. \A p : InFrames(p)' <=> IsIn(frames', p)
    BY DEF InFrames, IsIn
  <2>2. /\ i \in Nat /\ i >= 1
        /\ \A q \in Gone : q \in visited
        /\ \A q \in W : InFrames(q) => q \in visited
        /\ \A q \in W : q < i => q \in visited
        /\ \A q \in W : q \in visited /\ IsUnion(q) => q \in Gone \/ InFrames(q)
    BY <1>1, <1>4 DEF VisitsRight
  <2>3. e \in visited
    BY <1>6, <1>7, <2>2
  <2>4. QED
    BY <1>3, <1>6, <1>15, <1>17, <2>1, <2>2, <2>3 DEF VisitsRight
<1>25. Outermost'
  BY <1>3, <1>19, <1>22, <1>23, <1>24 DEF Outermost
<1>26. QED
  BY <1>3, <1>25 DEF AfterInv, Collecting, Sorting

LEMMA AfterRemoves ==
  ASSUME AfterInv, job.type = "after"
  PROVE  RemovedIsDead
<1>1. CASE at \in {"determinize", "sort"}
  <2>1. DOMAIN covered = {}
    BY <1>1 DEF AfterInv, Collecting, Sorting, NothingRemoved, Empty
  <2>2. QED
    BY <2>1 DEF RemovedIsDead, Removed
<1>2. CASE at \in {"outer", "done"}
  <2>1. StatesNumbered /\ RemovedRight
    BY <1>2 DEF AfterInv, Outermost
  <2>2. ASSUME NEW S \in DOMAIN covered PROVE covered[S] \in Gone
    <3>1. S \in MacrostatesIn(nfa) /\ covered[S] = subset_map[S]
      BY <2>1 DEF StatesNumbered, RemovedRight
    <3>2. PICK q \in VecStates : macrostate_vec[q] = S
      BY <2>1, <3>1 DEF StatesNumbered
    <3>3. covered[S] = q
      BY <2>1, <3>1, <3>2 DEF StatesNumbered
    <3>4. QED
      BY <3>2, <3>3 DEF Gone
  <2>3. \A q \in Removed : q \in Gone
    BY <2>2 DEF Removed
  <2>4. \A q \in result.final : q \notin Gone
    BY <2>1 DEF RemovedRight, FinalRight, Staying, Gone
  <2>5. \A m \in result.delta : m[1] \notin Gone /\ m[3] \notin Gone
    BY <2>1 DEF RemovedRight, Built, MovesFit, Staying, Gone
  <2>6. \A q \in result.initial : q \notin Gone
    BY <2>1 DEF RemovedRight
  <2>7. QED
    BY <2>3, <2>4, <2>5, <2>6 DEF RemovedIsDead
<1>3. QED
  BY <1>1, <1>2 DEF AfterInv

LEMMA AfterEndsRight ==
  ASSUME AfterInv, job \in Jobs
  PROVE  EndsRight
<1> SUFFICES ASSUME at = "done"
             PROVE  DOMAIN subset_map \ DOMAIN covered = Residuals(nfa) /\ KeepsLanguage
  BY DEF EndsRight
<1>1. StatesNumbered /\ RemovedRight /\ \A q \in VecStates : IsUnion(q) => q \in Gone
  BY DEF AfterInv, Outermost
<1>2. PICK v, W, L, A, B : /\ v = macrostate_vec /\ W = VecStates /\ L = Staying
                           /\ A = nfa /\ B = result
  OBVIOUS
<1>3. IsInput(A)
  BY <1>2, NfaIsInput
<1>4. Complete(A, B, v, L) /\ FinalRight(A, B, v, L)
  BY <1>1, <1>2 DEF RemovedRight, Complete
<1>5. KeepsLanguage
  <2>1. ASSUME NEW word \in Seq(Nat) PROVE Accepts(B, word) <=> Accepts(A, word)
    <3>1. Len(word) \in Nat
      OBVIOUS
    <3>2. QED
      BY <1>3, <1>4, <3>1, CompleteKeepsLanguage
  <2>2. QED
    BY <1>2, <2>1 DEF KeepsLanguage
<1>6. VecRight /\ VecSets
  BY <1>1, VecFacts DEF StatesNumbered
<1>7. /\ \A q \in W : v[q] \in MacrostatesIn(A)
      /\ \A p, q \in W : v[p] = v[q] => p = q
      /\ \A S \in MacrostatesIn(A) : \E q \in W : v[q] = S
      /\ DOMAIN subset_map = MacrostatesIn(A)
      /\ \A q \in W : q \in L <=> v[q] \notin DOMAIN covered
      /\ L \subseteq W
      /\ \A q \in L : ~IsUnion(q)
  BY <1>1, <1>2, <1>6 DEF StatesNumbered, VecRight, VecSets, Staying, Gone
<1>8. ASSUME NEW q \in L PROVE v[q] \in MacrostatesIn(A) /\ StandsAlone(v, L, q)
  <2>1. CASE v[q] = {}
    BY <1>7, <2>1 DEF StandsAlone
  <2>2. CASE v[q] # {}
    <3>1. PICK x \in v[q] : \A p \in W : ~(Below(p, q) /\ x \in v[p])
      BY <1>2, <1>7, <2>2 DEF IsUnion
    <3>2. \A r \in L : v[r] \subseteq v[q] /\ v[r] # v[q] => x \notin v[r]
      BY <1>2, <1>7, <3>1 DEF Below
    <3>3. QED
      BY <1>7, <3>2 DEF StandsAlone
  <2>3. QED
    BY <2>1, <2>2
<1>9. L # {}
  <2>1. PICK q \in W : v[q] = A.initial
    BY <1>3, <1>7, MacrostatesHold
  <2>2. CASE q \in L
    BY <2>2
  <2>3. CASE q \notin L
    <3>1. q \in Gone /\ v[q] # {}
      BY <1>1, <1>2, <1>7, <2>3 DEF Gone, RemovedRight
    <3>2. \E p \in Staying : TRUE
      BY <1>1, <1>2, <3>1 DEF RemovedRight, GoneCovered
    <3>3. QED
      BY <1>2, <3>2
  <2>4. QED
    BY <2>2, <2>3
<1>10. \A S : S \in Residuals(A) <=> \E q \in L : S = v[q]
  BY <1>3, <1>4, <1>8, <1>9, ResidualsStay
<1>11. \A S : S \in DOMAIN subset_map \ DOMAIN covered <=> \E q \in L : S = v[q]
  BY <1>7
<1>12. QED
  BY <1>2, <1>5, <1>10, <1>11

LEMMA AfterStep ==
  ASSUME AfterInv, job \in Jobs,
         Determinize \/ Sort \/ Build \/ Outer \/ Recurse \/ RemoveAndReturn
  PROVE  AfterInv'
BY AfterDeterminize, AfterSort, AfterBuild, AfterOuterRound, AfterRecurse, AfterRemove

(* The inductive invariant of both algorithms.                              *)
ResidualInv ==
  /\ job \in Jobs
  /\ job.type = "with" => WithHolds
  /\ job.type = "after" => AfterInv

(* Every state that can be reached has the inductive invariant.             *)
THEOREM ResidualInvariant == Spec => []ResidualInv
<1>1. Init => ResidualInv
  <2> SUFFICES ASSUME Init PROVE ResidualInv
    OBVIOUS
  <2>1. job \in Jobs
    BY DEF Init
  <2>2. job.type = "with" => WithHolds
    BY WithInit DEF WithHolds
  <2>3. job.type = "after" => AfterInv
    BY AfterInit
  <2>4. QED
    BY <2>1, <2>2, <2>3 DEF ResidualInv
<1>2. ResidualInv /\ [Next]_vars => ResidualInv'
  <2> SUFFICES ASSUME ResidualInv, [Next]_vars PROVE ResidualInv'
    OBVIOUS
  <2>1. job \in Jobs /\ job.type \in {"with", "after"}
    BY JobsAssumption DEF ResidualInv
  <2>2. CASE UNCHANGED vars
    <3>1. /\ UNCHANGED <<job, result, subset_map, covered, at>>
          /\ UNCHANGED <<worklist, expanding, symbols_left, targets, covering_states,
                         covering_indexes, to_check, erase_state, to_update>>
          /\ UNCHANGED <<unsorted, macrostate_vec, visited, frames, i>>
      BY <2>2 DEF vars, withvars, aftervars
    <3>2. WithHolds => WithHolds'
      <4>1. ASSUME NEW g, WithInv(g) PROVE WithInv(g)'
        <5>1. nfa' = nfa /\ target_res' = target_res /\ (Coming' <=> Coming)
          BY <3>1 DEF nfa, target_res, Coming
        <5>2. \A q : IsNew(q)' <=> IsNew(q)
          BY <3>1, <5>1 DEF IsNew
        <5>3. KeptStates(g)' = KeptStates(g) /\ Used(g)' = Used(g)
          BY <3>1, <5>2 DEF KeptStates, Used
        <5>4. WithTypes' /\ WithNames(g)'
          BY <3>1, <4>1, <5>1, <5>2 DEF WithInv, WithTypes, WithNames
        <5>5. KeptInv(g)'
          BY <3>1, <4>1, <5>1, <5>3 DEF WithInv, KeptInv, CoversAreUsed, SmallerAreCovers,
             NewIsCover, NoneIsCovered, CoversAreSmaller
        <5>6. CoveredInv(g)'
          BY <3>1, <4>1, <5>3 DEF WithInv, CoveredInv, CoveredBySmaller, CoveredByUsed
        <5>7. (IsNeeded(g)' <=> IsNeeded(g)) /\ (IsUnused' <=> IsUnused)
          BY <3>1, <5>1, <5>3 DEF IsNeeded, IsUnused
        <5>8. NewInv(g)'
          BY <3>1, <4>1, <5>1, <5>3, <5>7
             DEF WithInv, NewInv, NewTarget, NewCovers, NewIsNeeded
        <5>9. Erasing(g)'
          BY <3>1, <4>1, <5>3, <5>7 DEF WithInv, Erasing
        <5>10. WithWork(g)'
          BY <3>1, <4>1, <5>1, <5>2 DEF WithInv, WithWork, IsPair
        <5>11. Owed(g)' = Owed(g)
          <6>1. \A q, a : (Waits(g, q)' <=> Waits(g, q)) /\ (Reading(q, a)' <=> Reading(q, a))
            BY <3>1 DEF Waits, Reading
          <6>2. QED
            BY <3>1, <5>1, <5>2, <6>1 DEF Owed
        <5>12. WithBuilt(g)'
          BY <3>1, <4>1, <5>1, <5>3, <5>11 DEF WithInv, WithBuilt
        <5>13. QED
          BY <5>4, <5>5, <5>6, <5>8, <5>9, <5>10, <5>12 DEF WithInv
      <4>2. QED
        BY <4>1 DEF WithHolds
    <3>3. AfterInv => AfterInv'
      <4>1. /\ nfa' = nfa /\ VecStates' = VecStates /\ Gone' = Gone
            /\ \A q : IsUnion(q)' <=> IsUnion(q)
            /\ \A f : IsFrame(f)' <=> IsFrame(f)
            /\ StatesNumbered => StatesNumbered'
            /\ RemovedRight => RemovedRight'
        BY <3>1, NothingMoves
      <4>2. Collecting => Collecting'
        BY <3>1, <4>1 DEF Collecting, NothingRemoved
      <4>3. Sorting => Sorting'
        BY <3>1, <4>1 DEF Sorting, NothingRemoved, VecRight
      <4>4. FramesRight => FramesRight'
        BY <3>1, <4>1 DEF FramesRight, AreFrames
      <4>5. \A q : InFrames(q)' <=> InFrames(q)
        BY <3>1 DEF InFrames, IsIn
      <4>6. VisitsRight => VisitsRight'
        BY <3>1, <4>1, <4>5 DEF VisitsRight
      <4>7. Outermost => Outermost'
        BY <3>1, <4>1, <4>4, <4>6 DEF Outermost
      <4>8. QED
        BY <3>1, <4>2, <4>3, <4>7 DEF AfterInv
    <3>4. QED
      BY <3>1, <3>2, <3>3 DEF ResidualInv
  <2>3. ASSUME Next PROVE ResidualInv'
    <3>1. job' = job
      BY <2>3 DEF Next, Pop, ReadSymbol, Compare, Update, MoveToCovered, EnterTarget,
         Determinize, Sort, Build, Outer, Recurse, RemoveAndReturn
    <3>2. CASE job.type = "with"
      <4>1. WithHolds /\ at \in {"loop", "check", "update", "done"}
        BY <3>2 DEF ResidualInv, WithHolds, WithInv, WithTypes
      <4>2. \/ Pop \/ ReadSymbol \/ (\E S \in to_check : Compare(S))
            \/ (\E S \in to_update : Update(S)) \/ MoveToCovered \/ EnterTarget
        BY <2>3, <4>1 DEF Next, Determinize, Sort, Build, Outer, Recurse, RemoveAndReturn
      <4>3. WithHolds'
        BY <2>1, <4>1, <4>2, WithStep
      <4>4. QED
        BY <2>1, <3>1, <3>2, <4>3 DEF ResidualInv
    <3>3. CASE job.type = "after"
      <4>1. AfterInv /\ at \in {"determinize", "sort", "outer", "done"}
        BY <3>3 DEF ResidualInv, AfterInv
      <4>2. Determinize \/ Sort \/ Build \/ Outer \/ Recurse \/ RemoveAndReturn
        BY <2>3, <4>1 DEF Next, Pop, ReadSymbol, Compare, Update, MoveToCovered, EnterTarget
      <4>3. AfterInv'
        BY <2>1, <4>1, <4>2, AfterStep
      <4>4. QED
        BY <2>1, <3>1, <3>3, <4>3 DEF ResidualInv
    <3>4. QED
      BY <2>1, <3>2, <3>3
  <2>4. QED
    BY <2>2, <2>3
<1>3. QED
  BY <1>1, <1>2, PTL DEF Spec

LEMMA InvariantMeans ==
  ASSUME ResidualInv
  PROVE  MacrostatesAreRight /\ (at = "done" => KeepsLanguage)
<1>1. job \in Jobs /\ job.type \in {"with", "after"}
  BY JobsAssumption DEF ResidualInv
<1>2. CASE job.type = "with"
  <2>1. RemovedIsDead /\ EndsRight
    BY <1>1, <1>2, WithRemoves, WithEndsRight DEF ResidualInv
  <2>2. QED
    BY <2>1, EndsRightMeans DEF EndsRight
<1>3. CASE job.type = "after"
  <2>1. RemovedIsDead /\ EndsRight
    BY <1>1, <1>3, AfterRemoves, AfterEndsRight DEF ResidualInv
  <2>2. QED
    BY <2>1, EndsRightMeans DEF EndsRight
<1>4. QED
  BY <1>1, <1>2, <1>3

(* What is removed is dead for good, and in the end just the macrostates    *)
(* that are no union of smaller ones are left, whichever of                 *)
(* reduce_residual_with and reduce_residual_after did it and in whatever    *)
(* order the maps were gone through.                                        *)
THEOREM MacrostatesAreAlwaysRight == Spec => []MacrostatesAreRight
<1>1. ResidualInv => MacrostatesAreRight
  BY InvariantMeans
<1>2. QED
  BY <1>1, ResidualInvariant, PTL

(* The automaton both algorithms end with accepts the words of the one they *)
(* were given, words of any length.                                         *)
THEOREM LanguageIsKept == Spec => [](at = "done" => KeepsLanguage)
<1>1. ResidualInv => (at = "done" => KeepsLanguage)
  BY InvariantMeans
<1>2. QED
  BY <1>1, ResidualInvariant, PTL

=============================================================================
