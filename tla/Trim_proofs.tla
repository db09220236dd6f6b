------------------------------ MODULE Trim_proofs ------------------------------
(***************************************************************************)
(* Proofs about TarjanScc and Trim, for automata of any size.              *)
(***************************************************************************)
EXTENDS Trim, Automata_proofs, FiniteSetTheorems, SequenceTheorems, TLAPS

(***************************************************************************)
(* A graph: which states reach which.                                      *)
(***************************************************************************)
IsPath(A, q, r) == r \in ReachIn(A, {q})

LEMMA PathInside ==
  ASSUME NEW A, IsGraph(A), NEW q \in A.states
  PROVE  /\ IsPath(A, q, q)
         /\ \A r : IsPath(A, q, r) => r \in A.states
         /\ \A m \in A.delta : IsPath(A, q, m[1]) => IsPath(A, q, m[3])
<1>1. {q} \in SUBSET A.states
  OBVIOUS
<1>2. QED
  BY <1>1, ReachHolds DEF IsGraph, IsPath

LEMMA PathStaysIn ==
  ASSUME NEW A, IsGraph(A), NEW q \in A.states, NEW C, q \in C, EdgeClosed(A, C),
         NEW r, IsPath(A, q, r)
  PROVE  r \in C
<1>1. {q} \in SUBSET A.states /\ {q} \subseteq C
  OBVIOUS
<1>2. ReachIn(A, {q}) \subseteq C
  BY <1>1, ReachIsLeast DEF IsGraph, EdgeClosed
<1>3. QED
  BY <1>2 DEF IsPath

LEMMA PathsJoin ==
  ASSUME NEW A, IsGraph(A), NEW p \in A.states, NEW q, NEW r,
         IsPath(A, p, q), IsPath(A, q, r)
  PROVE  IsPath(A, p, r)
<1> DEFINE C == ReachIn(A, {p})
<1>1. q \in A.states /\ q \in C
  BY PathInside DEF IsPath
<1>2. EdgeClosed(A, C)
  BY PathInside DEF IsPath, EdgeClosed
<1>3. QED
  BY <1>1, <1>2, PathStaysIn DEF IsPath

LEMMA MoveIsPath ==
  ASSUME NEW A, IsGraph(A), NEW m \in A.delta
  PROVE  m[1] \in A.states /\ m[3] \in A.states /\ IsPath(A, m[1], m[3])
<1>1. m[1] \in A.states /\ m[3] \in A.states
  BY DEF IsGraph, MovesInside
<1>2. QED
  BY <1>1, PathInside

(* What a set reaches is what its members reach.                            *)
LEMMA ReachIsByPaths ==
  ASSUME NEW A, IsGraph(A), NEW S \in SUBSET A.states
  PROVE  ReachIn(A, S) = {r \in A.states : \E q \in S : IsPath(A, q, r)}
<1> DEFINE C == {r \in A.states : \E q \in S : IsPath(A, q, r)}
<1>1. EdgeClosed(A, C)
  BY PathInside, MoveIsPath DEF EdgeClosed
<1>2. S \subseteq C
  BY PathInside
<1>3. ReachIn(A, S) \subseteq C
  <2> HIDE DEF C
  <2>1. QED
    BY <1>1, <1>2, ReachIsLeast DEF IsGraph, EdgeClosed
<1>4. ASSUME NEW q \in S, NEW r, IsPath(A, q, r) PROVE r \in ReachIn(A, S)
  <2>1. S \subseteq ReachIn(A, S) /\ EdgeClosed(A, ReachIn(A, S))
    BY ReachHolds DEF IsGraph, EdgeClosed
  <2>2. QED
    BY <1>4, <2>1, PathStaysIn
<1>5. QED
  BY <1>3, <1>4

(* The states that reach each other.                                        *)
Strong(A, q) == {r \in A.states : IsPath(A, q, r) /\ IsPath(A, r, q)}

LEMMA StrongIsClass ==
  ASSUME NEW A, IsGraph(A), NEW q \in A.states, NEW r \in Strong(A, q)
  PROVE  Strong(A, r) = Strong(A, q) /\ q \in Strong(A, q)
<1>1. r \in A.states /\ IsPath(A, q, r) /\ IsPath(A, r, q) /\ IsPath(A, q, q)
  BY PathInside DEF Strong
<1>2. \A s \in A.states : IsPath(A, q, s) => IsPath(A, r, s)
  BY <1>1, PathsJoin
<1>3. \A s \in A.states : IsPath(A, r, s) => IsPath(A, q, s)
  BY <1>1, PathsJoin
<1>4. \A s \in A.states : IsPath(A, s, q) => IsPath(A, s, r)
  BY <1>1, PathsJoin
<1>5. \A s \in A.states : IsPath(A, s, r) => IsPath(A, s, q)
  BY <1>1, PathsJoin
<1>6. QED
  BY <1>1, <1>2, <1>3, <1>4, <1>5 DEF Strong


(***************************************************************************)
(* The search, seen as sets: the states that are initialized, those of     *)
(* them on_stack and those closed with their component; the moves not yet  *)
(* passed; and the move a state stands at.                                 *)
(***************************************************************************)
Seen == {q \in aut.states : initialized[q]}
Open == {q \in aut.states : on_stack[q]}
Closed == Seen \ Open
Waiting == {m \in aut.delta : m \in moves_left[m[1]]}
next == [q \in aut.states |-> current_move(q)]

SearchTypes ==
  /\ \E in \in Inputs : aut = in.aut /\ order = in.order
  /\ program_stack \in Seq(aut.states) /\ tarjan_stack \in Seq(aut.states)
  /\ index_cnt \in Nat
  /\ initialized \in [aut.states -> BOOLEAN] /\ on_stack \in [aut.states -> BOOLEAN]
  /\ index \in [aut.states -> Nat] /\ lowlink \in [aut.states -> Nat]
  /\ moves_left \in [aut.states -> SUBSET aut.delta]
  /\ \A q \in aut.states : \A m \in moves_left[q] : m[1] = q
  /\ useful \in SUBSET aut.states /\ answer \in BOOLEAN
  /\ sccs \in Seq(SUBSET aut.states)
  /\ phase \in {"main", "moves", "closing", "done"}

(* States are seen in the order of their indices, all of them reached.      *)
Indexed ==
  /\ \A q \in Seen : index[q] < index_cnt /\ q \in ReachIn(aut, aut.initial)
  /\ \A q, r \in Seen : index[q] = index[r] => q = r
  /\ Open \subseteq Seen
  /\ \A q \in Open : lowlink[q] <= index[q]

StackInOrder ==
  /\ ToSet(tarjan_stack) = Open
  /\ \A m, n \in 1 .. Len(tarjan_stack) :
       m < n => index[tarjan_stack[m]] < index[tarjan_stack[n]]

(* The components given so far.                                             *)
GivenUpTo(n) == UNION {sccs[k] : k \in 1 .. n}
GivenInv ==
  /\ \A n \in 1 .. Len(sccs) :
       /\ \A q \in sccs[n] : sccs[n] = Strong(aut, q)
       /\ EdgeClosed(aut, GivenUpTo(n))
       /\ \A k \in 1 .. n - 1 : sccs[k] \cap sccs[n] = {}
  /\ GivenUpTo(Len(sccs)) = Closed
  /\ EdgeClosed(aut, Closed)

IsUseful(q) ==
  /\ q \in ReachIn(aut, aut.initial)
  /\ \E r \in aut.final : IsPath(aut, q, r)

UsefulInv ==
  client = "useful" =>
    /\ \A q \in useful : IsUseful(q) /\ q \in Seen
    /\ \A q \in Closed : IsUseful(q) => q \in useful
    /\ \A q \in aut.final : q \in Open => q \in useful

(* program_stack: b initial states that wait, then a path up to d, then     *)
(* perhaps a state that has been called and not been seen yet.              *)
Called(d) == Len(program_stack) = d + 1
Returned(d) == Len(program_stack) = d /\ phase = "main"

Shape(b, d) ==
  /\ b \in Nat /\ d \in Nat /\ b <= d /\ b <= Len(order)
  /\ Len(program_stack) = d \/ Called(d)
  /\ b = d => Len(program_stack) = d /\ phase = "main"
  /\ Called(d) => phase = "main" /\ program_stack[d + 1] \notin Seen
  /\ \A i \in 1 .. b : program_stack[i] = order[i]
  /\ \A i \in b + 1 .. Len(order) : order[i] \in Seen

StandsAtMove(q) == next[q] \in Waiting /\ next[q][1] = q

PathInv(b, d) ==
  /\ \A i \in b + 1 .. d : program_stack[i] \in Open
  /\ \A i, j \in b + 1 .. d :
       i < j => index[program_stack[i]] < index[program_stack[j]]
  /\ \A i \in b + 1 .. d : i < d \/ Called(d) =>
       /\ StandsAtMove(program_stack[i])
       /\ next[program_stack[i]][3] = program_stack[i + 1]
  /\ b < d /\ Returned(d) => StandsAtMove(program_stack[d])
  /\ phase = "closing" => \A m \in Waiting : m[1] # program_stack[d]

OnPath(b, d) == {program_stack[i] : i \in b + 1 .. d}

(* A state that is open and not on the path has been left for good.  What   *)
(* was passed when a state of the path was seen leads below that state.     *)
MovesInv(b, d) ==
  /\ \A m \in Waiting : m[1] \in OnPath(b, d)
  /\ \A m \in aut.delta : m[1] \in Open /\ m \notin Waiting => m[3] \in Seen
  /\ \A i \in b + 1 .. d : \A m \in aut.delta :
       m[1] \in Open /\ m \notin Waiting /\ index[m[1]] < index[program_stack[i]]
         => index[m[3]] < index[program_stack[i]]

ReachInv(b, d) ==
  /\ \A i \in b + 1 .. d : \A r \in Open :
       index[program_stack[i]] <= index[r] => IsPath(aut, program_stack[i], r)
  /\ \A r \in Open : \E i \in b + 1 .. d :
       index[program_stack[i]] <= index[r] /\ IsPath(aut, r, program_stack[i])

(* lowlink[q] is the index of an open state that q reaches, and no more     *)
(* than where a move leads to that starts from q or above q, below limit.   *)
Leads(q) == \E r \in Open : lowlink[q] = index[r] /\ IsPath(aut, q, r)
Covers(q, limit) ==
  \A m \in aut.delta :
    /\ m \notin Waiting /\ m[1] \in Open /\ m[3] \in Open
    /\ index[q] <= index[m[1]] /\ index[m[1]] < limit /\ index[m[3]] < index[q]
    => lowlink[q] <= index[m[3]]

LowInv(b, d) ==
  \A i \in b + 1 .. d :
    /\ Leads(program_stack[i])
    /\ i < d => Covers(program_stack[i], index[program_stack[i + 1]])
    /\ i = d /\ ~Returned(d) => Covers(program_stack[i], index_cnt)

(* What Return takes over from the state that was called.                   *)
Returns(q, r) ==
  /\ r \in Seen /\ index[q] < index[r] /\ Covers(q, index[r])
  /\ r \in Open => Leads(r) /\ Covers(r, index_cnt)
  /\ r \notin Open => index[q] <= lowlink[r] /\ \A o \in Open : index[o] < index[r]
ReturnInv(b, d) ==
  b < d /\ Returned(d) => Returns(program_stack[d], next[program_stack[d]][3])

(* A useful state below the component that was closed has made a state      *)
(* useful that will be in the component of the move's source.               *)
PassesOn(m) ==
  /\ m[1] \in Open /\ m[3] \in Closed /\ m[3] \in useful
  /\ m \notin Waiting \/ (phase = "main" /\ m = next[m[1]])
  => \E r \in useful : r \in Open /\ r \in Strong(aut, m[1])

SearchInv(b, d) ==
  /\ Shape(b, d) /\ PathInv(b, d) /\ MovesInv(b, d) /\ ReachInv(b, d)
  /\ LowInv(b, d) /\ ReturnInv(b, d)
  /\ client = "useful" => \A m \in aut.delta : PassesOn(m)

TarjanInv ==
  /\ SearchTypes /\ Indexed /\ StackInOrder /\ GivenInv /\ UsefulInv
  /\ phase # "done" => answer = TRUE /\ \E b, d \in Nat : SearchInv(b, d)
  /\ phase = "done" /\ answer => Closed = ReachIn(aut, aut.initial)


LEMMA SearchGraph ==
  ASSUME SearchTypes
  PROVE  /\ IsGraph(aut) /\ IsAutomaton(aut, Nat) /\ Symbol \subseteq Nat
         /\ aut.initial \in SUBSET aut.states /\ aut.final \in SUBSET aut.states
         /\ order \in Seq(aut.states) /\ ToSet(order) = aut.initial
<1>1. PICK in \in Inputs : aut = in.aut /\ order = in.order
  BY DEF SearchTypes
<1>2. /\ Symbol \subseteq Nat
      /\ IsAutomaton(aut, Symbol) /\ Numbered(aut)
      /\ order \in Seq(aut.states) /\ ToSet(order) = aut.initial
  BY <1>1, InputsAssumption
<1>3. IsFiniteSet(aut.states)
  BY <1>2, FarBoundsStates
<1>4. aut.delta \subseteq aut.states \X Nat \X aut.states
  BY <1>2 DEF IsAutomaton
<1>5. QED
  BY <1>2, <1>3, <1>4 DEF IsGraph, MovesInside, IsAutomaton

LEMMA ReachedIsReach == \A S : ReachedFrom(S) = ReachIn(aut, S)
BY DEF ReachedFrom, ReachIn

LEMMA StronglyIsStrong ==
  ASSUME SearchTypes, NEW q \in aut.states
  PROVE  Strongly(q) = Strong(aut, q)
BY SearchGraph, PathInside, ReachedIsReach DEF Strongly, Strong, IsPath

(* A state with moves left stands at one of them.                           *)
LEMMA StandsAtAMove ==
  ASSUME SearchTypes, NEW q \in aut.states, moves_left[q] # {}
  PROVE  current_move(q) \in moves_left[q]
<1> DEFINE M == moves_left[q]
           Symbols == {m[2] : m \in M}
<1>1. M \in SUBSET aut.delta /\ aut.delta \subseteq aut.states \X Nat \X aut.states
      /\ \A m \in M : m[1] = q
  BY SearchGraph DEF SearchTypes, IsAutomaton
<1>2. aut.states \subseteq Nat
  BY InputsAssumption DEF SearchTypes, Numbered
<1>3. Symbols \in SUBSET Nat /\ Symbols # {}
  BY <1>1
<1>4. PICK a \in Symbols : \A c \in Symbols : a <= c
  <2> HIDE DEF Symbols
  <2>1. QED
    BY <1>3, LeastElement
<1> DEFINE Targets == {m[3] : m \in {k \in M : k[2] = a}}
<1>5. Targets \in SUBSET Nat /\ Targets # {}
  BY <1>1, <1>2
<1>6. PICK t \in Targets : \A c \in Targets : t <= c
  <2> HIDE DEF Targets
  <2>1. QED
    BY <1>5, LeastElement
<1>7. PICK m \in M : m[2] = a /\ m[3] = t
  OBVIOUS
<1>8. ASSUME NEW n \in M PROVE m = n \/ Before(m, n)
  <2>1. a \in Nat /\ t \in Nat /\ n[2] \in Nat /\ n[3] \in Nat /\ a <= n[2]
    BY <1>1, <1>2, <1>3, <1>4, <1>5
  <2>2. CASE n[2] # a
    BY <1>7, <2>1, <2>2 DEF Before
  <2>3. CASE n[2] = a
    <3>1. t <= n[3]
      BY <2>3, <1>6
    <3>2. CASE n[3] # t
      BY <1>7, <2>1, <2>3, <3>1, <3>2 DEF Before
    <3>3. CASE n[3] = t
      <4>1. /\ m = <<m[1], m[2], m[3]>> /\ n = <<n[1], n[2], n[3]>>
            /\ m[1] = q /\ n[1] = q
        BY <1>1
      <4>2. QED
        BY <1>7, <2>3, <3>3, <4>1
    <3>4. QED
      BY <3>2, <3>3
  <2>4. QED
    BY <2>2, <2>3
<1>9. \E k \in M : \A n \in M : k = n \/ Before(k, n)
  BY <1>8
<1> HIDE DEF M
<1>10. (CHOOSE k \in M : \A n \in M : k = n \/ Before(k, n)) \in M
  BY <1>9
<1>11. QED
  BY <1>10 DEF current_move, M

LEMMA WaitingMoves ==
  ASSUME SearchTypes
  PROVE  /\ Waiting \subseteq aut.delta /\ Seen \subseteq aut.states /\ Open \subseteq aut.states
         /\ \A q \in aut.states : moves_left[q] = {m \in Waiting : m[1] = q}
         /\ \A m \in Waiting : next[m[1]] \in Waiting /\ next[m[1]][1] = m[1]
         /\ \A m \in aut.delta : m[1] \in aut.states /\ m[3] \in aut.states
<1>1. /\ \A q \in aut.states : moves_left[q] \in SUBSET aut.delta
      /\ \A q \in aut.states : \A m \in moves_left[q] : m[1] = q
  BY DEF SearchTypes
<1>2. \A m \in aut.delta : m[1] \in aut.states /\ m[3] \in aut.states
  BY SearchGraph, MoveIsPath
<1>3. \A q \in aut.states : moves_left[q] = {m \in Waiting : m[1] = q}
  BY <1>1 DEF Waiting
<1>4. ASSUME NEW m \in Waiting PROVE next[m[1]] \in Waiting /\ next[m[1]][1] = m[1]
  <2>1. m[1] \in aut.states /\ m \in moves_left[m[1]]
    BY <1>2 DEF Waiting
  <2>2. current_move(m[1]) \in moves_left[m[1]]
    BY <2>1, StandsAtAMove
  <2>3. next[m[1]] = current_move(m[1])
    BY <2>1 DEF next
  <2>4. QED
    BY <2>1, <2>2, <2>3, <1>3
<1>5. QED
  BY <1>2, <1>3, <1>4 DEF Waiting, Seen, Open


LEMMA SearchStarts ==
  ASSUME TarjanInit
  PROVE  TarjanInv
<1>1. PICK in \in Inputs : aut = in.aut /\ order = in.order
  BY DEF TarjanInit
<1>2. order \in Seq(aut.states)
  BY <1>1, InputsAssumption
<1>3. /\ program_stack = order /\ tarjan_stack = << >> /\ index_cnt = 0
      /\ initialized = [q \in aut.states |-> FALSE] /\ on_stack = [q \in aut.states |-> FALSE]
      /\ index = [q \in aut.states |-> 0] /\ lowlink = [q \in aut.states |-> 0]
      /\ moves_left = [q \in aut.states |-> {}]
      /\ phase = "main" /\ useful = {} /\ answer = TRUE /\ sccs = << >>
  BY DEF TarjanInit
<1>4. SearchTypes
  BY <1>1, <1>2, <1>3 DEF SearchTypes
<1>5. Seen = {} /\ Open = {} /\ Closed = {}
  BY <1>3 DEF Seen, Open, Closed
<1>6. Waiting = {}
  <2>1. \A m \in aut.delta : m[1] \in aut.states
    BY <1>4, WaitingMoves
  <2>2. QED
    BY <1>3, <2>1 DEF Waiting
<1>7. Indexed /\ UsefulInv
  BY <1>3, <1>5 DEF Indexed, UsefulInv
<1>8. StackInOrder
  BY <1>3, <1>5 DEF StackInOrder, ToSet
<1>9. GivenInv
  <2>1. Len(sccs) = 0
    BY <1>3
  <2>2. GivenUpTo(Len(sccs)) = {}
    BY <2>1 DEF GivenUpTo
  <2>3. QED
    BY <1>5, <2>1, <2>2 DEF GivenInv, EdgeClosed
<1>10. PICK b \in Nat : b = Len(order)
  BY <1>2
<1>11. SearchInv(b, b)
  <2>1. Shape(b, b)
    BY <1>2, <1>3, <1>10 DEF Shape, Called
  <2>2. PathInv(b, b) /\ ReachInv(b, b) /\ LowInv(b, b) /\ ReturnInv(b, b)
    BY <1>3, <1>5, <1>10 DEF PathInv, Called, ReachInv, LowInv, ReturnInv
  <2>3. MovesInv(b, b)
    BY <1>5, <1>6 DEF MovesInv
  <2>4. \A m \in aut.delta : PassesOn(m)
    BY <1>5 DEF PassesOn
  <2>5. QED
    BY <2>1, <2>2, <2>3, <2>4 DEF SearchInv
<1>12. QED
  BY <1>3, <1>4, <1>7, <1>8, <1>9, <1>10, <1>11 DEF TarjanInv

(* What follows from the invariant at any step of the search.               *)
Searching(b, d) ==
  /\ SearchTypes /\ Indexed /\ StackInOrder /\ GivenInv /\ UsefulInv
  /\ answer = TRUE /\ b \in Nat /\ d \in Nat /\ SearchInv(b, d)

LEMMA StackPlaces ==
  ASSUME NEW b, NEW d, Searching(b, d)
  PROVE  /\ b \in Nat /\ d \in Nat /\ b <= d /\ d <= Len(program_stack)
         /\ Len(program_stack) \in Nat
         /\ \A i \in 1 .. Len(program_stack) : program_stack[i] \in aut.states
         /\ \A q \in aut.states : index[q] \in Nat /\ lowlink[q] \in Nat
         /\ index_cnt \in Nat
         /\ Len(program_stack) = d \/ Len(program_stack) = d + 1
<1>1. program_stack \in Seq(aut.states)
  BY DEF Searching, SearchTypes
<1>2. Len(program_stack) \in Nat
      /\ \A i \in 1 .. Len(program_stack) : program_stack[i] \in aut.states
  BY <1>1
<1>3. /\ b \in Nat /\ d \in Nat /\ b <= d
      /\ Len(program_stack) = d \/ Len(program_stack) = d + 1
  BY DEF Searching, SearchInv, Shape, Called
<1>4. /\ \A q \in aut.states : index[q] \in Nat /\ lowlink[q] \in Nat
      /\ index_cnt \in Nat
  BY DEF Searching, SearchTypes
<1>5. QED
  BY <1>2, <1>3, <1>4

(* While no state is on the path, none is open.                             *)
LEMMA IdleHasNoOpen ==
  ASSUME NEW b, NEW d, Searching(b, d), b = d
  PROVE  Open = {}
<1>1. \A r \in Open : \E i \in b + 1 .. d : TRUE
  BY DEF Searching, SearchInv, ReachInv
<1>2. QED
  BY <1>1, StackPlaces

LEMMA PathIsOpen ==
  ASSUME NEW b, NEW d, Searching(b, d), NEW i \in b + 1 .. d
  PROVE  /\ program_stack[i] \in Open /\ program_stack[i] \in Seen
         /\ program_stack[i] \in aut.states
         /\ index[program_stack[i]] <= index[program_stack[d]]
<1>1. i \in 1 .. Len(program_stack) /\ i <= d /\ d \in b + 1 .. d
  BY StackPlaces
<1>2. program_stack[i] \in Open /\ program_stack[i] \in aut.states
  BY <1>1, StackPlaces DEF Searching, SearchInv, PathInv
<1>3. program_stack[i] \in Seen
  BY <1>2 DEF Searching, Indexed
<1>4. index[program_stack[i]] \in Nat
  BY <1>2, StackPlaces
<1>5. index[program_stack[i]] <= index[program_stack[d]]
  <2>1. CASE i = d
    BY <1>4, <2>1
  <2>2. CASE i # d
    <3>1. i < d
      BY <1>1, <2>2
    <3>2. index[program_stack[i]] < index[program_stack[d]]
      BY <1>1, <3>1 DEF Searching, SearchInv, PathInv
    <3>3. d \in 1 .. Len(program_stack)
      BY <1>1, StackPlaces
    <3>4. index[program_stack[d]] \in Nat
      BY <3>3, StackPlaces
    <3>5. QED
      BY <1>4, <3>2, <3>4
  <2>3. QED
    BY <2>1, <2>2
<1>6. QED
  BY <1>2, <1>3, <1>5

(* An open state reaches every open state that has been seen after it, and  *)
(* the end of the path.                                                     *)
LEMMA OpenReaches ==
  ASSUME NEW b, NEW d, Searching(b, d), NEW q \in Open, NEW r \in Open,
         index[q] <= index[r]
  PROVE  IsPath(aut, q, r)
<1>1. q \in aut.states /\ r \in aut.states /\ IsGraph(aut)
  BY WaitingMoves, SearchGraph DEF Searching
<1>2. PICK i \in b + 1 .. d :
        index[program_stack[i]] <= index[q] /\ IsPath(aut, q, program_stack[i])
  BY DEF Searching, SearchInv, ReachInv
<1>3. program_stack[i] \in aut.states
  BY PathIsOpen
<1>4. index[program_stack[i]] <= index[r]
  <2>1. index[program_stack[i]] \in Nat /\ index[q] \in Nat /\ index[r] \in Nat
    BY <1>1, <1>3, StackPlaces
  <2>2. QED
    BY <1>2, <2>1
<1>5. IsPath(aut, program_stack[i], r)
  BY <1>4 DEF Searching, SearchInv, ReachInv
<1>6. QED
  BY <1>1, <1>2, <1>5, PathsJoin

LEMMA OpenReachesTheEnd ==
  ASSUME NEW b, NEW d, Searching(b, d), NEW q \in Open
  PROVE  b < d /\ IsPath(aut, q, program_stack[d])
<1>1. q \in aut.states /\ IsGraph(aut)
  BY WaitingMoves, SearchGraph DEF Searching
<1>2. PICK i \in b + 1 .. d :
        index[program_stack[i]] <= index[q] /\ IsPath(aut, q, program_stack[i])
  BY DEF Searching, SearchInv, ReachInv
<1>3. b < d /\ d \in b + 1 .. d
  BY StackPlaces
<1>4. /\ program_stack[i] \in Open /\ program_stack[d] \in Open
      /\ index[program_stack[i]] <= index[program_stack[d]]
  BY <1>3, PathIsOpen
<1>5. IsPath(aut, program_stack[i], program_stack[d])
  BY <1>4, OpenReaches
<1>6. QED
  BY <1>1, <1>2, <1>3, <1>5, PathsJoin


LEMMA FrontOf ==
  ASSUME NEW D, NEW s \in Seq(D), s # << >>
  PROVE  /\ Front(s) \in Seq(D) /\ Len(s) \in Nat \ {0} /\ Len(Front(s)) = Len(s) - 1
         /\ \A i \in 1 .. Len(s) - 1 : Front(s)[i] = s[i]
         /\ Last(s) = s[Len(s)] /\ Last(s) \in D
<1>1. Len(s) \in Nat \ {0} /\ \A i \in 1 .. Len(s) : s[i] \in D
  BY EmptySeq
<1>2. Front(s) = [i \in 1 .. Len(s) - 1 |-> s[i]]
  BY <1>1 DEF Front, SubSeq
<1>3. Front(s) \in Seq(D) /\ Len(Front(s)) = Len(s) - 1
  BY <1>1, <1>2
<1>4. QED
  BY <1>1, <1>2, <1>3 DEF Last

(* A step that changes none of the vectors leaves the sets as they are.     *)
LEMMA SameSets ==
  ASSUME UNCHANGED <<aut, initialized, on_stack>>
  PROVE  Seen' = Seen /\ Open' = Open /\ Closed' = Closed
BY DEF Seen, Open, Closed

LEMMA SameMoves ==
  ASSUME UNCHANGED <<aut, moves_left>>
  PROVE  Waiting' = Waiting /\ next' = next
BY DEF Waiting, next, current_move

LEMMA SameIndices ==
  ASSUME Indexed, Seen' = Seen, Open' = Open, UNCHANGED <<aut, index, index_cnt, lowlink>>
  PROVE  Indexed'
BY DEF Indexed

LEMMA SameStack ==
  ASSUME StackInOrder, Open' = Open, UNCHANGED <<tarjan_stack, index>>
  PROVE  StackInOrder'
BY DEF StackInOrder

LEMMA SameGiven ==
  ASSUME GivenInv, Closed' = Closed, UNCHANGED <<aut, sccs>>
  PROVE  GivenInv'
BY ZenonT(40) DEF GivenInv, GivenUpTo

LEMMA SameUseful ==
  ASSUME UsefulInv, Seen' = Seen, Open' = Open, Closed' = Closed,
         UNCHANGED <<aut, client, useful>>
  PROVE  UsefulInv'
BY DEF UsefulInv, IsUseful

LEMMA SkipKeeps ==
  ASSUME NEW b, NEW d, Searching(b, d), Skip
  PROVE  TarjanInv'
<1> USE DEF Skip
<1>1. program_stack \in Seq(aut.states)
  BY DEF Searching, SearchTypes
<1>2. UNCHANGED <<aut, order, client, tarjan_stack, index_cnt, initialized, on_stack,
                  index, lowlink, moves_left, phase, useful, answer, sccs>>
  BY DEF input, node_info
<1>3. /\ Seen' = Seen /\ Open' = Open /\ Closed' = Closed
      /\ Waiting' = Waiting /\ next' = next
  BY <1>2, SameSets, SameMoves, Zenon
<1>4. PICK n \in Nat : Len(program_stack) = n + 1 /\ act_state = program_stack[n + 1]
  <2>1. Len(program_stack) - 1 \in Nat /\ (Len(program_stack) - 1) + 1 = Len(program_stack)
        /\ act_state = program_stack[Len(program_stack)]
    BY <1>1, FrontOf DEF act_state
  <2>2. QED
    BY <2>1
<1>5. act_state \in Seen /\ act_state \notin Open
  BY <1>1, FrontOf DEF act_state, Seen, Open
<1>6. b = n + 1 /\ d = n + 1
  <2>1. ~Called(d)
    <3>1. Called(d) => n = d
      BY <1>4, StackPlaces DEF Called
    <3>2. Called(d) => program_stack[d + 1] \notin Seen
      BY DEF Searching, SearchInv, Shape
    <3>3. QED
      BY <1>4, <1>5, <3>1, <3>2
  <2>2. d = n + 1
    BY <2>1, <1>4, StackPlaces DEF Called
  <2>3. b < d => program_stack[d] \in Open
    BY StackPlaces, PathIsOpen
  <2>4. QED
    BY <2>2, <2>3, <1>4, <1>5, StackPlaces
<1>7. Open = {}
  BY <1>6, IdleHasNoOpen
<1>8. Waiting = {}
  BY <1>6 DEF Searching, SearchInv, MovesInv, OnPath
<1>9. /\ program_stack' \in Seq(aut.states) /\ Len(program_stack') = n
      /\ \A i \in 1 .. n : program_stack'[i] = program_stack[i]
  BY <1>1, <1>4, FrontOf
<1>10. SearchTypes'
  BY <1>2, <1>9 DEF Searching, SearchTypes
<1>11. Indexed' /\ StackInOrder' /\ GivenInv' /\ UsefulInv'
  BY <1>2, <1>3, SameIndices, SameStack, SameGiven, SameUseful DEF Searching
<1>12. SearchInv(n, n)'
  <2>1. Shape(n, n)'
    <3>1. b <= Len(order) /\ order[n + 1] \in Seen
      BY <1>4, <1>5, <1>6 DEF Searching, SearchInv, Shape
    <3>2. order \in Seq(aut.states)
      BY SearchGraph DEF Searching
    <3>3. \A i \in 1 .. n : program_stack'[i] = order[i]
      BY <1>6, <1>9 DEF Searching, SearchInv, Shape
    <3>4. \A i \in n + 1 .. Len(order) : order[i] \in Seen
      BY <1>6, <3>1, <3>2 DEF Searching, SearchInv, Shape
    <3>5. QED
      BY <1>2, <1>3, <1>6, <1>9, <3>1, <3>2, <3>3, <3>4 DEF Shape, Called
  <2>2. PathInv(n, n)' /\ ReachInv(n, n)' /\ LowInv(n, n)' /\ ReturnInv(n, n)'
    BY <1>2, <1>3, <1>7, <1>8 DEF PathInv, Called, ReachInv, LowInv, ReturnInv
  <2>3. MovesInv(n, n)'
    BY <1>3, <1>7, <1>8 DEF MovesInv
  <2>4. (\A m \in aut.delta : PassesOn(m))'
    BY <1>3, <1>7 DEF PassesOn
  <2>5. QED
    BY <2>1, <2>2, <2>3, <2>4 DEF SearchInv
<1>13. QED
  BY <1>2, <1>10, <1>11, <1>12 DEF Searching, TarjanInv


LEMMA FinishKeeps ==
  ASSUME NEW b, NEW d, Searching(b, d), Finish
  PROVE  TarjanInv'
<1> USE DEF Finish
<1>1. UNCHANGED <<aut, order, client, program_stack, tarjan_stack, index_cnt, initialized,
                  on_stack, index, lowlink, moves_left, useful, answer, sccs>>
  BY DEF input, node_info
<1>2. Seen' = Seen /\ Open' = Open /\ Closed' = Closed
  BY <1>1, SameSets, Zenon
<1>3. b = d /\ b = 0
  <2>1. Len(program_stack) = 0
    OBVIOUS
  <2>2. QED
    BY <2>1, StackPlaces
<1>4. SearchTypes'
  BY <1>1 DEF Searching, SearchTypes
<1>5. Indexed' /\ StackInOrder' /\ GivenInv' /\ UsefulInv'
  BY <1>1, <1>2, SameIndices, SameStack, SameGiven, SameUseful DEF Searching
<1>6. Closed = ReachIn(aut, aut.initial)
  <2>1. Closed = Seen
    BY <1>3, IdleHasNoOpen DEF Closed
  <2>2. IsGraph(aut) /\ aut.initial \in SUBSET aut.states
        /\ order \in Seq(aut.states) /\ ToSet(order) = aut.initial
    BY SearchGraph DEF Searching
  <2>3. \A i \in 1 .. Len(order) : order[i] \in Closed
    BY <1>3, <2>1 DEF Searching, SearchInv, Shape
  <2>4. aut.initial \subseteq Closed
    BY <2>2, <2>3 DEF ToSet
  <2>5. ReachIn(aut, aut.initial) \subseteq Closed
    <3>1. EdgeClosed(aut, Closed)
      BY DEF Searching, GivenInv
    <3>2. QED
      BY <2>2, <2>4, <3>1, ReachIsLeast DEF IsGraph, EdgeClosed
  <2>6. Seen \subseteq ReachIn(aut, aut.initial)
    BY DEF Searching, Indexed
  <2>7. QED
    BY <2>1, <2>5, <2>6
<1>7. phase' = "done" /\ (Closed = ReachIn(aut, aut.initial))'
  BY <1>1, <1>2, <1>6
<1>8. QED
  BY <1>4, <1>5, <1>7 DEF TarjanInv

(* In the inner loop the state on top is the end of the path.               *)
LEMMA AtTheEnd ==
  ASSUME NEW b, NEW d, Searching(b, d), phase \in {"moves", "closing"}
  PROVE  /\ b < d /\ Len(program_stack) = d /\ act_state = program_stack[d]
         /\ d \in b + 1 .. d /\ d \in 1 .. d
         /\ act_state \in Open /\ act_state \in Seen /\ act_state \in aut.states
         /\ ~Called(d) /\ ~Returned(d)
<1>1. b < d /\ ~Called(d) /\ Len(program_stack) = d
  BY StackPlaces DEF Searching, SearchInv, Shape
<1>2. ~Returned(d)
  BY DEF Returned
<1>3. d \in b + 1 .. d /\ d \in 1 .. d
  BY <1>1, StackPlaces
<1>4. act_state = program_stack[d]
  BY <1>1 DEF act_state, Last
<1>5. QED
  BY <1>1, <1>2, <1>3, <1>4, PathIsOpen

LEMMA EndOfMovesKeeps ==
  ASSUME NEW b, NEW d, Searching(b, d), EndOfMoves
  PROVE  TarjanInv'
<1> USE DEF EndOfMoves
<1>1. UNCHANGED <<aut, order, client, program_stack, tarjan_stack, index_cnt, initialized,
                  on_stack, index, lowlink, moves_left, useful, answer, sccs>>
  BY DEF input, node_info
<1>2. /\ Seen' = Seen /\ Open' = Open /\ Closed' = Closed
      /\ Waiting' = Waiting /\ next' = next
  BY <1>1, SameSets, SameMoves, Zenon
<1>3. /\ b < d /\ Len(program_stack) = d /\ act_state = program_stack[d]
      /\ act_state \in aut.states /\ ~Called(d) /\ ~Returned(d)
  BY AtTheEnd
<1>4. \A m \in Waiting : m[1] # program_stack[d]
  BY <1>3, WaitingMoves DEF Searching
<1>5. SearchTypes'
  BY <1>1 DEF Searching, SearchTypes
<1>6. Indexed' /\ StackInOrder' /\ GivenInv' /\ UsefulInv'
  BY <1>1, <1>2, SameIndices, SameStack, SameGiven, SameUseful DEF Searching
<1>7. ~Called(d)' /\ ~Returned(d)'
  BY <1>1, <1>3 DEF Called, Returned
<1>8. Shape(b, d)'
  BY <1>1, <1>2, <1>3, <1>7 DEF Searching, SearchInv, Shape
<1>9. PathInv(b, d)'
  BY <1>1, <1>2, <1>3, <1>4, <1>7 DEF Searching, SearchInv, PathInv, StandsAtMove
<1>10. MovesInv(b, d)'
  BY <1>1, <1>2 DEF Searching, SearchInv, MovesInv, OnPath
<1>11. ReachInv(b, d)'
  BY <1>1, <1>2 DEF Searching, SearchInv, ReachInv
<1>12. LowInv(b, d)'
  BY <1>1, <1>2, <1>3, <1>7 DEF Searching, SearchInv, LowInv, Leads, Covers
<1>13. ReturnInv(b, d)'
  BY <1>7 DEF ReturnInv
<1>14. (client = "useful" => \A m \in aut.delta : PassesOn(m))'
  BY <1>1, <1>2 DEF Searching, SearchInv, PassesOn
<1>15. SearchInv(b, d)'
  BY <1>8, <1>9, <1>10, <1>11, <1>12, <1>13, <1>14 DEF SearchInv
<1>16. QED
  BY <1>1, <1>5, <1>6, <1>15 DEF Searching, TarjanInv


(* A move that is waited at does not lead to a closed state.                *)
LEMMA PendingIsNotClosed ==
  ASSUME NEW b, NEW d, Searching(b, d), NEW m \in Waiting, NEW i \in b + 1 .. d,
         m[1] = program_stack[i], m = next[m[1]], i < d \/ Called(d)
  PROVE  m[3] = program_stack[i + 1] /\ m[3] \notin Closed
<1>1. m[3] = program_stack[i + 1]
  BY DEF Searching, SearchInv, PathInv
<1>2. CASE i < d
  <2>1. i + 1 \in b + 1 .. d
    BY <1>2, StackPlaces
  <2>2. program_stack[i + 1] \in Open
    BY <2>1, PathIsOpen
  <2>3. QED
    BY <1>1, <2>2 DEF Closed
<1>3. CASE ~(i < d)
  <2>1. i = d /\ Called(d)
    BY <1>3, StackPlaces
  <2>2. program_stack[i + 1] \notin Seen
    BY <2>1 DEF Searching, SearchInv, Shape
  <2>3. QED
    BY <1>1, <2>2 DEF Closed
<1>4. QED
  BY <1>2, <1>3

LEMMA CallKeeps ==
  ASSUME NEW b, NEW d, Searching(b, d), Call
  PROVE  TarjanInv'
<1> USE DEF Call
<1>1. UNCHANGED <<aut, order, client, tarjan_stack, index_cnt, initialized,
                  on_stack, index, lowlink, moves_left, answer, sccs>>
  BY DEF input, node_info
<1>2. /\ Seen' = Seen /\ Open' = Open /\ Closed' = Closed
      /\ Waiting' = Waiting /\ next' = next
  BY <1>1, SameSets, SameMoves, Zenon
<1>3. /\ b < d /\ Len(program_stack) = d /\ act_state = program_stack[d]
      /\ d \in b + 1 .. d /\ d \in 1 .. d
      /\ act_state \in aut.states /\ ~Called(d) /\ ~Returned(d)
  BY AtTheEnd
<1>4. PICK t : t = program_stack[d]
  OBVIOUS
<1>5. PICK succ : succ = current_move(t)[3]
  OBVIOUS
<1>6. StandsAtMove(t) /\ next[t][3] = succ
  <2>1. t \in aut.states /\ moves_left[t] # {}
    BY <1>3, <1>4
  <2>2. current_move(t) \in moves_left[t] /\ next[t] = current_move(t)
    BY <2>1, StandsAtAMove DEF Searching, next
  <2>3. QED
    BY <1>5, <2>1, <2>2, WaitingMoves DEF Searching, StandsAtMove
<1>7. succ \in aut.states /\ succ \notin Seen
  <2>1. succ \in aut.states
    BY <1>6, WaitingMoves DEF Searching, StandsAtMove
  <2>2. QED
    BY <1>3, <1>4, <1>5, <2>1 DEF Seen
<1>8. useful' = useful
  <2>1. useful' = IF client = "useful" /\ succ \in useful THEN useful \cup {act_state} ELSE useful
    BY <1>3, <1>4, <1>5 DEF SuccDiscovered
  <2>2. client = "useful" => succ \notin useful
    BY <1>7 DEF Searching, UsefulInv
  <2>3. QED
    BY <2>1, <2>2
<1>9. /\ program_stack' \in Seq(aut.states) /\ Len(program_stack') = d + 1
      /\ \A i \in 1 .. d : program_stack'[i] = program_stack[i]
      /\ program_stack'[d + 1] = succ
  <2>1. program_stack \in Seq(aut.states)
    BY DEF Searching, SearchTypes
  <2>2. program_stack' = Append(program_stack, succ)
    BY <1>3, <1>4, <1>5
  <2>3. PICK longer : longer = Append(program_stack, succ)
    OBVIOUS
  <2>4. /\ longer \in Seq(aut.states) /\ Len(longer) = Len(program_stack) + 1
        /\ \A i \in 1 .. Len(program_stack) : longer[i] = program_stack[i]
        /\ longer[Len(program_stack) + 1] = succ
    BY <1>7, <2>1, <2>3, AppendProperties
  <2>5. QED
    BY <1>3, <2>2, <2>3, <2>4
<1>10. SearchTypes'
  BY <1>1, <1>8, <1>9 DEF Searching, SearchTypes
<1>11. Indexed' /\ StackInOrder' /\ GivenInv' /\ UsefulInv'
  BY <1>1, <1>2, <1>8, SameIndices, SameStack, SameGiven, SameUseful DEF Searching
<1>12. Called(d)' /\ ~Returned(d)'
  BY <1>9, StackPlaces DEF Called, Returned
<1>13. \A i \in b + 1 .. d : program_stack'[i] = program_stack[i] /\ i \in 1 .. d
  BY <1>9, StackPlaces
<1>14. Shape(b, d)'
  <2>1. \A i \in 1 .. b : program_stack'[i] = order[i]
    BY <1>9, StackPlaces DEF Searching, SearchInv, Shape
  <2>2. QED
    BY <1>1, <1>2, <1>3, <1>7, <1>9, <1>12, <2>1 DEF Searching, SearchInv, Shape
<1>15. PathInv(b, d)'
  <2>1. ASSUME NEW i \in b + 1 .. d
        PROVE  /\ StandsAtMove(program_stack[i])
               /\ next[program_stack[i]][3] = program_stack'[i + 1]
    <3>1. CASE i = d
      BY <1>4, <1>6, <1>9, <3>1
    <3>2. CASE i # d
      <4>1. i < d /\ i + 1 \in 1 .. d
        BY <3>2, StackPlaces
      <4>2. /\ StandsAtMove(program_stack[i])
            /\ next[program_stack[i]][3] = program_stack[i + 1]
        BY <4>1 DEF Searching, SearchInv, PathInv
      <4>3. QED
        BY <1>9, <4>1, <4>2
    <3>3. QED
      BY <3>1, <3>2
  <2>2. \A i \in b + 1 .. d : program_stack[i] \in Open
    BY PathIsOpen
  <2>3. \A i, j \in b + 1 .. d :
          i < j => index[program_stack[i]] < index[program_stack[j]]
    BY DEF Searching, SearchInv, PathInv
  <2>4. QED
    BY <1>1, <1>2, <1>12, <1>13, <2>1, <2>2, <2>3 DEF PathInv, StandsAtMove
<1>16. MovesInv(b, d)'
  <2>1. OnPath(b, d)' = OnPath(b, d)
    BY <1>13 DEF OnPath
  <2>2. QED
    BY <1>1, <1>2, <1>13, <2>1 DEF Searching, SearchInv, MovesInv
<1>17. ReachInv(b, d)'
  BY <1>1, <1>2, <1>13 DEF Searching, SearchInv, ReachInv
<1>18. LowInv(b, d)'
  <2>1. \A i \in b + 1 .. d : i < d => program_stack'[i + 1] = program_stack[i + 1]
    BY <1>9, StackPlaces
  <2>2. \A q : (Leads(q))' <=> Leads(q)
    BY <1>1, <1>2 DEF Leads
  <2>3. \A q, limit : (Covers(q, limit))' <=> Covers(q, limit)
    BY <1>1, <1>2 DEF Covers
  <2>4. ASSUME NEW i \in b + 1 .. d
        PROVE  /\ Leads(program_stack[i])
               /\ i < d => Covers(program_stack[i], index[program_stack[i + 1]])
               /\ i = d => Covers(program_stack[i], index_cnt)
    BY <1>3 DEF Searching, SearchInv, LowInv
  <2>5. ASSUME NEW i \in b + 1 .. d
        PROVE  /\ Leads(program_stack[i])'
               /\ i < d => Covers(program_stack[i], index[program_stack[i + 1]])'
               /\ i = d => Covers(program_stack[i], index_cnt)'
    BY <1>1, <1>13, <2>1, <2>2, <2>3, <2>4
  <2>6. QED
    BY <2>5 DEF LowInv
<1>19. ReturnInv(b, d)'
  BY <1>12 DEF ReturnInv
<1>20. (client = "useful" => \A m \in aut.delta : PassesOn(m))'
  <2>1. SUFFICES ASSUME client = "useful", NEW m \in aut.delta,
                        m[1] \in Open, m[3] \in Closed, m[3] \in useful,
                        m \notin Waiting \/ m = next[m[1]]
                 PROVE  \E r \in useful : r \in Open /\ r \in Strong(aut, m[1])
    BY <1>1, <1>2, <1>8 DEF PassesOn
  <2>2. m \notin Waiting
    <3>1. SUFFICES ASSUME m \in Waiting, m = next[m[1]] PROVE FALSE
      BY <2>1
    <3>2. PICK i \in b + 1 .. d : m[1] = program_stack[i]
      BY <3>1 DEF Searching, SearchInv, MovesInv, OnPath
    <3>3. CASE i = d
      BY <1>4, <1>6, <1>7, <2>1, <3>1, <3>2, <3>3 DEF Closed
    <3>4. CASE i # d
      <4>1. i < d
        BY <3>4, StackPlaces
      <4>2. QED
        BY <2>1, <3>1, <3>2, <4>1, PendingIsNotClosed
    <3>5. QED
      BY <3>3, <3>4
  <2>3. PassesOn(m)
    BY <2>1 DEF Searching, SearchInv
  <2>4. QED
    BY <2>1, <2>2, <2>3 DEF PassesOn
<1>21. SearchInv(b, d)'
  BY <1>14, <1>15, <1>16, <1>17, <1>18, <1>19, <1>20 DEF SearchInv
<1>22. QED
  BY <1>1, <1>10, <1>11, <1>21 DEF Searching, TarjanInv


(* What Return and PassMove do to the move that the end t of the path is at.*)
Passed(t) ==
  /\ UNCHANGED <<aut, order, client, program_stack, tarjan_stack, index_cnt, initialized,
                 on_stack, index, answer, sccs>>
  /\ moves_left' = [moves_left EXCEPT ![t] = @ \ {current_move(t)}]
  /\ phase' = "moves"

LEMMA PassedSets ==
  ASSUME NEW b, NEW d, Searching(b, d), NEW t \in aut.states, StandsAtMove(t), Passed(t)
  PROVE  /\ Seen' = Seen /\ Open' = Open /\ Closed' = Closed
         /\ Waiting' = Waiting \ {next[t]}
         /\ \A q \in aut.states : q # t => next'[q] = next[q]
         /\ next[t] = current_move(t) /\ next[t] \in aut.delta
         /\ moves_left' \in [aut.states -> SUBSET aut.delta]
         /\ \A q \in aut.states : \A m \in moves_left'[q] : m[1] = q
<1> USE DEF Passed
<1>1. Seen' = Seen /\ Open' = Open /\ Closed' = Closed
  BY SameSets
<1>2. next[t] = current_move(t)
  BY DEF next
<1>3. moves_left \in [aut.states -> SUBSET aut.delta]
      /\ \A q \in aut.states : \A m \in moves_left[q] : m[1] = q
  BY DEF Searching, SearchTypes
<1>4. /\ moves_left' \in [aut.states -> SUBSET aut.delta]
      /\ \A q \in aut.states : q # t => moves_left'[q] = moves_left[q]
      /\ moves_left'[t] = moves_left[t] \ {next[t]}
  BY <1>2, <1>3
<1>5. \A q \in aut.states : \A m \in moves_left'[q] : m[1] = q
  BY <1>3, <1>4
<1>6. \A q \in aut.states : q # t => next'[q] = next[q]
  <2>1. ASSUME NEW q \in aut.states, q # t PROVE next'[q] = next[q]
    <3>1. moves_left'[q] = moves_left[q]
      BY <1>4, <2>1
    <3>2. current_move(q)' = current_move(q)
      BY <3>1 DEF current_move
    <3>3. QED
      BY <3>2 DEF next
  <2>2. QED
    BY <2>1
<1>7. Waiting' = Waiting \ {next[t]}
  <2>1. \A m \in aut.delta : m[1] \in aut.states
    BY WaitingMoves DEF Searching
  <2>2. ASSUME NEW m \in aut.delta
        PROVE  m \in moves_left'[m[1]] <=> m \in moves_left[m[1]] /\ m # next[t]
    <3>1. CASE m[1] = t
      BY <1>4, <3>1
    <3>2. CASE m[1] # t
      <4>1. moves_left'[m[1]] = moves_left[m[1]]
        BY <1>4, <2>1, <3>2
      <4>2. m # next[t]
        BY <3>2 DEF StandsAtMove
      <4>3. QED
        BY <4>1, <4>2
    <3>3. QED
      BY <3>1, <3>2
  <2>3. QED
    BY <2>2 DEF Waiting
<1>8. next[t] \in aut.delta
  BY WaitingMoves DEF Searching, StandsAtMove
<1>9. QED
  BY <1>1, <1>2, <1>4, <1>5, <1>6, <1>7, <1>8

LEMMA PassedKeeps ==
  ASSUME NEW b, NEW d, Searching(b, d), b < d, Len(program_stack) = d,
         NEW t, t = program_stack[d], StandsAtMove(t), next[t][3] \in Seen, Passed(t)
  PROVE  /\ ~Called(d)' /\ ~Returned(d)'
         /\ Shape(b, d)' /\ PathInv(b, d)' /\ MovesInv(b, d)' /\ ReachInv(b, d)'
         /\ ReturnInv(b, d)' /\ StackInOrder' /\ GivenInv'
<1> USE DEF Passed
<1>1. /\ d \in b + 1 .. d /\ d \in 1 .. d /\ t \in aut.states /\ t \in Open /\ t \in Seen
  BY StackPlaces, PathIsOpen
<1>2. /\ Seen' = Seen /\ Open' = Open /\ Closed' = Closed
      /\ Waiting' = Waiting \ {next[t]}
      /\ \A q \in aut.states : q # t => next'[q] = next[q]
      /\ next[t] \in aut.delta
  BY <1>1, PassedSets
<1>3. ~Called(d) /\ ~Called(d)' /\ ~Returned(d)'
  BY StackPlaces DEF Called, Returned
<1>4. Shape(b, d)'
  BY <1>2, <1>3 DEF Searching, SearchInv, Shape
<1>5. \A i \in b + 1 .. d : /\ program_stack[i] \in aut.states /\ index[program_stack[i]] \in Nat
                            /\ index[program_stack[i]] <= index[t]
  BY PathIsOpen, StackPlaces
<1>6. PathInv(b, d)'
  <2>1. \A i \in b + 1 .. d : program_stack[i] \in Open
    BY PathIsOpen
  <2>2. \A i, j \in b + 1 .. d :
          i < j => index[program_stack[i]] < index[program_stack[j]]
    BY DEF Searching, SearchInv, PathInv
  <2>3. ASSUME NEW i \in b + 1 .. d, i < d
        PROVE  /\ StandsAtMove(program_stack[i])'
               /\ next'[program_stack[i]][3] = program_stack[i + 1]
    <3>1. /\ StandsAtMove(program_stack[i])
          /\ next[program_stack[i]][3] = program_stack[i + 1]
      BY <2>3 DEF Searching, SearchInv, PathInv
    <3>2. index[program_stack[i]] < index[t]
      BY <1>1, <2>2, <2>3
    <3>3. program_stack[i] # t
      BY <1>5, <3>2
    <3>4. next'[program_stack[i]] = next[program_stack[i]]
      BY <1>2, <1>5, <3>3
    <3>5. next[program_stack[i]] # next[t]
      BY <3>1, <3>3 DEF StandsAtMove
    <3>6. QED
      BY <1>2, <3>1, <3>4, <3>5 DEF StandsAtMove
  <2>4. QED
    BY <1>2, <1>3, <2>1, <2>2, <2>3 DEF PathInv
<1>7. MovesInv(b, d)'
  <2>1. OnPath(b, d)' = OnPath(b, d)
    BY DEF OnPath
  <2>2. \A m \in Waiting' : m[1] \in OnPath(b, d)
    BY <1>2 DEF Searching, SearchInv, MovesInv
  <2>3. \A m \in aut.delta : m[1] \in Open /\ m \notin Waiting' => m[3] \in Seen
    BY <1>2 DEF Searching, SearchInv, MovesInv
  <2>4. ASSUME NEW i \in b + 1 .. d, NEW m \in aut.delta,
               m[1] \in Open, m \notin Waiting', index[m[1]] < index[program_stack[i]]
        PROVE  index[m[3]] < index[program_stack[i]]
    <3>1. m # next[t]
      <4>1. SUFFICES ASSUME m = next[t] PROVE FALSE
        OBVIOUS
      <4>2. m[1] = t
        BY <4>1 DEF StandsAtMove
      <4>3. index[t] \in Nat
        BY <1>1, StackPlaces
      <4>4. QED
        BY <1>5, <2>4, <4>2, <4>3
    <3>2. m \notin Waiting
      BY <1>2, <2>4, <3>1
    <3>3. QED
      BY <2>4, <3>2 DEF Searching, SearchInv, MovesInv
  <2>5. QED
    BY <1>2, <2>1, <2>2, <2>3, <2>4 DEF MovesInv
<1>8. ReachInv(b, d)'
  BY <1>2 DEF Searching, SearchInv, ReachInv
<1>9. ReturnInv(b, d)'
  BY <1>3 DEF ReturnInv
<1>10. StackInOrder' /\ GivenInv'
  BY <1>2, SameStack, SameGiven DEF Searching
<1>11. QED
  BY <1>3, <1>4, <1>6, <1>7, <1>8, <1>9, <1>10

(* The lowlink of the end of the path went down to low, the others stay.    *)
LEMMA PassedKeepsLow ==
  ASSUME NEW b, NEW d, Searching(b, d), b < d, Len(program_stack) = d,
         NEW t, t = program_stack[d], StandsAtMove(t), next[t][3] \in Seen, Passed(t),
         NEW low \in Nat, low <= lowlink[t], lowlink' = [lowlink EXCEPT ![t] = low],
         \E r \in Open : low = index[r] /\ IsPath(aut, t, r),
         \A m \in aut.delta :
           /\ m \notin Waiting \ {next[t]} /\ m[1] \in Open /\ m[3] \in Open
           /\ index[t] <= index[m[1]] /\ index[m[1]] < index_cnt /\ index[m[3]] < index[t]
           => low <= index[m[3]]
  PROVE  LowInv(b, d)' /\ Indexed' /\ lowlink' \in [aut.states -> Nat]
<1> USE DEF Passed
<1>1. /\ d \in b + 1 .. d /\ d \in 1 .. d /\ t \in aut.states /\ t \in Open /\ t \in Seen
  BY StackPlaces, PathIsOpen
<1>2. /\ Seen' = Seen /\ Open' = Open /\ Closed' = Closed
      /\ Waiting' = Waiting \ {next[t]} /\ next[t] \in aut.delta
  BY <1>1, PassedSets
<1>3. lowlink \in [aut.states -> Nat] /\ lowlink' \in [aut.states -> Nat]
      /\ lowlink'[t] = low /\ \A q \in aut.states : q # t => lowlink'[q] = lowlink[q]
  BY <1>1 DEF Searching, SearchTypes
<1>4. \A i \in b + 1 .. d :
        /\ program_stack[i] \in aut.states /\ index[program_stack[i]] \in Nat
        /\ index[program_stack[i]] <= index[t]
  BY PathIsOpen, StackPlaces
<1>5. ~Returned(d)'
  BY DEF Returned
<1>6. ASSUME NEW i \in b + 1 .. d
      PROVE  /\ Leads(program_stack[i])'
             /\ i < d => Covers(program_stack[i], index[program_stack[i + 1]])'
             /\ i = d => Covers(program_stack[i], index_cnt)'
  <2>1. CASE i = d
    <3>1. Leads(program_stack[i])'
      BY <1>2, <1>3, <2>1 DEF Leads
    <3>2. Covers(program_stack[i], index_cnt)'
      BY <1>2, <1>3, <2>1 DEF Covers
    <3>3. QED
      BY <2>1, <3>1, <3>2
  <2>2. CASE i # d
    <3>1. i < d /\ i + 1 \in b + 1 .. d
      BY <2>2, StackPlaces
    <3>2. PICK q : q = program_stack[i]
      OBVIOUS
    <3>3. PICK limit : limit = index[program_stack[i + 1]]
      OBVIOUS
    <3>4. index[q] < index[t] /\ q # t /\ q \in aut.states /\ index[t] \in Nat
      <4>1. index[q] < index[t]
        BY <1>1, <3>1, <3>2 DEF Searching, SearchInv, PathInv
      <4>2. index[t] \in Nat
        BY <1>1, StackPlaces
      <4>3. QED
        BY <1>4, <3>2, <4>1, <4>2
    <3>5. Leads(q) /\ Covers(q, limit)
      BY <3>1, <3>2, <3>3 DEF Searching, SearchInv, LowInv
    <3>6. lowlink'[q] = lowlink[q]
      BY <1>3, <3>4
    <3>7. Leads(program_stack[i])'
      BY <1>2, <3>2, <3>5, <3>6 DEF Leads
    <3>8. limit <= index[t] /\ limit \in Nat
      BY <1>4, <3>1, <3>3
    <3>9. ASSUME NEW m \in aut.delta,
                 m \notin Waiting \ {next[t]}, m[1] \in Open, m[3] \in Open,
                 index[q] <= index[m[1]], index[m[1]] < limit, index[m[3]] < index[q]
          PROVE  lowlink[q] <= index[m[3]]
      <4>1. m # next[t]
        BY <3>4, <3>8, <3>9 DEF StandsAtMove
      <4>2. QED
        BY <3>5, <3>9, <4>1 DEF Covers
    <3>10. Covers(program_stack[i], index[program_stack[i + 1]])'
      BY <1>2, <3>2, <3>3, <3>6, <3>9 DEF Covers
    <3>11. QED
      BY <2>2, <3>7, <3>10
  <2>3. QED
    BY <2>1, <2>2
<1>7. LowInv(b, d)'
  BY <1>6 DEF LowInv
<1>8. Indexed'
  <2>1. \A q \in Open : lowlink[q] <= index[q] /\ q \in aut.states /\ index[q] \in Nat
    BY StackPlaces, WaitingMoves DEF Searching, Indexed
  <2>2. \A q \in Open : lowlink'[q] <= index[q]
    <3>1. ASSUME NEW q \in Open, q = t PROVE lowlink'[q] <= index[q]
      <4>1. low <= lowlink[t] /\ lowlink[t] <= index[t] /\ lowlink[t] \in Nat /\ index[t] \in Nat
        BY <1>1, <1>3, <2>1
      <4>2. QED
        BY <1>3, <3>1, <4>1
    <3>2. ASSUME NEW q \in Open, q # t PROVE lowlink'[q] <= index[q]
      BY <1>3, <2>1, <3>2
    <3>3. QED
      BY <3>1, <3>2
  <2>3. QED
    BY <1>2, <2>2 DEF Searching, Indexed
<1>9. QED
  BY <1>3, <1>7, <1>8


LEMMA SmallerOf ==
  ASSUME NEW x \in Nat, NEW y \in Nat
  PROVE  /\ AtLeast(x, y) \in Nat /\ AtLeast(x, y) <= x /\ AtLeast(x, y) <= y
         /\ AtLeast(x, y) = x \/ AtLeast(x, y) = y
BY DEF AtLeast

LEMMA ReturnKeeps ==
  ASSUME NEW b, NEW d, Searching(b, d), Return
  PROVE  TarjanInv'
<1> USE DEF Return
<1>1. UNCHANGED <<aut, order, client, program_stack, tarjan_stack, index_cnt, initialized,
                  on_stack, index, useful, answer, sccs>> /\ phase' = "moves"
  BY DEF input
<1>2. PICK t : t = act_state
  OBVIOUS
<1>3. /\ program_stack \in Seq(aut.states) /\ Len(program_stack) \in Nat \ {0}
      /\ t = program_stack[Len(program_stack)] /\ t \in aut.states
  BY <1>2, FrontOf DEF act_state, Searching, SearchTypes
<1>4. t \in Open /\ t \in Seen
  BY <1>2, <1>3 DEF Open, Seen
<1>5. b < d /\ Len(program_stack) = d /\ t = program_stack[d] /\ Returned(d)
  <2>1. ~Called(d)
    <3>1. Called(d) => Len(program_stack) = d + 1 /\ program_stack[d + 1] \notin Seen
      BY DEF Searching, SearchInv, Shape, Called
    <3>2. QED
      BY <1>3, <1>4, <3>1
  <2>2. Len(program_stack) = d
    BY <2>1, StackPlaces DEF Called
  <2>3. b # d
    BY <1>4, IdleHasNoOpen
  <2>4. QED
    BY <1>3, <2>2, <2>3, StackPlaces DEF Returned
<1>6. StandsAtMove(t)
  BY <1>5 DEF Searching, SearchInv, PathInv
<1>7. PICK c : c = next[t][3]
  OBVIOUS
<1>8. Returns(t, c)
  BY <1>5, <1>7 DEF Searching, SearchInv, ReturnInv
<1>9. Passed(t)
  BY <1>1, <1>2 DEF Passed
<1>10. /\ Seen' = Seen /\ Open' = Open /\ Closed' = Closed
       /\ Waiting' = Waiting \ {next[t]}
       /\ next[t] = current_move(t) /\ next[t] \in aut.delta
       /\ moves_left' \in [aut.states -> SUBSET aut.delta]
       /\ \A q \in aut.states : \A m \in moves_left'[q] : m[1] = q
  BY <1>3, <1>6, <1>9, PassedSets
<1>11. c \in Seen /\ index[t] < index[c]
  BY <1>8 DEF Returns
<1>12. /\ c \in aut.states /\ lowlink[t] \in Nat /\ lowlink[c] \in Nat
       /\ index[t] \in Nat /\ index[c] \in Nat /\ IsGraph(aut)
  BY <1>3, <1>11, StackPlaces, WaitingMoves, SearchGraph DEF Searching
<1>13. PICK low \in Nat : low = AtLeast(lowlink[t], lowlink[c])
  BY <1>12, SmallerOf
<1>14. low <= lowlink[t] /\ low <= lowlink[c] /\ (low = lowlink[t] \/ low = lowlink[c])
  BY <1>12, <1>13, SmallerOf
<1>15. lowlink' = [lowlink EXCEPT ![t] = low]
  BY <1>2, <1>7, <1>10, <1>13
<1>16. \E r \in Open : low = index[r] /\ IsPath(aut, t, r)
  <2>1. Leads(t)
    <3>1. d \in b + 1 .. d
      BY <1>5, StackPlaces
    <3>2. QED
      BY <1>5, <3>1 DEF Searching, SearchInv, LowInv
  <2>2. CASE low = lowlink[t]
    BY <2>1, <2>2 DEF Leads
  <2>3. CASE low # lowlink[t]
    <3>1. low = lowlink[c] /\ lowlink[c] < lowlink[t]
      BY <1>12, <1>14, <2>3
    <3>2. c \in Open
      <4>1. lowlink[t] <= index[t]
        BY <1>4 DEF Searching, Indexed
      <4>2. lowlink[c] < index[t]
        BY <1>12, <3>1, <4>1
      <4>3. c \notin Open => index[t] <= lowlink[c]
        BY <1>8 DEF Returns
      <4>4. QED
        BY <1>12, <4>2, <4>3
    <3>3. PICK r \in Open : lowlink[c] = index[r] /\ IsPath(aut, c, r)
      BY <1>8, <3>2 DEF Returns, Leads
    <3>4. IsPath(aut, t, c)
      BY <1>6, <1>7, <1>10, <1>12, MoveIsPath DEF StandsAtMove
    <3>5. IsPath(aut, t, r)
      BY <1>3, <1>12, <3>3, <3>4, PathsJoin
    <3>6. QED
      BY <3>1, <3>3, <3>5
  <2>4. QED
    BY <2>2, <2>3
<1>17. ASSUME NEW m \in aut.delta,
              m \notin Waiting \ {next[t]}, m[1] \in Open, m[3] \in Open,
              index[t] <= index[m[1]], index[m[1]] < index_cnt, index[m[3]] < index[t]
       PROVE  low <= index[m[3]]
  <2>1. index[m[1]] \in Nat /\ index[m[3]] \in Nat
    BY <1>17, WaitingMoves, StackPlaces DEF Searching
  <2>2. m # next[t]
    BY <1>7, <1>11, <1>12, <1>17, <2>1
  <2>3. m \notin Waiting
    BY <1>17, <2>2
  <2>4. CASE index[m[1]] < index[c]
    <3>1. lowlink[t] <= index[m[3]]
      BY <1>8, <1>17, <2>3, <2>4 DEF Returns, Covers
    <3>2. QED
      BY <1>12, <1>14, <2>1, <3>1
  <2>5. CASE ~(index[m[1]] < index[c])
    <3>1. c \in Open
      BY <1>8, <1>17, <2>5 DEF Returns
    <3>2. Covers(c, index_cnt)
      BY <1>8, <3>1 DEF Returns
    <3>3. index[c] <= index[m[1]] /\ index[m[3]] < index[c]
      BY <1>11, <1>12, <1>17, <2>1, <2>5
    <3>4. lowlink[c] <= index[m[3]]
      BY <1>17, <2>3, <3>2, <3>3 DEF Covers
    <3>5. QED
      BY <1>12, <1>14, <2>1, <3>4
  <2>6. QED
    BY <2>4, <2>5
<1>18. LowInv(b, d)' /\ Indexed' /\ lowlink' \in [aut.states -> Nat]
  BY <1>5, <1>6, <1>7, <1>9, <1>11, <1>14, <1>15, <1>16, <1>17, PassedKeepsLow
<1>19. /\ Shape(b, d)' /\ PathInv(b, d)' /\ MovesInv(b, d)' /\ ReachInv(b, d)'
       /\ ReturnInv(b, d)' /\ StackInOrder' /\ GivenInv'
  BY <1>5, <1>6, <1>7, <1>9, <1>11, PassedKeeps
<1>20. UsefulInv'
  BY <1>1, <1>10, SameUseful DEF Searching
<1>21. (client = "useful" => \A m \in aut.delta : PassesOn(m))'
  <2>1. ASSUME client = "useful", NEW m \in aut.delta,
               m[1] \in Open, m[3] \in Closed, m[3] \in useful, m \notin Waiting'
        PROVE  \E r \in useful : r \in Open /\ r \in Strong(aut, m[1])
    <3>1. m \notin Waiting \/ (phase = "main" /\ m = next[m[1]])
      BY <1>6, <1>10, <2>1 DEF StandsAtMove
    <3>2. PassesOn(m)
      BY <2>1 DEF Searching, SearchInv
    <3>3. QED
      BY <2>1, <3>1, <3>2 DEF PassesOn
  <2>2. QED
    BY <1>1, <1>10, <2>1 DEF PassesOn
<1>22. SearchInv(b, d)'
  BY <1>18, <1>19, <1>21 DEF SearchInv
<1>23. SearchTypes'
  <2> HIDE DEF Return
  <2>1. QED
    BY <1>1, <1>10, <1>18 DEF Searching, SearchTypes
<1>24. QED
  BY <1>1, <1>18, <1>19, <1>20, <1>22, <1>23 DEF Searching, TarjanInv

LEMMA PassMoveKeeps ==
  ASSUME NEW b, NEW d, Searching(b, d), PassMove
  PROVE  TarjanInv'
<1> USE DEF PassMove
<1>1. UNCHANGED <<aut, order, client, program_stack, tarjan_stack, index_cnt, initialized,
                  on_stack, index, answer, sccs>> /\ phase = "moves" /\ phase' = "moves"
  BY DEF input
<1>2. PICK t : t = act_state
  OBVIOUS
<1>3. PICK c : c = current_move(t)[3]
  OBVIOUS
<1>4. /\ b < d /\ Len(program_stack) = d /\ t = program_stack[d]
      /\ d \in b + 1 .. d /\ t \in aut.states /\ t \in Open /\ t \in Seen
      /\ ~Returned(d)
  BY <1>1, <1>2, AtTheEnd
<1>5. StandsAtMove(t) /\ next[t][3] = c
  <2>1. moves_left[t] # {}
    BY <1>2
  <2>2. current_move(t) \in moves_left[t] /\ next[t] = current_move(t)
    BY <1>4, <2>1, StandsAtAMove DEF Searching, next
  <2>3. QED
    BY <1>3, <1>4, <2>2, WaitingMoves DEF Searching, StandsAtMove
<1>6. Passed(t)
  BY <1>1, <1>2 DEF Passed
<1>7. /\ Seen' = Seen /\ Open' = Open /\ Closed' = Closed
      /\ Waiting' = Waiting \ {next[t]} /\ next[t] \in aut.delta
      /\ moves_left' \in [aut.states -> SUBSET aut.delta]
      /\ \A q \in aut.states : \A m \in moves_left'[q] : m[1] = q
  BY <1>4, <1>5, <1>6, PassedSets
<1>8. c \in aut.states /\ IsGraph(aut) /\ IsPath(aut, t, c)
  BY <1>5, <1>7, SearchGraph, MoveIsPath DEF Searching, StandsAtMove
<1>9. c \in Seen
  BY <1>2, <1>3, <1>8 DEF Seen
<1>10. lowlink[t] \in Nat /\ index[c] \in Nat /\ lowlink \in [aut.states -> Nat]
       /\ index[t] \in Nat
  BY <1>4, <1>8, StackPlaces DEF Searching, SearchTypes
<1>11. PICK low \in Nat :
         low = IF c \in Open THEN AtLeast(lowlink[t], index[c]) ELSE lowlink[t]
  BY <1>10, SmallerOf
<1>12. /\ low <= lowlink[t]
       /\ low = lowlink[t] \/ (c \in Open /\ low = index[c])
       /\ c \in Open => low <= index[c]
  <2>1. CASE c \in Open
    <3>1. low = AtLeast(lowlink[t], index[c])
      BY <1>11, <2>1
    <3>2. /\ low <= lowlink[t] /\ low <= index[c]
          /\ low = lowlink[t] \/ low = index[c]
      BY <1>10, <3>1, SmallerOf
    <3>3. QED
      BY <2>1, <3>2
  <2>2. CASE c \notin Open
    <3>1. low = lowlink[t]
      BY <1>11, <2>2
    <3>2. QED
      BY <1>10, <2>2, <3>1
  <2>3. QED
    BY <2>1, <2>2
<1>13. lowlink' = [lowlink EXCEPT ![t] = low]
  <2>1. c \in Open <=> on_stack[c]
    BY <1>8 DEF Open
  <2>2. CASE c \in Open
    BY <1>2, <1>3, <1>11, <2>1, <2>2
  <2>3. CASE c \notin Open
    <3>1. lowlink' = lowlink
      BY <1>2, <1>3, <2>1, <2>3
    <3>2. QED
      BY <1>4, <1>10, <1>11, <2>3, <3>1
  <2>4. QED
    BY <2>2, <2>3
<1>14. Leads(t) /\ Covers(t, index_cnt)
  BY <1>4 DEF Searching, SearchInv, LowInv
<1>15. \E r \in Open : low = index[r] /\ IsPath(aut, t, r)
  BY <1>8, <1>12, <1>14 DEF Leads
<1>16. ASSUME NEW m \in aut.delta,
              m \notin Waiting \ {next[t]}, m[1] \in Open, m[3] \in Open,
              index[t] <= index[m[1]], index[m[1]] < index_cnt, index[m[3]] < index[t]
       PROVE  low <= index[m[3]]
  <2>1. CASE m = next[t]
    BY <1>5, <1>12, <1>16, <2>1
  <2>2. CASE m # next[t]
    <3>1. lowlink[t] <= index[m[3]]
      BY <1>14, <1>16, <2>2 DEF Covers
    <3>2. index[m[3]] \in Nat
      BY WaitingMoves, StackPlaces DEF Searching
    <3>3. QED
      BY <1>10, <1>12, <3>1, <3>2
  <2>3. QED
    BY <2>1, <2>2
<1>17. LowInv(b, d)' /\ Indexed' /\ lowlink' \in [aut.states -> Nat]
  BY <1>4, <1>5, <1>6, <1>9, <1>12, <1>13, <1>15, <1>16, PassedKeepsLow
<1>18. /\ Shape(b, d)' /\ PathInv(b, d)' /\ MovesInv(b, d)' /\ ReachInv(b, d)'
       /\ ReturnInv(b, d)' /\ StackInOrder' /\ GivenInv'
  BY <1>4, <1>5, <1>6, <1>9, PassedKeeps
<1>19. useful' = IF client = "useful" /\ c \in useful THEN useful \cup {t} ELSE useful
  BY <1>2, <1>3 DEF SuccDiscovered
<1>20. useful \in SUBSET aut.states /\ useful' \in SUBSET aut.states
       /\ useful \subseteq useful' /\ \A q \in useful' : q \in useful \/ (q = t /\ c \in useful)
  BY <1>4, <1>19 DEF Searching, SearchTypes
<1>21. UsefulInv'
  <2>1. SUFFICES ASSUME client = "useful"
                 PROVE  /\ \A q \in useful' : IsUseful(q) /\ q \in Seen
                        /\ \A q \in Closed : IsUseful(q) => q \in useful'
                        /\ \A q \in aut.final : q \in Open => q \in useful'
    BY <1>1, <1>7 DEF UsefulInv, IsUseful
  <2>2. \A q \in useful : IsUseful(q) /\ q \in Seen
    BY <2>1 DEF Searching, UsefulInv
  <2>3. c \in useful => IsUseful(t)
    <3>1. SUFFICES ASSUME c \in useful PROVE IsUseful(t)
      OBVIOUS
    <3>2. PICK r \in aut.final : IsPath(aut, c, r)
      BY <2>2, <3>1 DEF IsUseful
    <3>3. IsPath(aut, t, r)
      BY <1>4, <1>8, <3>2, PathsJoin
    <3>4. t \in ReachIn(aut, aut.initial)
      BY <1>4 DEF Searching, Indexed
    <3>5. QED
      BY <3>3, <3>4 DEF IsUseful
  <2>4. QED
    BY <1>4, <1>20, <2>1, <2>2, <2>3 DEF Searching, UsefulInv
<1>22. (client = "useful" => \A m \in aut.delta : PassesOn(m))'
  <2>1. ASSUME client = "useful", NEW m \in aut.delta,
               m[1] \in Open, m[3] \in Closed, m[3] \in useful', m \notin Waiting'
        PROVE  \E r \in useful' : r \in Open /\ r \in Strong(aut, m[1])
    <3>1. m[3] \in useful
      BY <1>4, <1>20, <2>1 DEF Closed
    <3>2. CASE m = next[t]
      <4>1. m[1] = t /\ m[3] = c
        BY <1>5, <3>2 DEF StandsAtMove
      <4>2. t \in useful'
        BY <1>19, <2>1, <3>1, <4>1
      <4>3. t \in Strong(aut, t)
        BY <1>4, <1>8, PathInside DEF Strong
      <4>4. QED
        BY <1>4, <4>1, <4>2, <4>3
    <3>3. CASE m # next[t]
      <4>1. m \notin Waiting
        BY <1>7, <2>1, <3>3
      <4>2. PassesOn(m)
        BY <2>1 DEF Searching, SearchInv
      <4>3. QED
        BY <1>20, <2>1, <3>1, <4>1, <4>2 DEF PassesOn
    <3>4. QED
      BY <3>2, <3>3
  <2>2. QED
    BY <1>1, <1>7, <2>1 DEF PassesOn
<1>23. SearchInv(b, d)'
  BY <1>17, <1>18, <1>22 DEF SearchInv
<1>24. SearchTypes'
  BY SMTT(30), <1>1, <1>7, <1>17, <1>20 DEF Searching, SearchTypes
<1>25. QED
  BY <1>1, <1>17, <1>18, <1>21, <1>23, <1>24 DEF Searching, TarjanInv


(* The end of the path is taken off: e is the end that is left.             *)
LEMMA EndTakenOff ==
  ASSUME NEW b, NEW d, Searching(b, d), phase = "closing", NEW e, e = d - 1,
         program_stack' = Front(program_stack), UNCHANGED <<aut, order, initialized, next, Waiting>>
  PROVE  /\ e \in Nat /\ b <= e /\ e < d /\ d = e + 1
         /\ program_stack' \in Seq(aut.states) /\ Len(program_stack') = e
         /\ \A i \in 1 .. e : program_stack'[i] = program_stack[i]
         /\ \A i \in b + 1 .. e : i \in b + 1 .. d /\ i \in 1 .. e
                                  /\ index[program_stack[i]] < index[program_stack[d]]
         /\ \A i \in b + 1 .. e : /\ StandsAtMove(program_stack[i])
                                  /\ next[program_stack[i]][3] = program_stack[i + 1]
         /\ \A m \in Waiting : \E i \in b + 1 .. e : m[1] = program_stack[i]
         /\ \A m \in Waiting : m = next[m[1]] => m[3] \notin Closed
         /\ ~Called(e)' /\ OnPath(b, e)' = OnPath(b, e)
         /\ phase' = "main" => Shape(b, e)'
<1>1. b < d /\ Len(program_stack) = d /\ d \in b + 1 .. d /\ d \in 1 .. d /\ ~Called(d)
  BY AtTheEnd
<1>2. e \in Nat /\ b <= e /\ e < d /\ d = e + 1
  BY <1>1, StackPlaces
<1>3. program_stack \in Seq(aut.states) /\ program_stack # << >>
  BY <1>1, <1>2 DEF Searching, SearchTypes
<1>4. /\ program_stack' \in Seq(aut.states) /\ Len(program_stack') = e
      /\ \A i \in 1 .. e : program_stack'[i] = program_stack[i]
  BY <1>1, <1>3, FrontOf
<1>5. \A i \in b + 1 .. e : i \in b + 1 .. d /\ i \in 1 .. e /\ i < d
                            /\ index[program_stack[i]] < index[program_stack[d]]
  BY <1>1, <1>2, StackPlaces DEF Searching, SearchInv, PathInv
<1>6. \A i \in b + 1 .. e : /\ StandsAtMove(program_stack[i])
                            /\ next[program_stack[i]][3] = program_stack[i + 1]
  BY <1>5 DEF Searching, SearchInv, PathInv
<1>7. ASSUME NEW m \in Waiting PROVE \E i \in b + 1 .. e : m[1] = program_stack[i]
  <2>1. PICK i \in b + 1 .. d : m[1] = program_stack[i]
    BY DEF Searching, SearchInv, MovesInv, OnPath
  <2>2. m[1] # program_stack[d]
    BY DEF Searching, SearchInv, PathInv
  <2>3. i \in b + 1 .. e
    BY <2>1, <2>2, <1>2, StackPlaces
  <2>4. QED
    BY <2>1, <2>3
<1>8. ASSUME NEW m \in Waiting, m = next[m[1]] PROVE m[3] \notin Closed
  BY <1>5, <1>7, <1>8, PendingIsNotClosed
<1>9. ~Called(e)'
  BY <1>2, <1>4 DEF Called
<1>10. OnPath(b, e)' = OnPath(b, e)
  BY <1>4, <1>5 DEF OnPath
<1>11. phase' = "main" => Shape(b, e)'
  <2>1. \A i \in 1 .. b : program_stack'[i] = order[i]
    BY <1>2, <1>4, StackPlaces DEF Searching, SearchInv, Shape
  <2>2. Seen' = Seen
    BY DEF Seen
  <2>3. b \in Nat /\ b <= Len(order) /\ \A i \in b + 1 .. Len(order) : order[i] \in Seen
    BY DEF Searching, SearchInv, Shape
  <2>4. QED
    BY <1>2, <1>4, <1>9, <2>1, <2>2, <2>3 DEF Shape
<1>12. QED
  BY <1>2, <1>4, <1>5, <1>6, <1>7, <1>8, <1>9, <1>10, <1>11

LEMMA LeaveOpenKeeps ==
  ASSUME NEW b, NEW d, Searching(b, d), LeaveOpen
  PROVE  TarjanInv'
<1> USE DEF LeaveOpen
<1>1. UNCHANGED <<aut, order, client, tarjan_stack, index_cnt, initialized,
                  on_stack, index, lowlink, moves_left, useful, answer, sccs>>
      /\ phase = "closing" /\ phase' = "main"
  BY DEF input, node_info
<1>2. /\ Seen' = Seen /\ Open' = Open /\ Closed' = Closed
      /\ Waiting' = Waiting /\ next' = next
  BY <1>1, SameSets, SameMoves, Zenon
<1>3. PICK t : t = program_stack[d]
  OBVIOUS
<1>4. /\ b < d /\ Len(program_stack) = d /\ act_state = t /\ d \in b + 1 .. d
      /\ t \in Open /\ t \in Seen /\ t \in aut.states /\ ~Returned(d)
      /\ index[t] \in Nat /\ lowlink[t] \in Nat
  BY <1>1, <1>3, AtTheEnd, StackPlaces
<1>5. PICK e : e = d - 1
  OBVIOUS
<1>6. /\ e \in Nat /\ b <= e /\ e < d /\ d = e + 1
      /\ program_stack' \in Seq(aut.states) /\ Len(program_stack') = e
      /\ \A i \in 1 .. e : program_stack'[i] = program_stack[i]
      /\ \A i \in b + 1 .. e : i \in b + 1 .. d /\ i \in 1 .. e
                               /\ index[program_stack[i]] < index[t]
      /\ \A i \in b + 1 .. e : /\ StandsAtMove(program_stack[i])
                               /\ next[program_stack[i]][3] = program_stack[i + 1]
      /\ \A m \in Waiting : \E i \in b + 1 .. e : m[1] = program_stack[i]
      /\ \A m \in Waiting : m = next[m[1]] => m[3] \notin Closed
      /\ ~Called(e)' /\ OnPath(b, e)' = OnPath(b, e)
      /\ Shape(b, e)'
  BY <1>1, <1>2, <1>3, <1>5, EndTakenOff
<1>7. Leads(t) /\ Covers(t, index_cnt)
  BY <1>3, <1>4 DEF Searching, SearchInv, LowInv
<1>8. PICK s \in Open : lowlink[t] = index[s] /\ IsPath(aut, t, s)
  BY <1>7 DEF Leads
<1>9. s \in aut.states /\ index[s] \in Nat /\ index[s] < index[t]
  <2>1. lowlink[t] <= index[t] /\ lowlink[t] # index[t]
    BY <1>4 DEF Searching, Indexed
  <2>2. QED
    BY <1>4, <1>8, <2>1, WaitingMoves DEF Searching
(* The state below t on the path that t reaches.                            *)
<1>10. PICK k \in b + 1 .. e : index[program_stack[k]] <= index[s] /\ IsPath(aut, s, program_stack[k])
  <2>1. PICK k \in b + 1 .. d : index[program_stack[k]] <= index[s]
                                /\ IsPath(aut, s, program_stack[k])
    BY <1>8 DEF Searching, SearchInv, ReachInv
  <2>2. k # d
    BY <1>3, <1>4, <1>9, <2>1
  <2>3. k \in b + 1 .. e
    BY <1>6, <2>2, StackPlaces
  <2>4. QED
    BY <2>1, <2>3
<1>11. b < e /\ e \in b + 1 .. e
  BY <1>6, <1>10, StackPlaces
<1>12. SearchTypes'
  BY <1>1, <1>6 DEF Searching, SearchTypes
<1>13. Indexed' /\ StackInOrder' /\ GivenInv' /\ UsefulInv'
  BY <1>1, <1>2, SameIndices, SameStack, SameGiven, SameUseful DEF Searching
<1>14. PathInv(b, e)'
  <2>1. \A i \in b + 1 .. e : program_stack[i] \in Open
    BY <1>6, PathIsOpen
  <2>2. \A i, j \in b + 1 .. e :
          i < j => index[program_stack[i]] < index[program_stack[j]]
    BY <1>6 DEF Searching, SearchInv, PathInv
  <2>3. \A i \in b + 1 .. e : i < e => i + 1 \in 1 .. e
    BY <1>6
  <2>4. ASSUME NEW i \in b + 1 .. e
        PROVE  /\ program_stack'[i] = program_stack[i]
               /\ StandsAtMove(program_stack[i])'
               /\ i < e => next[program_stack[i]][3] = program_stack'[i + 1]
    BY <1>2, <1>6, <2>3 DEF StandsAtMove
  <2>5. phase' # "closing"
    BY <1>1
  <2>6. QED
    BY SMTT(30), <1>1, <1>2, <1>6, <1>11, <2>1, <2>2, <2>4, <2>5 DEF PathInv
<1>15. MovesInv(b, e)'
  BY <1>1, <1>2, <1>6 DEF Searching, SearchInv, MovesInv, OnPath
<1>16. ReachInv(b, e)'
  <2>1. ASSUME NEW r \in Open
        PROVE  \E i \in b + 1 .. e : index[program_stack[i]] <= index[r]
                                     /\ IsPath(aut, r, program_stack[i])
    <3>1. PICK i \in b + 1 .. d : index[program_stack[i]] <= index[r]
                                  /\ IsPath(aut, r, program_stack[i])
      BY DEF Searching, SearchInv, ReachInv
    <3>2. CASE i # d
      <4>1. i \in b + 1 .. e
        BY <1>6, <3>2, StackPlaces
      <4>2. QED
        BY <3>1, <4>1
    <3>3. CASE i = d
      <4>1. IsPath(aut, r, t) /\ index[t] <= index[r]
        BY <1>3, <3>1, <3>3
      <4>2. r \in aut.states /\ IsGraph(aut) /\ index[r] \in Nat
            /\ index[program_stack[k]] \in Nat
        BY <1>6, <1>10, WaitingMoves, SearchGraph, StackPlaces, PathIsOpen DEF Searching
      <4>3. IsPath(aut, r, program_stack[k])
        BY <1>8, <1>10, <4>1, <4>2, PathsJoin
      <4>4. index[program_stack[k]] <= index[r]
        BY <1>4, <1>9, <1>10, <4>1, <4>2
      <4>5. QED
        BY <4>3, <4>4
    <3>4. QED
      BY <3>2, <3>3
  <2>2. \A i \in b + 1 .. e : \A r \in Open :
          index[program_stack[i]] <= index[r] => IsPath(aut, program_stack[i], r)
    BY <1>6 DEF Searching, SearchInv, ReachInv
  <2>3. QED
    BY <1>1, <1>2, <1>6, <2>1, <2>2 DEF ReachInv
<1>17. Returned(e)'
  BY <1>1, <1>6 DEF Returned
<1>18. LowInv(b, e)'
  <2>1. \A q : (Leads(q))' <=> Leads(q)
    BY <1>1, <1>2 DEF Leads
  <2>2. \A q, limit : (Covers(q, limit))' <=> Covers(q, limit)
    BY <1>1, <1>2 DEF Covers
  <2>3. ASSUME NEW i \in b + 1 .. e
        PROVE  /\ Leads(program_stack[i])
               /\ i < e => Covers(program_stack[i], index[program_stack[i + 1]])
                           /\ i + 1 \in 1 .. e
    BY <1>6 DEF Searching, SearchInv, LowInv
  <2>4. ASSUME NEW i \in b + 1 .. e
        PROVE  /\ Leads(program_stack[i])'
               /\ i < e => Covers(program_stack[i], index[program_stack[i + 1]])'
    BY <1>1, <1>6, <2>1, <2>2, <2>3
  <2>5. QED
    BY <1>17, <2>4 DEF LowInv
<1>19. ReturnInv(b, e)'
  <2>1. PICK q : q = program_stack[e]
    OBVIOUS
  <2>2. next[q][3] = t /\ program_stack'[e] = q /\ index[q] < index[t]
    BY <1>3, <1>6, <1>11, <2>1
  <2>3. Covers(q, index[t])
    BY <1>3, <1>6, <1>11, <2>1 DEF Searching, SearchInv, LowInv
  <2>4. Returns(q, t)
    BY <1>4, <1>7, <2>2, <2>3 DEF Returns
  <2>5. (Returns(q, t))'
    BY <1>1, <1>2, <2>4 DEF Returns, Covers, Leads
  <2>6. QED
    BY <1>2, <2>2, <2>5 DEF ReturnInv
<1>20. (client = "useful" => \A m \in aut.delta : PassesOn(m))'
  <2>1. ASSUME client = "useful", NEW m \in aut.delta,
               m[1] \in Open, m[3] \in Closed, m[3] \in useful,
               m \notin Waiting \/ m = next[m[1]]
        PROVE  \E r \in useful : r \in Open /\ r \in Strong(aut, m[1])
    <3>1. m \notin Waiting
      BY <1>6, <2>1
    <3>2. PassesOn(m)
      BY <2>1 DEF Searching, SearchInv
    <3>3. QED
      BY <2>1, <3>1, <3>2 DEF PassesOn
  <2>2. QED
    BY <1>1, <1>2, <2>1 DEF PassesOn
<1>21. SearchInv(b, e)'
  BY <1>6, <1>14, <1>15, <1>16, <1>18, <1>19, <1>20 DEF SearchInv
<1>22. QED
  BY <1>1, <1>6, <1>12, <1>13, <1>21 DEF Searching, TarjanInv


(* Where the state c is that is seen: it was called from the end of the     *)
(* path, or a path begins with it.  The path goes from l + 1 to n then.     *)
SeenAt(b, d, c, l, n) ==
  /\ l < n /\ Len(program_stack) = n /\ c = program_stack[n] /\ l <= b
  /\ c \in aut.states /\ c \notin Seen /\ c \in ReachIn(aut, aut.initial)
  /\ \A i \in l + 1 .. n - 1 : i \in b + 1 .. d
  /\ \A i \in b + 1 .. d : i \in l + 1 .. n - 1
  /\ \A i \in l + 1 .. n - 1 :
       /\ StandsAtMove(program_stack[i])
       /\ next[program_stack[i]][3] = program_stack[i + 1]
       /\ IsPath(aut, program_stack[i], c)
       /\ i = n - 1 => Covers(program_stack[i], index_cnt)
       /\ i < n - 1 => i < d
  /\ \A i \in l + 1 .. b : order[i] = c

LEMMA DiscoverPlace ==
  ASSUME NEW b, NEW d, Searching(b, d), Discover
  PROVE  \E l, n \in Nat : SeenAt(b, d, act_state, l, n)
<1> USE DEF Discover
<1>1. PICK c : c = act_state
  OBVIOUS
<1>2. PICK n \in Nat : n = Len(program_stack)
  BY StackPlaces
<1>3. /\ program_stack \in Seq(aut.states) /\ n # 0
      /\ c = program_stack[n] /\ c \in aut.states
  BY <1>1, <1>2, FrontOf DEF act_state, Searching, SearchTypes
<1>4. c \notin Seen
  BY <1>1 DEF Seen
<1>5. IsGraph(aut) /\ aut.initial \in SUBSET aut.states
      /\ order \in Seq(aut.states) /\ ToSet(order) = aut.initial
  BY SearchGraph DEF Searching
<1>6. aut.initial \subseteq ReachIn(aut, aut.initial)
      /\ EdgeClosed(aut, ReachIn(aut, aut.initial))
  BY <1>5, ReachHolds DEF IsGraph, EdgeClosed
<1>7. CASE Called(d)
  <2>1. n = d + 1 /\ b < d /\ ~Returned(d)
    <3>1. n = d + 1 /\ ~Returned(d)
      BY <1>2, <1>7, StackPlaces DEF Called, Returned
    <3>2. b # d
      BY <1>2, <3>1 DEF Searching, SearchInv, Shape
    <3>3. QED
      BY <3>1, <3>2, StackPlaces
  <2>2. ASSUME NEW i \in b + 1 .. n - 1
        PROVE  /\ StandsAtMove(program_stack[i])
               /\ next[program_stack[i]][3] = program_stack[i + 1]
               /\ IsPath(aut, program_stack[i], c)
               /\ i = n - 1 => Covers(program_stack[i], index_cnt)
               /\ i < n - 1 => i < d
               /\ i \in b + 1 .. d
    <3>1. i \in b + 1 .. d /\ d \in b + 1 .. d
      BY <2>1, StackPlaces
    <3>2. /\ StandsAtMove(program_stack[i])
          /\ next[program_stack[i]][3] = program_stack[i + 1]
          /\ StandsAtMove(program_stack[d])
          /\ next[program_stack[d]][3] = program_stack[d + 1]
      BY <1>7, <3>1 DEF Searching, SearchInv, PathInv
    <3>3. IsPath(aut, program_stack[d], c)
      BY <1>3, <1>5, <2>1, <3>2, WaitingMoves, MoveIsPath DEF Searching, StandsAtMove
    <3>4. program_stack[i] \in Open /\ program_stack[d] \in Open
          /\ program_stack[i] \in aut.states
          /\ index[program_stack[i]] <= index[program_stack[d]]
      BY <3>1, PathIsOpen
    <3>5. IsPath(aut, program_stack[i], program_stack[d])
      BY <3>4, OpenReaches
    <3>6. IsPath(aut, program_stack[i], c)
      BY <1>5, <3>3, <3>4, <3>5, PathsJoin
    <3>7. i = n - 1 => Covers(program_stack[i], index_cnt)
      <4>1. i = n - 1 => i = d
        BY <2>1, StackPlaces
      <4>2. QED
        BY <2>1, <3>1, <4>1 DEF Searching, SearchInv, LowInv
    <3>8. i < n - 1 => i < d
      BY <2>1, StackPlaces
    <3>9. QED
      BY <3>1, <3>2, <3>6, <3>7, <3>8
  <2>3. c \in ReachIn(aut, aut.initial)
    <3>1. d \in b + 1 .. n - 1
      BY <2>1, StackPlaces
    <3>2. IsPath(aut, program_stack[d], c)
      BY <2>2, <3>1
    <3>3. program_stack[d] \in Seen
      BY <2>2, <3>1, PathIsOpen
    <3>4. program_stack[d] \in ReachIn(aut, aut.initial) /\ program_stack[d] \in aut.states
      BY <3>3, WaitingMoves DEF Searching, Indexed
    <3>5. QED
      BY <1>5, <1>6, <3>2, <3>4, PathStaysIn
  <2>4. /\ \A i \in b + 1 .. d : i \in b + 1 .. n - 1
        /\ \A i \in b + 1 .. b : order[i] = c
        /\ b \in Nat /\ b < n /\ b <= b
    BY <2>1, StackPlaces
  <2>5. SeenAt(b, d, c, b, n)
    BY <1>2, <1>3, <1>4, <2>2, <2>3, <2>4 DEF SeenAt
  <2>6. QED
    BY <1>1, <2>4, <2>5
<1>8. CASE ~Called(d)
  <2>1. n = d
    BY <1>2, <1>8, StackPlaces DEF Called
  <2>2. b = d
    <3>1. b < d => program_stack[d] \in Seen
      BY StackPlaces, PathIsOpen
    <3>2. QED
      BY <1>3, <1>4, <2>1, <3>1, StackPlaces
  <2>3. PICK l \in Nat : n = l + 1
    <3>1. n - 1 \in Nat /\ n = (n - 1) + 1
      BY <1>3
    <3>2. QED
      BY <3>1
  <2>4. c = order[n] /\ n \in 1 .. Len(order)
    <3>1. n \in 1 .. b /\ b <= Len(order) /\ Len(order) \in Nat
      BY <1>5, <2>1, <2>2, <2>3 DEF Searching, SearchInv, Shape
    <3>2. QED
      BY <1>3, <1>5, <3>1 DEF Searching, SearchInv, Shape
  <2>5. c \in ReachIn(aut, aut.initial)
    BY <1>5, <1>6, <2>4 DEF ToSet
  <2>6. /\ \A i \in l + 1 .. n - 1 : FALSE
        /\ \A i \in b + 1 .. d : FALSE
        /\ \A i \in l + 1 .. b : i = n
        /\ l < n /\ l <= b
    BY <2>1, <2>2, <2>3
  <2>7. SeenAt(b, d, c, l, n)
    BY <1>2, <1>3, <1>4, <2>4, <2>5, <2>6 DEF SeenAt
  <2>8. QED
    BY <1>1, <2>7
<1>9. QED
  BY <1>7, <1>8

(* The new state is the last that was seen; its moves all wait.             *)
LEMMA DiscoverSets ==
  ASSUME NEW b, NEW d, Searching(b, d), Discover, NEW c, c = act_state,
         c \in aut.states, c \notin Seen
  PROVE  /\ UNCHANGED <<aut, order, client, program_stack, sccs>>
         /\ Seen' = Seen \cup {c} /\ Open' = Open \cup {c} /\ Closed' = Closed
         /\ Waiting' = Waiting \cup {m \in aut.delta : m[1] = c}
         /\ \A q \in aut.states : q # c => /\ next'[q] = next[q] /\ index'[q] = index[q]
                                           /\ lowlink'[q] = lowlink[q]
         /\ index'[c] = index_cnt /\ lowlink'[c] = index_cnt /\ index_cnt' = index_cnt + 1
         /\ tarjan_stack' = Append(tarjan_stack, c)
         /\ useful' = IF client = "useful" /\ c \in aut.final THEN useful \cup {c} ELSE useful
         /\ (phase' = "moves" /\ answer' = TRUE) \/ (phase' = "done" /\ answer' = FALSE)
         /\ SearchTypes'
<1> USE DEF Discover
<1>1. UNCHANGED <<aut, order, client, program_stack, sccs>>
  BY DEF input
<1>2. /\ initialized \in [aut.states -> BOOLEAN] /\ on_stack \in [aut.states -> BOOLEAN]
      /\ index \in [aut.states -> Nat] /\ lowlink \in [aut.states -> Nat]
      /\ moves_left \in [aut.states -> SUBSET aut.delta]
      /\ \A q \in aut.states : \A m \in moves_left[q] : m[1] = q
      /\ tarjan_stack \in Seq(aut.states) /\ index_cnt \in Nat
      /\ useful \in SUBSET aut.states
  BY DEF Searching, SearchTypes
<1>3. /\ initialized' = [initialized EXCEPT ![c] = TRUE]
      /\ on_stack' = [on_stack EXCEPT ![c] = TRUE]
      /\ index' = [index EXCEPT ![c] = index_cnt]
      /\ lowlink' = [lowlink EXCEPT ![c] = index_cnt]
      /\ moves_left' = [moves_left EXCEPT ![c] = MovesFrom(c)]
  OBVIOUS
<1>4. /\ initialized' \in [aut.states -> BOOLEAN] /\ on_stack' \in [aut.states -> BOOLEAN]
      /\ index' \in [aut.states -> Nat] /\ lowlink' \in [aut.states -> Nat]
  BY <1>2, <1>3
<1>5. /\ moves_left' \in [aut.states -> SUBSET aut.delta]
      /\ moves_left'[c] = {m \in aut.delta : m[1] = c}
      /\ \A q \in aut.states : q # c => moves_left'[q] = moves_left[q]
  BY <1>2, <1>3 DEF MovesFrom
<1>6. \A q \in aut.states : \A m \in moves_left'[q] : m[1] = q
  BY <1>2, <1>5
<1>7. Seen' = Seen \cup {c} /\ Open' = Open \cup {c}
  BY <1>1, <1>2, <1>3 DEF Seen, Open
<1>8. Closed' = Closed
  BY <1>7 DEF Closed
<1>9. Waiting' = Waiting \cup {m \in aut.delta : m[1] = c}
  <2>1. \A m \in Waiting : m[1] # c
    <3>1. ASSUME NEW m \in Waiting PROVE m[1] # c
      <4>1. PICK i \in b + 1 .. d : m[1] = program_stack[i]
        BY DEF Searching, SearchInv, MovesInv, OnPath
      <4>2. QED
        BY <4>1, PathIsOpen
    <3>2. QED
      BY <3>1
  <2>2. \A m \in aut.delta : m[1] \in aut.states
    BY WaitingMoves DEF Searching
  <2>3. ASSUME NEW m \in aut.delta
        PROVE  m \in moves_left'[m[1]] <=> m \in Waiting \/ m[1] = c
    BY <1>5, <2>1, <2>2 DEF Waiting
  <2>4. Waiting' = {m \in aut.delta : m \in moves_left'[m[1]]}
    BY <1>1 DEF Waiting
  <2>5. QED
    BY <2>3, <2>4 DEF Waiting
<1>10. ASSUME NEW q \in aut.states, q # c
       PROVE  next'[q] = next[q] /\ index'[q] = index[q] /\ lowlink'[q] = lowlink[q]
  <2>1. moves_left'[q] = moves_left[q]
    BY <1>5, <1>10
  <2>2. current_move(q)' = current_move(q)
    BY <2>1 DEF current_move
  <2>3. next'[q] = next[q]
    BY <1>1, <2>2 DEF next
  <2>4. QED
    BY <1>2, <1>3, <1>10, <2>3
<1>11. index'[c] = index_cnt /\ lowlink'[c] = index_cnt
  BY <1>2, <1>3
<1>12. index_cnt' = index_cnt + 1 /\ tarjan_stack' = Append(tarjan_stack, c)
       /\ useful' = IF client = "useful" /\ c \in aut.final THEN useful \cup {c} ELSE useful
  OBVIOUS
<1>13. (phase' = "moves" /\ answer' = TRUE) \/ (phase' = "done" /\ answer' = FALSE)
  BY DEF Searching
<1>14. SearchTypes'
  <2>1. tarjan_stack' \in Seq(aut.states) /\ index_cnt' \in Nat /\ useful' \in SUBSET aut.states
    BY <1>2, <1>12
  <2> HIDE DEF Discover
  <2>2. QED
    BY <1>1, <1>4, <1>5, <1>6, <1>13, <2>1 DEF Searching, SearchTypes
<1> HIDE DEF Discover
<1>15. QED
  BY <1>1, <1>7, <1>8, <1>9, <1>10, <1>11, <1>12, <1>13, <1>14


LEMMA DiscoverKeeps ==
  ASSUME NEW b, NEW d, Searching(b, d), Discover
  PROVE  TarjanInv'
<1>1. PICK c : c = act_state
  OBVIOUS
<1>1a. PICK l \in Nat, n \in Nat : SeenAt(b, d, c, l, n)
  BY <1>1, DiscoverPlace
<1>2. /\ l < n /\ Len(program_stack) = n /\ c = program_stack[n] /\ l <= b
      /\ c \in aut.states /\ c \notin Seen /\ c \in ReachIn(aut, aut.initial)
      /\ \A i \in l + 1 .. n - 1 : i \in b + 1 .. d
      /\ \A i \in b + 1 .. d : i \in l + 1 .. n - 1
      /\ \A i \in l + 1 .. n - 1 :
           /\ StandsAtMove(program_stack[i])
           /\ next[program_stack[i]][3] = program_stack[i + 1]
           /\ IsPath(aut, program_stack[i], c)
           /\ i = n - 1 => Covers(program_stack[i], index_cnt)
           /\ i < n - 1 => i < d
      /\ \A i \in l + 1 .. b : order[i] = c
  BY <1>1a DEF SeenAt
<1>3. /\ UNCHANGED <<aut, order, client, program_stack, sccs>>
      /\ Seen' = Seen \cup {c} /\ Open' = Open \cup {c} /\ Closed' = Closed
      /\ Waiting' = Waiting \cup {m \in aut.delta : m[1] = c}
      /\ \A q \in aut.states : q # c => /\ next'[q] = next[q] /\ index'[q] = index[q]
                                        /\ lowlink'[q] = lowlink[q]
      /\ index'[c] = index_cnt /\ lowlink'[c] = index_cnt /\ index_cnt' = index_cnt + 1
      /\ tarjan_stack' = Append(tarjan_stack, c)
      /\ useful' = IF client = "useful" /\ c \in aut.final THEN useful \cup {c} ELSE useful
      /\ (phase' = "moves" /\ answer' = TRUE) \/ (phase' = "done" /\ answer' = FALSE)
      /\ SearchTypes'
  BY <1>1, <1>2, DiscoverSets
<1>4. /\ Open \subseteq Seen /\ Seen \subseteq aut.states /\ Closed \subseteq Seen
      /\ IsGraph(aut) /\ index_cnt \in Nat
      /\ \A m \in aut.delta : m[1] \in aut.states /\ m[3] \in aut.states
  BY WaitingMoves, SearchGraph, StackPlaces DEF Searching, Indexed, Closed
<1>5. \A q \in Seen : /\ q # c /\ q \in aut.states /\ index'[q] = index[q]
                      /\ lowlink'[q] = lowlink[q] /\ next'[q] = next[q]
                      /\ index[q] \in Nat /\ index[q] < index_cnt
  BY <1>2, <1>3, <1>4, StackPlaces DEF Searching, Indexed
<1>6. Indexed'
  <2>1. \A q \in Seen' : index'[q] < index_cnt' /\ q \in ReachIn(aut, aut.initial)
    BY <1>2, <1>3, <1>4, <1>5 DEF Searching, Indexed
  <2>2. \A q, r \in Seen' : index'[q] = index'[r] => q = r
    BY <1>2, <1>3, <1>4, <1>5 DEF Searching, Indexed
  <2>3. Open' \subseteq Seen'
    BY <1>3, <1>4
  <2>4. \A q \in Open' : lowlink'[q] <= index'[q]
    BY <1>3, <1>4, <1>5 DEF Searching, Indexed
  <2>5. QED
    BY <1>3, <2>1, <2>2, <2>3, <2>4 DEF Indexed
<1>7. StackInOrder'
  <2>1. /\ tarjan_stack \in Seq(aut.states) /\ ToSet(tarjan_stack) = Open
        /\ \A k, j \in 1 .. Len(tarjan_stack) :
             k < j => index[tarjan_stack[k]] < index[tarjan_stack[j]]
    BY DEF Searching, SearchTypes, StackInOrder
  <2>2. PICK s : s = tarjan_stack'
    OBVIOUS
  <2>3. PICK k \in Nat : k = Len(tarjan_stack)
    BY <2>1
  <2>4. /\ Len(s) = k + 1 /\ s[k + 1] = c
        /\ \A j \in 1 .. k : s[j] = tarjan_stack[j]
    BY <1>2, <1>3, <2>1, <2>2, <2>3, AppendProperties
  <2>5. \A j \in 1 .. k : tarjan_stack[j] \in Open
    BY <2>1, <2>3 DEF ToSet
  <2>6. ToSet(s) = Open'
    <3>1. \A q : q \in ToSet(tarjan_stack) <=> \E j \in 1 .. k : tarjan_stack[j] = q
      BY <2>1, <2>3 DEF ToSet
    <3>2. \A q : q \in ToSet(s) <=> \E j \in 1 .. k + 1 : s[j] = q
      BY <2>4 DEF ToSet
    <3>3. \A q : q \in ToSet(s) <=> q \in Open \/ q = c
      BY <2>1, <2>4, <3>1, <3>2
    <3>4. QED
      BY <1>3, <3>3
  <2>7. ASSUME NEW i \in 1 .. k + 1, NEW j \in 1 .. k + 1, i < j
        PROVE  index'[s[i]] < index'[s[j]]
    <3>1. i \in 1 .. k /\ s[i] \in Open /\ s[i] = tarjan_stack[i]
      BY <2>4, <2>5, <2>7
    <3>2. s[i] \in Seen
      BY <1>4, <3>1
    <3>3. CASE j = k + 1
      BY <1>3, <1>5, <2>4, <3>2, <3>3
    <3>4. CASE j # k + 1
      <4>1. j \in 1 .. k /\ s[j] \in Open /\ s[j] = tarjan_stack[j]
        BY <2>4, <2>5, <3>4
      <4>2. s[j] \in Seen
        BY <1>4, <4>1
      <4>3. QED
        BY <1>5, <2>1, <2>3, <2>7, <3>1, <3>2, <4>1, <4>2
    <3>5. QED
      BY <3>3, <3>4
  <2>8. QED
    BY <2>2, <2>4, <2>6, <2>7 DEF StackInOrder
<1>8. GivenInv'
  BY <1>3, SameGiven DEF Searching
<1>9. /\ useful \subseteq useful' /\ \A q \in useful' : q \in useful \/ q = c
      /\ client = "useful" => useful \subseteq Seen
  BY <1>3 DEF Searching, UsefulInv
<1>10. UsefulInv'
  <2>1. SUFFICES ASSUME client = "useful"
                 PROVE  /\ \A q \in useful' : IsUseful(q) /\ q \in Seen'
                        /\ \A q \in Closed : IsUseful(q) => q \in useful'
                        /\ \A q \in aut.final : q \in Open' => q \in useful'
    BY <1>3 DEF UsefulInv, IsUseful
  <2>2. /\ \A q \in useful : IsUseful(q) /\ q \in Seen
        /\ \A q \in Closed : IsUseful(q) => q \in useful
        /\ \A q \in aut.final : q \in Open => q \in useful
    BY <2>1 DEF Searching, UsefulInv
  <2>3. c \in aut.final => IsUseful(c)
    BY <1>2, <1>4, PathInside DEF IsUseful
  <2>4. QED
    BY <1>3, <2>1, <2>2, <2>3
<1>11. ASSUME phase' = "moves" PROVE SearchInv(l, n)'
  <2>1. ~Called(n)' /\ ~Returned(n)'
    BY <1>2, <1>3, <1>11 DEF Called, Returned
  <2>2. \A i \in l + 1 .. n - 1 :
          /\ i \in b + 1 .. d /\ program_stack[i] \in Open /\ program_stack[i] \in Seen
          /\ program_stack[i] \in aut.states
    BY <1>2, PathIsOpen
  <2>3. \A i \in l + 1 .. n : i # n => i \in l + 1 .. n - 1
    BY <1>2
  <2>4. Shape(l, n)'
    <3>1. order \in Seq(aut.states) /\ Len(order) \in Nat
      BY SearchGraph DEF Searching
    <3>2. /\ b \in Nat /\ b <= Len(order)
          /\ \A i \in 1 .. b : program_stack[i] = order[i]
          /\ \A i \in b + 1 .. Len(order) : order[i] \in Seen
      BY DEF Searching, SearchInv, Shape
    <3>3. \A i \in 1 .. l : i \in 1 .. b
      BY <1>2, <3>2
    <3>4. \A i \in l + 1 .. Len(order) : i \in l + 1 .. b \/ i \in b + 1 .. Len(order)
      BY <1>2, <3>2
    <3>5. \A i \in l + 1 .. Len(order) : order[i] \in Seen'
      BY <1>2, <1>3, <3>2, <3>4
    <3>6. l <= Len(order) /\ l <= n /\ l # n
      BY <1>2, <3>1, <3>2
    <3>7. QED
      BY <1>2, <1>3, <2>1, <3>2, <3>3, <3>5, <3>6 DEF Shape
  <2>5. PathInv(l, n)'
    <3>1. \A i \in l + 1 .. n : program_stack[i] \in Open'
      BY <1>2, <1>3, <2>2, <2>3
    <3>2. ASSUME NEW i \in l + 1 .. n, NEW j \in l + 1 .. n, i < j
          PROVE  index'[program_stack[i]] < index'[program_stack[j]]
      <4>1. i \in l + 1 .. n - 1
        BY <1>2, <3>2
      <4>2. program_stack[i] \in Seen
        BY <2>2, <4>1
      <4>3. CASE j = n
        BY <1>2, <1>3, <1>5, <4>2, <4>3
      <4>4. CASE j # n
        <5>1. j \in l + 1 .. n - 1
          BY <2>3, <4>4
        <5>2. index[program_stack[i]] < index[program_stack[j]]
          BY <2>2, <3>2, <4>1, <5>1 DEF Searching, SearchInv, PathInv
        <5>3. program_stack[j] \in Seen
          BY <2>2, <5>1
        <5>4. QED
          BY <1>5, <4>2, <5>2, <5>3
      <4>5. QED
        BY <4>3, <4>4
    <3>3. ASSUME NEW i \in l + 1 .. n, i < n
          PROVE  /\ StandsAtMove(program_stack[i])'
                 /\ next'[program_stack[i]][3] = program_stack[i + 1]
      <4>1. i \in l + 1 .. n - 1
        BY <2>3, <3>3
      <4>2. next'[program_stack[i]] = next[program_stack[i]]
        BY <1>5, <2>2, <4>1
      <4>3. QED
        BY <1>2, <1>3, <4>1, <4>2 DEF StandsAtMove
    <3>4. QED
      BY <1>3, <1>11, <2>1, <3>1, <3>2, <3>3 DEF PathInv
  <2>6. MovesInv(l, n)'
    <3>1. ASSUME NEW m \in Waiting' PROVE \E i \in l + 1 .. n : m[1] = program_stack[i]
      <4>1. CASE m[1] = c
        <5>1. n \in l + 1 .. n
          BY <1>2
        <5>2. QED
          BY <1>2, <4>1, <5>1
      <4>2. CASE m[1] # c
        <5>1. m \in Waiting
          BY <1>3, <3>1, <4>2
        <5>2. PICK i \in b + 1 .. d : m[1] = program_stack[i]
          BY <5>1 DEF Searching, SearchInv, MovesInv, OnPath
        <5>3. i \in l + 1 .. n
          BY <1>2, <5>2
        <5>4. QED
          BY <5>2, <5>3
      <4>3. QED
        BY <4>1, <4>2
    <3>2. ASSUME NEW m \in aut.delta, m[1] \in Open', m \notin Waiting'
          PROVE  m[1] \in Open /\ m[1] \in Seen /\ m \notin Waiting /\ m[3] \in Seen
      <4>1. m[1] \in Open /\ m \notin Waiting
        BY <1>3, <3>2
      <4>2. QED
        BY <1>4, <4>1 DEF Searching, SearchInv, MovesInv
    <3>3. ASSUME NEW i \in l + 1 .. n, NEW m \in aut.delta, m[1] \in Open', m \notin Waiting',
                 index'[m[1]] < index'[program_stack[i]]
          PROVE  index'[m[3]] < index'[program_stack[i]]
      <4>1. m[1] \in Open /\ m[1] \in Seen /\ m \notin Waiting /\ m[3] \in Seen
        BY <3>2, <3>3
      <4>2. CASE i = n
        BY <1>2, <1>3, <1>5, <4>1, <4>2
      <4>3. CASE i # n
        <5>1. i \in l + 1 .. n - 1
          BY <2>3, <4>3
        <5>2. i \in b + 1 .. d /\ program_stack[i] \in Seen
          BY <2>2, <5>1
        <5>3. index[m[1]] < index[program_stack[i]]
          BY <1>5, <3>3, <4>1, <5>2
        <5>4. index[m[3]] < index[program_stack[i]]
          BY <4>1, <5>2, <5>3 DEF Searching, SearchInv, MovesInv
        <5>5. QED
          BY <1>5, <4>1, <5>2, <5>4
      <4>4. QED
        BY <4>2, <4>3
    <3>4. \A m \in Waiting' : m[1] \in OnPath(l, n)'
      BY <1>3, <3>1 DEF OnPath
    <3>5. QED
      BY <1>3, <3>2, <3>3, <3>4 DEF MovesInv
  <2>7. ReachInv(l, n)'
    <3>1. n \in l + 1 .. n /\ IsPath(aut, c, c)
      BY <1>2, <1>4, PathInside
    <3>2. ASSUME NEW i \in l + 1 .. n, NEW r \in Open', index'[program_stack[i]] <= index'[r]
          PROVE  IsPath(aut, program_stack[i], r)
      <4>1. CASE i = n
        <5>1. r = c
          <6>1. r # c => r \in Seen
            BY <1>3, <1>4
          <6>2. r # c => index'[r] = index[r] /\ index[r] \in Nat /\ index[r] < index_cnt
            BY <1>5, <6>1
          <6>3. index'[program_stack[i]] = index_cnt
            BY <1>2, <1>3, <4>1
          <6>4. QED
            BY <1>4, <3>2, <6>2, <6>3
        <5>2. QED
          BY <1>2, <3>1, <4>1, <5>1
      <4>2. CASE i # n
        <5>1. i \in l + 1 .. n - 1
          BY <2>3, <4>2
        <5>2. CASE r = c
          BY <1>2, <5>1, <5>2
        <5>3. CASE r # c
          <6>1. r \in Open /\ r \in Seen /\ program_stack[i] \in Seen
            BY <1>3, <1>4, <2>2, <5>1, <5>3
          <6>2. index[program_stack[i]] <= index[r]
            BY <1>5, <3>2, <6>1
          <6>3. QED
            BY <2>2, <5>1, <6>1, <6>2 DEF Searching, SearchInv, ReachInv
        <5>4. QED
          BY <5>2, <5>3
      <4>3. QED
        BY <4>1, <4>2
    <3>3. ASSUME NEW r \in Open'
          PROVE  \E i \in l + 1 .. n : index'[program_stack[i]] <= index'[r]
                                       /\ IsPath(aut, r, program_stack[i])
      <4>1. CASE r = c
        BY <1>2, <1>3, <1>4, <3>1, <4>1
      <4>2. CASE r # c
        <5>1. r \in Open /\ r \in Seen
          BY <1>3, <1>4, <4>2
        <5>2. PICK i \in b + 1 .. d : index[program_stack[i]] <= index[r]
                                      /\ IsPath(aut, r, program_stack[i])
          BY <5>1 DEF Searching, SearchInv, ReachInv
        <5>3. i \in l + 1 .. n - 1 /\ i \in l + 1 .. n /\ program_stack[i] \in Seen
          BY <1>2, <2>2, <5>2
        <5>4. index'[program_stack[i]] <= index'[r]
          BY <1>5, <5>1, <5>2, <5>3
        <5>5. QED
          BY <5>2, <5>3, <5>4
      <4>3. QED
        BY <4>1, <4>2
    <3>4. QED
      BY <1>3, <3>2, <3>3 DEF ReachInv
  <2>8. LowInv(l, n)'
    <3>1. ASSUME NEW i \in l + 1 .. n
          PROVE  /\ Leads(program_stack[i])'
                 /\ i < n => Covers(program_stack[i], index[program_stack[i + 1]])'
                 /\ i = n => Covers(program_stack[i], index_cnt)'
      <4>1. CASE i = n
        <5>1. Leads(program_stack[i])'
          <6>1. c \in Open' /\ lowlink'[c] = index'[c] /\ IsPath(aut, c, c)
            BY <1>2, <1>3, <1>4, PathInside
          <6>2. QED
            BY <1>2, <1>3, <4>1, <6>1 DEF Leads
        <5>2. ASSUME NEW m \in aut.delta, m \notin Waiting', m[1] \in Open',
                     index'[c] <= index'[m[1]]
              PROVE  FALSE
          <6>1. m[1] # c
            BY <1>3, <5>2
          <6>2. m[1] \in Seen
            BY <1>3, <1>4, <5>2, <6>1
          <6>3. QED
            BY <1>3, <1>4, <1>5, <5>2, <6>2
        <5>3. Covers(program_stack[i], index_cnt)'
          BY <1>2, <1>3, <4>1, <5>2 DEF Covers
        <5>4. QED
          BY <4>1, <5>1, <5>3
      <4>2. CASE i # n
        <5>1. i \in l + 1 .. n - 1 /\ i < n
          BY <2>3, <4>2
        <5>2. PICK q : q = program_stack[i]
          OBVIOUS
        <5>3. i \in b + 1 .. d /\ q \in Seen /\ q \in aut.states
          BY <2>2, <5>1, <5>2
        <5>4. Leads(q)
          BY <5>2, <5>3 DEF Searching, SearchInv, LowInv
        <5>5. lowlink'[q] = lowlink[q] /\ index'[q] = index[q]
              /\ index[q] \in Nat /\ index[q] < index_cnt
          BY <1>5, <5>3
        <5>6. Leads(program_stack[i])'
          <6>1. PICK r \in Open : lowlink[q] = index[r] /\ IsPath(aut, q, r)
            BY <5>4 DEF Leads
          <6>2. r \in Open' /\ index'[r] = index[r]
            BY <1>3, <1>4, <1>5
          <6>3. QED
            BY <1>3, <5>2, <5>5, <6>1, <6>2 DEF Leads
        <5>7. PICK limit : limit = index'[program_stack[i + 1]]
          OBVIOUS
        <5>8. Covers(q, limit)
          <6>1. CASE i = n - 1
            <7>1. limit = index_cnt /\ Covers(q, index_cnt)
              BY <1>2, <1>3, <5>1, <5>2, <5>7, <6>1
            <7>2. QED
              BY <7>1
          <6>2. CASE i # n - 1
            <7>1. i + 1 \in l + 1 .. n - 1 /\ i < n - 1
              BY <5>1, <6>2
            <7>2. program_stack[i + 1] \in Seen /\ i < d
              BY <1>2, <2>2, <5>1, <7>1
            <7>3. limit = index[program_stack[i + 1]]
              BY <1>5, <5>7, <7>2
            <7>4. QED
              BY <5>2, <5>3, <7>2, <7>3 DEF Searching, SearchInv, LowInv
          <6>3. QED
            BY <6>1, <6>2
        <5>9. ASSUME NEW m \in aut.delta,
                     m \notin Waiting', m[1] \in Open', m[3] \in Open',
                     index[q] <= index'[m[1]], index'[m[1]] < limit, index'[m[3]] < index[q]
              PROVE  lowlink[q] <= index'[m[3]]
          <6>1. m[1] # c /\ m \notin Waiting
            BY <1>3, <5>9
          <6>2. m[3] # c
            BY <1>3, <1>4, <5>5, <5>9
          <6>3. m[1] \in Open /\ m[3] \in Open /\ m[1] \in Seen /\ m[3] \in Seen
            BY <1>3, <1>4, <5>9, <6>1, <6>2
          <6>4. QED
            BY <1>5, <5>8, <5>9, <6>1, <6>3 DEF Covers
        <5>10. Covers(program_stack[i], index[program_stack[i + 1]])'
          BY <1>3, <5>2, <5>5, <5>7, <5>9 DEF Covers
        <5>11. QED
          BY <4>2, <5>6, <5>10
      <4>3. QED
        BY <4>1, <4>2
    <3>2. QED
      BY <3>1 DEF LowInv
  <2>9. ReturnInv(l, n)'
    BY <2>1 DEF ReturnInv
  <2>10. (client = "useful" => \A m \in aut.delta : PassesOn(m))'
    <3>1. ASSUME client = "useful", NEW m \in aut.delta,
                 m[1] \in Open', m[3] \in Closed, m[3] \in useful', m \notin Waiting'
          PROVE  \E r \in useful' : r \in Open' /\ r \in Strong(aut, m[1])
      <4>1. m[1] \in Open /\ m \notin Waiting
        BY <1>3, <3>1
      <4>2. m[3] \in useful
        BY <1>4, <1>5, <1>9, <3>1
      <4>3. PassesOn(m)
        BY <3>1 DEF Searching, SearchInv
      <4>4. PICK r \in useful : r \in Open /\ r \in Strong(aut, m[1])
        BY <3>1, <4>1, <4>2, <4>3 DEF PassesOn
      <4>5. QED
        BY <1>3, <1>9, <4>4
    <3>2. phase' # "main"
      BY <1>11
    <3>3. QED
      BY <1>3, <3>1, <3>2 DEF PassesOn
  <2>11. QED
    BY <2>4, <2>5, <2>6, <2>7, <2>8, <2>9, <2>10 DEF SearchInv
<1>12. QED
  BY <1>3, <1>6, <1>7, <1>8, <1>10, <1>11 DEF TarjanInv



(* The component of the state t on top of program_stack, and what is left of *)
(* tarjan_stack below it.                                                   *)
Splits(t, C, s) ==
  /\ C = {q \in Open : index[t] <= index[q]}
  /\ s \in Seq(aut.states) /\ ToSet(s) = Open \ C
  /\ \A m, n \in 1 .. Len(s) : m < n => index[s[m]] < index[s[n]]

LEMMA RootPlace ==
  ASSUME NEW b, NEW d, Searching(b, d), phase = "closing"
  PROVE  Splits(act_state, Component, Below)
<1>1. PICK t : t = act_state
  OBVIOUS
<1>2. t \in Open /\ t \in aut.states /\ index[t] \in Nat
  BY <1>1, AtTheEnd, StackPlaces
<1>3. PICK s \in Seq(aut.states) : s = tarjan_stack
  BY DEF Searching, SearchTypes
<1>4. PICK k \in Nat : k = Len(s)
  BY <1>3
<1>5. /\ \A q : q \in Open <=> \E n \in 1 .. k : s[n] = q
      /\ \A m, n \in 1 .. k : m < n => index[s[m]] < index[s[n]]
  BY <1>3, <1>4 DEF Searching, StackInOrder, ToSet
<1>6. PICK r : r = RootAt
  OBVIOUS
<1>7. r \in 1 .. k /\ s[r] = t
  <2>1. \E n \in 1 .. k : s[n] = t
    BY <1>2, <1>5
  <2>2. RootAt = CHOOSE n \in 1 .. k : s[n] = t
    BY <1>1, <1>3, <1>4 DEF RootAt
  <2>3. QED
    BY <1>6, <2>1, <2>2
<1>8. \A n \in 1 .. k : s[n] \in aut.states /\ index[s[n]] \in Nat
  BY <1>3, <1>4, StackPlaces
<1>9. \A n \in 1 .. k : index[t] <= index[s[n]] <=> r <= n
  <2>1. ASSUME NEW n \in 1 .. k PROVE index[t] <= index[s[n]] <=> r <= n
    <3>1. n < r => index[s[n]] < index[t]
      BY <1>5, <1>7
    <3>2. r < n => index[t] < index[s[n]]
      BY <1>5, <1>7
    <3>3. index[s[n]] \in Nat /\ r \in Nat /\ n \in Nat
      BY <1>7, <1>8
    <3>4. n = r => index[s[n]] = index[t]
      BY <1>7
    <3>5. QED
      BY <1>2, <3>1, <3>2, <3>3, <3>4
  <2>2. QED
    BY <2>1
<1>10. PICK C : C = Component
  OBVIOUS
<1>11. \A q : q \in C <=> \E n \in r .. k : s[n] = q
  BY <1>3, <1>4, <1>6, <1>10 DEF Component
<1>12. \A n \in r .. k : n \in 1 .. k /\ r <= n
  BY <1>7
<1>13. C = {q \in Open : index[t] <= index[q]}
  <2>1. \A q : q \in C => q \in Open /\ index[t] <= index[q]
    BY <1>5, <1>9, <1>11, <1>12
  <2>2. ASSUME NEW q \in Open, index[t] <= index[q] PROVE q \in C
    <3>1. PICK n \in 1 .. k : s[n] = q
      BY <1>5
    <3>2. n \in r .. k
      BY <1>7, <1>9, <2>2, <3>1
    <3>3. QED
      BY <1>11, <3>1, <3>2
  <2>3. QED
    BY <2>1, <2>2
<1>14. PICK p : p = Below
  OBVIOUS
<1>15. p = [n \in 1 .. r - 1 |-> s[n]]
  <2>1. p = SubSeq(s, 1, r - 1)
    BY <1>3, <1>6, <1>14 DEF Below
  <2>2. QED
    BY <1>4, <1>7, <2>1 DEF SubSeq
<1>16. \A n \in 1 .. r - 1 : n \in 1 .. k /\ ~(r <= n)
  BY <1>7
<1>17. p \in Seq(aut.states) /\ Len(p) = r - 1 /\ \A n \in 1 .. r - 1 : p[n] = s[n]
  <2>1. PICK l \in Nat : l = r - 1
    BY <1>7
  <2>2. p = [n \in 1 .. l |-> s[n]] /\ \A n \in 1 .. l : s[n] \in aut.states
    BY <1>8, <1>15, <1>16, <2>1
  <2>3. p \in Seq(aut.states) /\ Len(p) = l /\ \A n \in 1 .. l : p[n] = s[n]
    BY <2>2
  <2>4. QED
    BY <2>1, <2>3
<1>18. ToSet(p) = Open \ C
  <2>1. \A q : q \in ToSet(p) <=> \E n \in 1 .. r - 1 : s[n] = q
    BY <1>17 DEF ToSet
  <2>2. \A q : q \in ToSet(p) => q \in Open \ C
    <3>1. \A n \in 1 .. r - 1 : s[n] \in Open /\ ~(index[t] <= index[s[n]])
      BY <1>5, <1>9, <1>16
    <3>2. QED
      BY <1>13, <2>1, <3>1
  <2>3. ASSUME NEW q \in Open, q \notin C PROVE q \in ToSet(p)
    <3>1. PICK n \in 1 .. k : s[n] = q
      BY <1>5
    <3>2. ~(r <= n)
      BY <1>9, <1>13, <2>3, <3>1
    <3>3. n \in 1 .. r - 1
      BY <1>7, <3>2
    <3>4. QED
      BY <2>1, <3>1, <3>3
  <2>4. QED
    BY <2>2, <2>3
<1>19. \A m, n \in 1 .. Len(p) : m < n => index[p[m]] < index[p[n]]
  BY <1>5, <1>16, <1>17
<1>20. Splits(t, C, p)
  BY <1>13, <1>17, <1>18, <1>19 DEF Splits
<1>21. QED
  BY <1>1, <1>10, <1>14, <1>20

(* It is a strongly connected component, and only closed states follow it.  *)
LEMMA ComponentIsStrong ==
  ASSUME NEW b, NEW d, Searching(b, d), phase = "closing",
         NEW t, t = program_stack[d], lowlink[t] = index[t],
         NEW C, NEW s, Splits(t, C, s)
  PROVE  /\ t \in C /\ C \subseteq Open /\ C \subseteq aut.states
         /\ \A m \in aut.delta : m[1] \in C => m \notin Waiting
         /\ EdgeClosed(aut, Closed \cup C)
         /\ \A q \in C : C = Strong(aut, q)
         /\ \A q \in Open : q \notin C => index[q] < index[t]
<1>1. /\ b < d /\ t \in Open /\ t \in Seen /\ t \in aut.states /\ d \in b + 1 .. d /\ ~Returned(d)
      /\ index[t] \in Nat /\ index_cnt \in Nat
  BY AtTheEnd, StackPlaces
<1>2. C = {q \in Open : index[t] <= index[q]}
  BY DEF Splits
<1>3. /\ Open \subseteq aut.states /\ Open \subseteq Seen /\ IsGraph(aut)
      /\ \A m \in aut.delta : m[1] \in aut.states /\ m[3] \in aut.states
      /\ \A q \in aut.states : index[q] \in Nat
  BY WaitingMoves, SearchGraph, StackPlaces DEF Searching, Indexed
<1>4. t \in C /\ C \subseteq Open /\ C \subseteq aut.states
  BY <1>1, <1>2, <1>3
<1>5. \A q \in Open : q \notin C => index[q] < index[t]
  BY <1>1, <1>2, <1>3
<1>6. ASSUME NEW m \in aut.delta, m[1] \in C PROVE m \notin Waiting
  <2>1. SUFFICES ASSUME m \in Waiting PROVE FALSE
    OBVIOUS
  <2>2. PICK i \in b + 1 .. d : m[1] = program_stack[i]
    BY <2>1 DEF Searching, SearchInv, MovesInv, OnPath
  <2>3. index[m[1]] <= index[t] /\ m[1] \in Seen
    BY <2>2, PathIsOpen
  <2>4. index[m[1]] = index[t]
    BY <1>1, <1>2, <1>3, <1>6, <2>3
  <2>5. m[1] = t
    BY <1>1, <2>3, <2>4 DEF Searching, Indexed
  <2>6. QED
    BY <2>1, <2>5 DEF Searching, SearchInv, PathInv
<1>7. EdgeClosed(aut, Closed \cup C)
  <2>1. ASSUME NEW m \in aut.delta, m[1] \in C PROVE m[3] \in Closed \cup C
    <3>1. m \notin Waiting /\ m[1] \in Open /\ index[t] <= index[m[1]]
      BY <1>2, <1>6, <2>1
    <3>2. m[3] \in Seen
      BY <3>1 DEF Searching, SearchInv, MovesInv
    <3>3. CASE m[3] \in Open
      <4>1. Covers(t, index_cnt)
        BY <1>1 DEF Searching, SearchInv, LowInv
      <4>2. index[m[1]] < index_cnt
        BY <1>3, <3>1 DEF Searching, Indexed
      <4>3. index[m[3]] < index[t] => lowlink[t] <= index[m[3]]
        BY <3>1, <3>3, <4>1, <4>2 DEF Covers
      <4>4. index[t] <= index[m[3]]
        BY <1>1, <1>3, <4>3
      <4>5. QED
        BY <1>2, <3>3, <4>4
    <3>4. CASE m[3] \notin Open
      BY <3>2, <3>4 DEF Closed
    <3>5. QED
      BY <3>3, <3>4
  <2>2. EdgeClosed(aut, Closed)
    BY DEF Searching, GivenInv
  <2>3. QED
    BY <2>1, <2>2 DEF EdgeClosed
<1>8. C = Strong(aut, t)
  <2>1. ASSUME NEW q \in C PROVE q \in Strong(aut, t)
    <3>1. q \in Open /\ index[t] <= index[q] /\ q \in aut.states
      BY <1>2, <1>4
    <3>2. IsPath(aut, t, q)
      BY <1>1, <3>1, OpenReaches
    <3>3. IsPath(aut, q, t)
      BY <3>1, OpenReachesTheEnd
    <3>4. QED
      BY <3>1, <3>2, <3>3 DEF Strong
  <2>2. ASSUME NEW q \in Strong(aut, t) PROVE q \in C
    <3>1. q \in aut.states /\ IsPath(aut, t, q) /\ IsPath(aut, q, t)
      BY DEF Strong
    <3>2. PICK D : D = Closed \cup C
      OBVIOUS
    <3>3. q \in D
      BY <1>1, <1>3, <1>4, <1>7, <3>1, <3>2, PathStaysIn
    <3>4. q \notin Closed
      <4>1. PICK D2 : D2 = Closed
        OBVIOUS
      <4>2. EdgeClosed(aut, D2) /\ t \notin D2
        BY <1>1, <4>1 DEF Searching, GivenInv, Closed
      <4>3. QED
        BY <1>3, <3>1, <4>1, <4>2, PathStaysIn
    <3>5. QED
      BY <3>2, <3>3, <3>4
  <2>3. QED
    BY <2>1, <2>2
<1>9. \A q \in C : C = Strong(aut, q)
  <2>1. \A q \in C : Strong(aut, q) = Strong(aut, t)
    BY <1>1, <1>3, <1>8, StrongIsClass
  <2>2. QED
    BY <1>8, <2>1
<1>10. QED
  BY <1>4, <1>5, <1>6, <1>7, <1>9



LEMMA CloseGives ==
  ASSUME NEW b, NEW d, Searching(b, d), NEW C,
         C \subseteq Open, C \subseteq aut.states,
         EdgeClosed(aut, Closed \cup C), \A q \in C : C = Strong(aut, q),
         sccs' = Append(sccs, C), Closed' = Closed \cup C, UNCHANGED aut
  PROVE  GivenInv' /\ sccs' \in Seq(SUBSET aut.states)
<1>1. PICK old \in Seq(SUBSET aut.states) : old = sccs
  BY DEF Searching, SearchTypes
<1>2. PICK k \in Nat : k = Len(old)
  BY <1>1
<1>3. PICK new : new = Append(old, C)
  OBVIOUS
<1>4. /\ new \in Seq(SUBSET aut.states) /\ Len(new) = k + 1 /\ new[k + 1] = C
      /\ \A n \in 1 .. k : new[n] = old[n]
  BY <1>1, <1>2, <1>3, AppendProperties
<1> DEFINE Up(n) == UNION {old[l] : l \in 1 .. n}
           NewUp(n) == UNION {new[l] : l \in 1 .. n}
<1>5. /\ \A n \in 1 .. k : /\ \A q \in old[n] : old[n] = Strong(aut, q)
                           /\ EdgeClosed(aut, Up(n))
                           /\ \A l \in 1 .. n - 1 : old[l] \cap old[n] = {}
      /\ Up(k) = Closed
  <2>1. \A n : GivenUpTo(n) = Up(n)
    BY <1>1 DEF GivenUpTo
  <2> HIDE DEF Up
  <2>2. GivenInv /\ sccs = old /\ Len(sccs) = k
    BY <1>1, <1>2 DEF Searching
  <2>3. QED
    BY <2>1, <2>2 DEF GivenInv
<1>6. \A n \in 1 .. k : \A l \in 1 .. n : l \in 1 .. k
  BY <1>2
<1>7. \A n \in 1 .. k : NewUp(n) = Up(n)
  BY <1>4, <1>6
<1>8. NewUp(k + 1) = Closed \cup C
  <2>1. \A l : l \in 1 .. k + 1 <=> l \in 1 .. k \/ l = k + 1
    BY <1>2
  <2>2. \A q : q \in NewUp(k + 1) <=> (\E l \in 1 .. k : q \in new[l]) \/ q \in new[k + 1]
    BY <2>1
  <2>3. \A q : q \in Up(k) <=> \E l \in 1 .. k : q \in old[l]
    OBVIOUS
  <2>4. QED
    BY <1>4, <1>5, <2>2, <2>3
<1>9. \A l \in 1 .. k : old[l] \cap C = {}
  <2>1. \A l \in 1 .. k : old[l] \subseteq Closed
    BY <1>5
  <2>2. QED
    BY <2>1 DEF Closed
<1>10. ASSUME NEW n \in 1 .. k + 1
       PROVE  /\ \A q \in new[n] : new[n] = Strong(aut, q)
              /\ EdgeClosed(aut, NewUp(n))
              /\ \A l \in 1 .. n - 1 : new[l] \cap new[n] = {}
  <2>1. CASE n = k + 1
    <3>1. \A l \in 1 .. n - 1 : l \in 1 .. k
      BY <1>2, <2>1
    <3>2. QED
      BY <1>4, <1>8, <1>9, <2>1, <3>1
  <2>2. CASE n # k + 1
    <3>1. n \in 1 .. k /\ \A l \in 1 .. n - 1 : l \in 1 .. k
      BY <1>2, <2>2
    <3>2. NewUp(n) = Up(n)
      BY <1>7, <3>1
    <3> HIDE DEF Up, NewUp
    <3>3. QED
      BY <1>4, <1>5, <3>1, <3>2
  <2>3. QED
    BY <2>1, <2>2
<1>11. sccs' = new
  BY <1>1, <1>3
<1>12. \A n : (GivenUpTo(n))' = NewUp(n)
  BY <1>11 DEF GivenUpTo
<1>13. QED
  <2> HIDE DEF Up, NewUp
  <2>1. QED
    BY <1>4, <1>8, <1>10, <1>11, <1>12 DEF GivenInv


(* What becomes useful with the component is useful, and nothing is missed. *)
LEMMA CloseMarks ==
  ASSUME NEW b, NEW d, Searching(b, d), phase = "closing", client = "useful",
         NEW t, t = program_stack[d], lowlink[t] = index[t],
         NEW C, NEW s, Splits(t, C, s)
  PROVE  /\ \A q \in useful \cup Marked(C, s) : IsUseful(q) /\ q \in Seen
         /\ \A q \in Closed \cup C : IsUseful(q) => q \in useful \cup Marked(C, s)
         /\ Marked(C, s) \in SUBSET aut.states
<1>1. /\ t \in C /\ C \subseteq Open /\ C \subseteq aut.states
      /\ \A m \in aut.delta : m[1] \in C => m \notin Waiting
      /\ EdgeClosed(aut, Closed \cup C)
      /\ \A q \in C : C = Strong(aut, q)
      /\ \A q \in Open : q \notin C => index[q] < index[t]
  BY ComponentIsStrong
<1>2. /\ Open \subseteq Seen /\ Seen \subseteq aut.states /\ IsGraph(aut)
      /\ aut.final \subseteq aut.states
      /\ \A q \in Seen : q \in ReachIn(aut, aut.initial)
      /\ \A m \in aut.delta : m[1] \in aut.states /\ m[3] \in aut.states
      /\ t \in Open /\ t \in aut.states /\ index[t] \in Nat
      /\ \A q \in aut.states : index[q] \in Nat
  BY WaitingMoves, SearchGraph, AtTheEnd, StackPlaces DEF Searching, Indexed
<1>3. /\ \A q \in useful : IsUseful(q) /\ q \in Seen
      /\ \A q \in Closed : IsUseful(q) => q \in useful
      /\ \A q \in aut.final : q \in Open => q \in useful
  BY DEF Searching, UsefulInv
<1>4. ASSUME C \cap useful # {}, NEW q \in Open, IsPath(aut, q, t) PROVE IsUseful(q)
  <2>1. PICK u \in C : u \in useful
    BY <1>4
  <2>2. PICK f \in aut.final : IsPath(aut, u, f)
    BY <1>3, <2>1 DEF IsUseful
  <2>3. u \in Strong(aut, t)
    BY <1>1, <2>1
  <2>4. IsPath(aut, t, u)
    BY <2>3 DEF Strong
  <2>5. IsPath(aut, q, u)
    BY <1>2, <1>4, <2>4, PathsJoin
  <2>6. IsPath(aut, q, f)
    BY <1>2, <1>4, <2>2, <2>5, PathsJoin
  <2>7. QED
    BY <1>2, <1>4, <2>6 DEF IsUseful
<1>5. \A n \in 1 .. Len(s) : s[n] \in Open /\ s[n] \notin C
  BY DEF Splits, ToSet
<1>6. ASSUME NEW q \in Marked(C, s) PROVE C \cap useful # {} /\ q \in Open /\ IsPath(aut, q, t)
  <2>1. C \cap useful # {}
    BY DEF Marked
  <2>2. q \in C \/ \E n \in 1 .. Len(s) : q = s[n]
    BY DEF Marked
  <2>3. CASE q \in C
    <3>1. t \in Strong(aut, q)
      BY <1>1, <2>3
    <3>2. QED
      BY <1>1, <2>1, <2>3, <3>1 DEF Strong
  <2>4. CASE q \notin C
    <3>1. q \in Open /\ index[q] < index[t]
      BY <1>1, <1>5, <2>2, <2>4
    <3>2. index[q] <= index[t]
      BY <1>2, <3>1
    <3>3. QED
      BY <1>2, <2>1, <3>1, <3>2, OpenReaches
  <2>5. QED
    BY <2>3, <2>4
<1>7. \A q \in Marked(C, s) : IsUseful(q) /\ q \in Seen
  BY <1>2, <1>4, <1>6
<1>8. ASSUME C \cap useful = {}, NEW q \in C, IsUseful(q) PROVE FALSE
  <2> DEFINE Dead == {r \in Closed : \A f \in aut.final : ~IsPath(aut, r, f)}
  <2>1. PICK D : D = C \cup Dead
    OBVIOUS
  <2>2. ASSUME NEW m \in aut.delta, m[1] \in C PROVE m[3] \in D
    <3>1. m[3] \in Closed \cup C /\ m \notin Waiting
      BY <1>1, <2>2 DEF EdgeClosed
    <3>2. SUFFICES ASSUME m[3] \in Closed, m[3] \notin Dead PROVE FALSE
      BY <2>1, <3>1
    <3>3. PICK f \in aut.final : IsPath(aut, m[3], f)
      BY <3>2
    <3>4. IsUseful(m[3])
      BY <1>2, <3>2, <3>3 DEF IsUseful, Closed
    <3>5. m[3] \in useful
      BY <1>3, <3>2, <3>4
    <3>6. PassesOn(m)
      BY DEF Searching, SearchInv
    <3>7. PICK r \in useful : r \in Strong(aut, m[1])
      BY <1>1, <2>2, <3>1, <3>2, <3>5, <3>6 DEF PassesOn
    <3>8. r \in C
      BY <1>1, <2>2, <3>7
    <3>9. QED
      BY <1>8, <3>7, <3>8
  <2>3. ASSUME NEW m \in aut.delta, m[1] \in Dead PROVE m[3] \in D
    <3>1. m[3] \in Closed /\ IsPath(aut, m[1], m[3])
      BY <1>2, <2>3, MoveIsPath DEF Searching, GivenInv, EdgeClosed
    <3>2. \A f \in aut.final : ~IsPath(aut, m[3], f)
      BY <1>2, <2>3, <3>1, PathsJoin
    <3>3. QED
      BY <2>1, <3>1, <3>2
  <2>4. EdgeClosed(aut, D)
    BY <2>1, <2>2, <2>3 DEF EdgeClosed
  <2>5. PICK f \in aut.final : IsPath(aut, q, f)
    BY <1>8 DEF IsUseful
  <2>6. f \in D
    BY <1>1, <1>2, <1>8, <2>1, <2>4, <2>5, PathStaysIn
  <2>7. f \notin C
    BY <1>1, <1>3, <1>8
  <2>8. f \notin Dead
    BY <1>2, PathInside
  <2>9. QED
    BY <2>1, <2>6, <2>7, <2>8
<1>9. C \cap useful # {} => C \subseteq Marked(C, s)
  BY DEF Marked
<1>10. \A q \in Closed \cup C : IsUseful(q) => q \in useful \cup Marked(C, s)
  BY <1>3, <1>8, <1>9
<1>11. Marked(C, s) \in SUBSET aut.states
  BY <1>2, <1>7
<1>12. QED
  BY <1>3, <1>7, <1>10, <1>11



(* What is left of the path when the component of its end is closed.        *)
LEMMA CloseLeaves ==
  ASSUME NEW b, NEW d, Searching(b, d), phase = "closing", NEW e, e = d - 1,
         NEW t, t = program_stack[d], lowlink[t] = index[t],
         NEW C, NEW s, Splits(t, C, s),
         program_stack' = Front(program_stack), phase' = "main",
         UNCHANGED <<aut, order, client, index_cnt, initialized, index, lowlink, moves_left>>,
         Seen' = Seen, Open' = Open \ C, Closed' = Closed \cup C,
         client = "useful" => useful' = useful \cup Marked(C, s)
  PROVE  /\ e \in Nat /\ SearchInv(b, e)'
         /\ program_stack' \in Seq(aut.states)
<1>1. Waiting' = Waiting /\ next' = next
  BY SameMoves
<1>2. /\ t \in C /\ C \subseteq Open /\ C \subseteq aut.states
      /\ \A m \in aut.delta : m[1] \in C => m \notin Waiting
      /\ \A q \in C : C = Strong(aut, q)
      /\ \A q \in Open : q \notin C => index[q] < index[t]
  BY ComponentIsStrong
<1>3. \A q \in C : index[t] <= index[q]
  BY DEF Splits
<1>4. /\ Open \subseteq Seen /\ Seen \subseteq aut.states /\ IsGraph(aut)
      /\ \A q \in aut.states : index[q] \in Nat /\ lowlink[q] \in Nat
      /\ \A q \in Open : lowlink[q] <= index[q]
      /\ \A m \in aut.delta : m[1] \in aut.states /\ m[3] \in aut.states
      /\ t \in Seen /\ t \in aut.states /\ d \in Nat /\ b \in Nat
  BY WaitingMoves, SearchGraph, AtTheEnd, StackPlaces DEF Searching, Indexed
<1>5. /\ e \in Nat /\ b <= e /\ e < d /\ d = e + 1
      /\ program_stack' \in Seq(aut.states) /\ Len(program_stack') = e
      /\ \A i \in 1 .. e : program_stack'[i] = program_stack[i]
      /\ \A i \in b + 1 .. e : i \in b + 1 .. d /\ i \in 1 .. e
                               /\ index[program_stack[i]] < index[t]
      /\ \A i \in b + 1 .. e : /\ StandsAtMove(program_stack[i])
                               /\ next[program_stack[i]][3] = program_stack[i + 1]
      /\ \A m \in Waiting : \E i \in b + 1 .. e : m[1] = program_stack[i]
      /\ \A m \in Waiting : m = next[m[1]] => m[3] \notin Closed
      /\ ~Called(e)' /\ OnPath(b, e)' = OnPath(b, e)
      /\ Shape(b, e)'
  BY <1>1, EndTakenOff
<1>6. \A i \in b + 1 .. e : /\ program_stack[i] \in Open /\ program_stack[i] \in aut.states
                            /\ program_stack[i] \notin C /\ program_stack'[i] = program_stack[i]
                            /\ index[program_stack[i]] \in Nat
  <2>1. \A i \in b + 1 .. e : program_stack[i] \in Open /\ program_stack[i] \in aut.states
    BY <1>5, PathIsOpen
  <2>2. ASSUME NEW q \in aut.states, index[q] < index[t] PROVE q \notin C
    BY <1>3, <1>4, <2>2
  <2>3. QED
    BY <1>4, <1>5, <2>1, <2>2
<1>7. ASSUME NEW r \in Open, r \notin C
      PROVE  \E i \in b + 1 .. e : index[program_stack[i]] <= index[r]
                                   /\ IsPath(aut, r, program_stack[i])
  <2>1. PICK i \in b + 1 .. d : index[program_stack[i]] <= index[r]
                                /\ IsPath(aut, r, program_stack[i])
    BY DEF Searching, SearchInv, ReachInv
  <2>2. i # d
    BY <1>2, <1>4, <1>7, <2>1
  <2>3. i \in b + 1 .. e
    BY <1>4, <1>5, <2>2
  <2>4. QED
    BY <2>1, <2>3
<1>8. PathInv(b, e)'
  <2>1. \A i, j \in b + 1 .. e :
          i < j => index[program_stack[i]] < index[program_stack[j]]
    BY <1>5 DEF Searching, SearchInv, PathInv
  <2>2. \A i \in b + 1 .. e : i < e => i + 1 \in 1 .. e
    BY <1>5
  <2>3. ASSUME NEW i \in b + 1 .. e
        PROVE  /\ StandsAtMove(program_stack[i])'
               /\ i < e => next[program_stack[i]][3] = program_stack'[i + 1]
    BY <1>1, <1>5, <1>6, <2>2 DEF StandsAtMove
  <2>4. b < e => e \in b + 1 .. e
    BY <1>4, <1>5
  <2>5. \A i \in b + 1 .. e : program_stack'[i] \in Open'
    BY <1>6
  <2>6. \A i, j \in b + 1 .. e : i < j => index'[program_stack'[i]] < index'[program_stack'[j]]
    BY <1>6, <2>1
  <2>7. \A i \in b + 1 .. e : i < e \/ Called(e)' =>
          /\ StandsAtMove(program_stack[i])'
          /\ next'[program_stack'[i]][3] = program_stack'[i + 1]
    BY <1>1, <1>5, <1>6, <2>3
  <2>8. b < e /\ Returned(e)' => StandsAtMove(program_stack[e])'
    BY <2>3, <2>4
  <2>9. phase' # "closing"
    OBVIOUS
  <2>10. QED
    BY <2>5, <2>6, <2>7, <2>8, <2>9 DEF PathInv
<1>9. MovesInv(b, e)'
  <2>1. \A m \in Waiting' : m[1] \in OnPath(b, e)'
    BY <1>1, <1>5 DEF OnPath
  <2>2. \A m \in aut.delta : m[1] \in Open' /\ m \notin Waiting' => m[3] \in Seen'
    BY <1>1 DEF Searching, SearchInv, MovesInv
  <2>3. \A i \in b + 1 .. e : \A m \in aut.delta :
          m[1] \in Open' /\ m \notin Waiting' /\ index[m[1]] < index[program_stack[i]]
            => index[m[3]] < index[program_stack[i]]
    BY <1>1, <1>5 DEF Searching, SearchInv, MovesInv
  <2>4. QED
    BY <1>6, <2>1, <2>2, <2>3 DEF MovesInv
<1>10. ReachInv(b, e)'
  <2>1. \A i \in b + 1 .. e : \A r \in Open :
          index[program_stack[i]] <= index[r] => IsPath(aut, program_stack[i], r)
    BY <1>5 DEF Searching, SearchInv, ReachInv
  <2>2. QED
    BY <1>6, <1>7, <2>1 DEF ReachInv
<1>11. Returned(e)'
  BY <1>5 DEF Returned
<1>12. \A q, limit : Covers(q, limit) => (Covers(q, limit))'
  BY <1>1 DEF Covers
<1>13. LowInv(b, e)'
  <2>1. ASSUME NEW i \in b + 1 .. e
        PROVE  /\ Leads(program_stack[i])'
               /\ i < e => Covers(program_stack[i], index[program_stack[i + 1]])'
    <3>1. PICK q : q = program_stack[i]
      OBVIOUS
    <3>2. /\ Leads(q)
          /\ i < e => Covers(q, index[program_stack[i + 1]]) /\ i + 1 \in 1 .. e
      <4>1. i \in b + 1 .. d /\ (i < e => i < d /\ i + 1 \in 1 .. e)
        BY <1>4, <1>5
      <4>2. LowInv(b, d)
        BY DEF Searching, SearchInv
      <4>3. QED
        BY <3>1, <4>1, <4>2 DEF LowInv
    <3>3. PICK r \in Open : lowlink[q] = index[r] /\ IsPath(aut, q, r)
      BY <3>2 DEF Leads
    <3>4. index[r] < index[t]
      <4>1. lowlink[q] <= index[q] /\ index[q] < index[t] /\ lowlink[q] \in Nat /\ index[q] \in Nat
        BY <1>4, <1>5, <1>6, <3>1
      <4>2. QED
        BY <1>4, <3>3, <4>1
    <3>5. r \notin C
      BY <1>3, <1>4, <3>4
    <3>6. Leads(program_stack[i])'
      BY <1>6, <3>1, <3>3, <3>5 DEF Leads
    <3>7. QED
      BY <1>5, <1>6, <1>12, <3>1, <3>2, <3>6
  <2>2. QED
    BY <1>11, <2>1 DEF LowInv
<1>14. ReturnInv(b, e)'
  <2>1. SUFFICES ASSUME b < e PROVE (Returns(program_stack[e], next[program_stack[e]][3]))'
    BY DEF ReturnInv
  <2>2. e \in b + 1 .. e
    BY <1>4, <1>5, <2>1
  <2>3. PICK q : q = program_stack[e]
    OBVIOUS
  <2>4. next[q][3] = t /\ program_stack'[e] = q /\ index[q] < index[t] /\ index[q] \in Nat
    BY <1>5, <1>6, <2>2, <2>3
  <2>5. Covers(q, index[t])
    BY <1>5, <2>2, <2>3 DEF Searching, SearchInv, LowInv
  <2>6. t \notin Open' /\ \A o \in Open' : index[o] < index[t]
    BY <1>2
  <2>7. index[q] <= lowlink[t]
    BY <1>4, <2>4
  <2>8. (Covers(q, index[t]))'
    BY <1>12, <2>5
  <2>9. (Returns(q, t))'
    BY <1>4, <2>4, <2>6, <2>7, <2>8 DEF Returns
  <2>10. QED
    BY <1>1, <2>4, <2>9
<1>15. (client = "useful" => \A m \in aut.delta : PassesOn(m))'
  <2>1. ASSUME client = "useful", NEW m \in aut.delta,
               m[1] \in Open, m[1] \notin C, m[3] \in Closed \cup C,
               m[3] \in useful \cup Marked(C, s),
               m \notin Waiting \/ m = next[m[1]]
        PROVE  \E r \in useful \cup Marked(C, s) :
                 r \in Open /\ r \notin C /\ r \in Strong(aut, m[1])
    <3>1. m[1] \in aut.states /\ index[m[1]] \in Nat /\ index[m[1]] < index[t]
      BY <1>2, <1>4, <2>1
    <3>2. CASE m[3] \in Closed
      <4>1. m \notin Waiting
        BY <1>5, <2>1, <3>2
      <4>2. m[3] \in useful
        <5>1. IsUseful(m[3])
          BY <2>1, CloseMarks
        <5>2. QED
          BY <2>1, <3>2, <5>1 DEF Searching, UsefulInv
      <4>3. PassesOn(m)
        BY <2>1 DEF Searching, SearchInv
      <4>4. PICK r \in useful : r \in Open /\ r \in Strong(aut, m[1])
        BY <2>1, <3>2, <4>1, <4>2, <4>3 DEF PassesOn
      <4>5. r \notin C
        <5>1. m[1] \in Strong(aut, r)
          BY <4>4, <3>1 DEF Strong
        <5>2. QED
          BY <1>2, <2>1, <5>1
      <4>6. QED
        BY <4>4, <4>5
    <3>3. CASE m[3] \in C
      <4>1. C \cap useful # {}
        BY <2>1, <3>3 DEF Marked
      <4>2. PICK k \in b + 1 .. e : index[program_stack[k]] <= index[m[1]]
        BY <1>7, <2>1
      <4>3. b < e /\ e \in b + 1 .. e
        BY <1>4, <1>5, <4>2
      <4>4. PICK p : p = program_stack[e]
        OBVIOUS
      <4>5. index[p] <= index[m[1]]
        <5>1. CASE m \in Waiting
          <6>1. PICK i \in b + 1 .. e : m[1] = program_stack[i]
            BY <1>5, <5>1
          <6>2. m[3] = program_stack[i + 1]
            BY <1>5, <2>1, <5>1, <6>1
          <6>3. i < e => i + 1 \in b + 1 .. e
            BY <1>4, <1>5
          <6>4. i = e
            BY <1>4, <1>5, <1>6, <3>3, <6>2, <6>3
          <6>5. QED
            BY <3>1, <4>4, <6>1, <6>4
        <5>2. CASE m \notin Waiting
          <6>1. index[m[1]] < index[p] => index[m[3]] < index[p]
            BY <1>5, <2>1, <4>3, <4>4, <5>2 DEF Searching, SearchInv, MovesInv
          <6>2. index[p] < index[t] /\ index[p] \in Nat
            BY <1>5, <1>6, <4>3, <4>4
          <6>3. index[t] <= index[m[3]] /\ index[m[3]] \in Nat /\ index[t] \in Nat
            BY <1>3, <1>4, <3>3
          <6>4. QED
            BY <3>1, <6>1, <6>2, <6>3
        <5>3. QED
          BY <5>1, <5>2
      <4>6. PICK n \in Nat : n = Len(s)
        BY DEF Splits
      <4>7. PICK k2 \in 1 .. n : s[k2] = m[1]
        BY <2>1, <4>6 DEF Splits, ToSet
      <4>8. n \in 1 .. n /\ n \in n .. n
        BY <4>6, <4>7
      <4>9. PICK w : w = s[n]
        OBVIOUS
      <4>10. w \in Open /\ w \notin C /\ w \in aut.states /\ index[w] \in Nat
        BY <1>4, <4>6, <4>8, <4>9 DEF Splits, ToSet
      <4>11. index[m[1]] <= index[w]
        <5>1. k2 < n => index[s[k2]] < index[s[n]]
          BY <4>6, <4>7, <4>8 DEF Splits
        <5>2. k2 = n \/ k2 < n
          BY <4>6, <4>7
        <5>3. QED
          BY <3>1, <4>7, <4>9, <4>10, <5>1, <5>2
      <4>12. w \in useful \cup Marked(C, s)
        <5>1. SUFFICES ASSUME w \notin useful PROVE w \in Marked(C, s)
          OBVIOUS
        <5>2. \A l \in n .. n : s[l] \notin useful
          BY <4>6, <4>9, <5>1
        <5>3. w \in {s[l] : l \in {k3 \in 1 .. Len(s) : \A l2 \in k3 .. Len(s) : s[l2] \notin useful}}
          BY <4>6, <4>8, <4>9, <5>2
        <5>4. QED
          BY <4>1, <5>3 DEF Marked
      <4>13. IsPath(aut, m[1], w)
        BY <2>1, <4>10, <4>11, OpenReaches
      <4>14. IsPath(aut, w, m[1])
        <5>1. PICK i \in b + 1 .. e : index[program_stack[i]] <= index[w]
                                      /\ IsPath(aut, w, program_stack[i])
          BY <1>7, <4>10
        <5>2. index[program_stack[i]] <= index[p] /\ index[p] \in Nat
          <6>1. i < e => index[program_stack[i]] < index[p]
            BY <1>5, <4>3, <4>4 DEF Searching, SearchInv, PathInv
          <6>2. i = e \/ i < e
            BY <1>4, <1>5
          <6>3. QED
            BY <1>6, <4>3, <4>4, <6>1, <6>2
        <5>3. index[program_stack[i]] <= index[m[1]]
          BY <1>6, <3>1, <4>5, <5>2
        <5>4. IsPath(aut, program_stack[i], m[1])
          BY <1>5, <2>1, <5>3 DEF Searching, SearchInv, ReachInv
        <5>5. QED
          BY <1>4, <4>10, <5>1, <5>4, PathsJoin
      <4>15. w \in Strong(aut, m[1])
        BY <4>10, <4>13, <4>14 DEF Strong
      <4>16. QED
        BY <4>10, <4>12, <4>15
    <3>4. QED
      BY <2>1, <3>2, <3>3
  <2>2. ASSUME client' = "useful" PROVE \A m \in aut.delta : PassesOn(m)'
    <3>1. client = "useful" /\ useful' = useful \cup Marked(C, s)
      BY <2>2
    <3>2. ASSUME NEW m \in aut.delta,
                 m[1] \in Open', m[3] \in Closed', m[3] \in useful',
                 m \notin Waiting' \/ m = next'[m[1]]
          PROVE  \E r \in useful' : r \in Open' /\ r \in Strong(aut, m[1])
      <4>1. /\ m[1] \in Open /\ m[1] \notin C /\ m[3] \in Closed \cup C
            /\ m[3] \in useful \cup Marked(C, s)
            /\ m \notin Waiting \/ m = next[m[1]]
        BY <1>1, <3>1, <3>2
      <4>2. PICK r \in useful \cup Marked(C, s) :
              r \in Open /\ r \notin C /\ r \in Strong(aut, m[1])
        BY <2>1, <3>1, <4>1
      <4>3. r \in useful' /\ r \in Open'
        BY <3>1, <4>2
      <4>4. QED
        BY <4>2, <4>3
    <3>3. QED
      BY <3>2 DEF PassesOn
  <2>3. QED
    BY <2>2
<1>16. QED
  BY <1>5, <1>8, <1>9, <1>10, <1>13, <1>14, <1>15 DEF SearchInv


LEMMA CloseComponentKeeps ==
  ASSUME NEW b, NEW d, Searching(b, d), CloseComponent
  PROVE  TarjanInv'
<1> USE DEF CloseComponent
<1>1. UNCHANGED <<aut, order, client, index_cnt, initialized, index, lowlink, moves_left>>
      /\ phase = "closing"
  BY DEF input
<1>2. PICK t : t = program_stack[d]
  OBVIOUS
<1>3. t = act_state /\ lowlink[t] = index[t]
  BY <1>1, <1>2, AtTheEnd
<1>4. PICK C : C = Component
  OBVIOUS
<1>5. PICK s : s = Below
  OBVIOUS
<1>6. Splits(t, C, s)
  BY <1>1, <1>3, <1>4, <1>5, RootPlace
<1>7. /\ t \in C /\ C \subseteq Open /\ C \subseteq aut.states
      /\ EdgeClosed(aut, Closed \cup C)
      /\ \A q \in C : C = Strong(aut, q)
  BY <1>1, <1>2, <1>3, <1>6, ComponentIsStrong
<1>8. /\ tarjan_stack' = s /\ sccs' = Append(sccs, C)
      /\ on_stack' = [q \in aut.states |-> on_stack[q] /\ q \notin C]
      /\ client = "useful" => useful' = useful \cup Marked(C, s)
      /\ client # "useful" => useful' = useful
      /\ \/ answer' = FALSE /\ phase' = "done" /\ program_stack' = program_stack
         \/ answer' = answer /\ phase' = "main" /\ program_stack' = Front(program_stack)
  BY <1>4, <1>5
<1>9. Seen' = Seen /\ Open' = Open \ C /\ Closed' = Closed \cup C /\ Open \subseteq Seen
  <2>1. Seen' = Seen /\ Open \subseteq Seen
    BY <1>1 DEF Seen, Searching, Indexed
  <2>2. Open' = Open \ C
    BY <1>1, <1>8 DEF Open
  <2>3. QED
    BY <1>7, <2>1, <2>2 DEF Closed
<1>10. GivenInv' /\ sccs' \in Seq(SUBSET aut.states)
  BY <1>1, <1>7, <1>8, <1>9, CloseGives
<1>11. UsefulInv' /\ useful' \in SUBSET aut.states
  <2>1. CASE client = "useful"
    <3>1. /\ \A q \in useful \cup Marked(C, s) : IsUseful(q) /\ q \in Seen
          /\ \A q \in Closed \cup C : IsUseful(q) => q \in useful \cup Marked(C, s)
          /\ Marked(C, s) \in SUBSET aut.states
      BY <1>1, <1>2, <1>3, <1>6, <2>1, CloseMarks
    <3>2. \A q \in aut.final : q \in Open => q \in useful
      BY <2>1 DEF Searching, UsefulInv
    <3>3. \A q : (IsUseful(q))' <=> IsUseful(q)
      BY <1>1 DEF IsUseful
    <3>4. useful' = useful \cup Marked(C, s) /\ useful \in SUBSET aut.states
      BY <1>8, <2>1 DEF Searching, SearchTypes
    <3>5. /\ \A q \in useful' : (IsUseful(q))' /\ q \in Seen'
          /\ \A q \in Closed' : (IsUseful(q))' => q \in useful'
          /\ \A q \in aut.final : q \in Open' => q \in useful'
      BY <1>9, <3>1, <3>2, <3>3, <3>4
    <3>6. QED
      BY <1>1, <3>1, <3>4, <3>5 DEF UsefulInv
  <2>2. CASE client # "useful"
    BY <1>1, <1>8, <2>2 DEF UsefulInv, Searching, SearchTypes
  <2>3. QED
    BY <2>1, <2>2
<1>12. StackInOrder'
  BY <1>1, <1>6, <1>8, <1>9 DEF Splits, StackInOrder
<1>13. Indexed'
  BY <1>1, <1>9 DEF Searching, Indexed
<1>14. on_stack' \in [aut.states -> BOOLEAN] /\ s \in Seq(aut.states)
  BY <1>6, <1>8 DEF Splits
<1>15. ASSUME program_stack' \in Seq(aut.states) PROVE SearchTypes'
  <2>1. answer' \in BOOLEAN /\ phase' \in {"main", "moves", "closing", "done"}
    BY <1>8 DEF Searching
  <2> HIDE DEF CloseComponent
  <2>2. QED
    BY <1>1, <1>8, <1>10, <1>11, <1>14, <1>15, <2>1 DEF Searching, SearchTypes
<1>16. CASE answer' = FALSE /\ phase' = "done" /\ program_stack' = program_stack
  <2>1. program_stack' \in Seq(aut.states)
    BY <1>1, <1>16 DEF Searching, SearchTypes
  <2>2. QED
    BY <1>10, <1>11, <1>12, <1>13, <1>15, <1>16, <2>1 DEF TarjanInv
<1>17. CASE answer' = answer /\ phase' = "main" /\ program_stack' = Front(program_stack)
  <2>1. PICK e : e = d - 1
    OBVIOUS
  <2>2. e \in Nat /\ SearchInv(b, e)' /\ program_stack' \in Seq(aut.states)
    <3> HIDE DEF CloseComponent
    <3>1. QED
      BY <1>1, <1>2, <1>3, <1>6, <1>8, <1>9, <1>17, <2>1, CloseLeaves
  <2>3. b \in Nat /\ answer' = TRUE
    BY <1>17 DEF Searching
  <2>4. QED
    BY <1>10, <1>11, <1>12, <1>13, <1>15, <1>17, <2>2, <2>3 DEF TarjanInv
<1>18. QED
  BY <1>8, <1>16, <1>17



(***************************************************************************)
(* The invariant, and what it says of the search.                          *)
(***************************************************************************)
LEMMA TarjanStep ==
  ASSUME TarjanInv, TarjanNext
  PROVE  TarjanInv'
<1>1. phase # "done"
  <2>1. Skip \/ Discover \/ Return \/ Finish => phase = "main"
    BY DEF Skip, Discover, Return, Finish
  <2>2. Call \/ PassMove \/ EndOfMoves => phase = "moves"
    BY DEF Call, PassMove, EndOfMoves
  <2>3. LeaveOpen \/ CloseComponent => phase = "closing"
    BY DEF LeaveOpen, CloseComponent
  <2>4. QED
    BY <2>1, <2>2, <2>3 DEF TarjanNext
<1>2. PICK b \in Nat, d \in Nat : SearchInv(b, d)
  BY <1>1 DEF TarjanInv
<1>3. Searching(b, d)
  BY <1>1, <1>2 DEF TarjanInv, Searching
<1>4. CASE Skip
  BY <1>3, <1>4, SkipKeeps
<1>5. CASE Discover
  BY <1>3, <1>5, DiscoverKeeps
<1>6. CASE Return
  BY <1>3, <1>6, ReturnKeeps
<1>7. CASE Call
  BY <1>3, <1>7, CallKeeps
<1>8. CASE PassMove
  BY <1>3, <1>8, PassMoveKeeps
<1>9. CASE EndOfMoves
  BY <1>3, <1>9, EndOfMovesKeeps
<1>10. CASE LeaveOpen
  BY <1>3, <1>10, LeaveOpenKeeps
<1>11. CASE CloseComponent
  BY <1>3, <1>11, CloseComponentKeeps
<1>12. CASE Finish
  BY <1>3, <1>12, FinishKeeps
<1>13. QED
  BY <1>4, <1>5, <1>6, <1>7, <1>8, <1>9, <1>10, <1>11, <1>12 DEF TarjanNext

LEMMA TarjanStutters ==
  ASSUME TarjanInv, UNCHANGED vars
  PROVE  TarjanInv'
<1>1. UNCHANGED <<aut, order, client, program_stack, tarjan_stack, index_cnt, initialized,
                  on_stack, index, lowlink, moves_left, phase, useful, answer, sccs>>
  BY DEF vars
<1>2. /\ Seen' = Seen /\ Open' = Open /\ Closed' = Closed
      /\ Waiting' = Waiting /\ next' = next
  BY <1>1, SameSets, SameMoves, Zenon
<1>3. SearchTypes'
  BY <1>1 DEF TarjanInv, SearchTypes
<1>4. Indexed' /\ StackInOrder' /\ GivenInv' /\ UsefulInv'
  BY <1>1, <1>2, SameIndices, SameStack, SameGiven, SameUseful DEF TarjanInv
<1>5. \A b, d : SearchInv(b, d) => (SearchInv(b, d))'
  <2>1. SUFFICES ASSUME NEW b, NEW d, SearchInv(b, d) PROVE (SearchInv(b, d))'
    OBVIOUS
  <2>2. /\ Called(d)' <=> Called(d)
        /\ Returned(d)' <=> Returned(d)
        /\ OnPath(b, d)' = OnPath(b, d)
        /\ \A q : (Leads(q))' <=> Leads(q)
        /\ \A q, limit : (Covers(q, limit))' <=> Covers(q, limit)
    BY <1>1, <1>2 DEF Called, Returned, OnPath, Leads, Covers
  <2>3. Shape(b, d)' /\ PathInv(b, d)'
    BY <1>1, <1>2, <2>1, <2>2 DEF SearchInv, Shape, PathInv, StandsAtMove
  <2>4. MovesInv(b, d)' /\ ReachInv(b, d)'
    BY <1>1, <1>2, <2>1, <2>2 DEF SearchInv, MovesInv, ReachInv
  <2>5. LowInv(b, d)'
    BY <1>1, <1>2, <2>1, <2>2 DEF SearchInv, LowInv, Leads, Covers
  <2>6. ReturnInv(b, d)'
    BY <1>1, <1>2, <2>1, <2>2 DEF SearchInv, ReturnInv, Returns, Leads, Covers
  <2>7. (client = "useful" => \A m \in aut.delta : PassesOn(m))'
    BY <1>1, <1>2, <2>1 DEF SearchInv, PassesOn
  <2>8. QED
    BY <2>3, <2>4, <2>5, <2>6, <2>7 DEF SearchInv
<1>6. QED
  BY <1>1, <1>2, <1>3, <1>4, <1>5 DEF TarjanInv

(* A state is useful in the sense of the model's reference definition.      *)
LEMMA UsefulIsUseful ==
  ASSUME SearchTypes
  PROVE  \A q : q \in UsefulStates <=> IsUseful(q)
<1>1. /\ IsGraph(aut) /\ aut.initial \in SUBSET aut.states
  BY SearchGraph
<1>2. Reached = ReachIn(aut, aut.initial) /\ Reached \subseteq aut.states
  BY <1>1, ReachedIsReach, ReachHolds DEF Reached, IsGraph
<1>3. \A q \in aut.states :
        q \in Reaching(aut.final) <=> \E r \in aut.final : IsPath(aut, q, r)
  BY ReachedIsReach DEF Reaching, IsPath
<1>4. QED
  BY <1>2, <1>3 DEF UsefulStates, IsUseful

LEMMA TypesHold ==
  ASSUME TarjanInv
  PROVE  TarjanTypeOK
<1>1. /\ program_stack \in Seq(aut.states) /\ SearchTypes /\ Indexed /\ StackInOrder
  BY DEF TarjanInv, SearchTypes
<1>2. ToSet(program_stack) \subseteq aut.states
  BY <1>1 DEF ToSet
<1>3. \A q \in aut.states : on_stack[q] =>
        initialized[q] /\ 0 <= lowlink[q] /\ lowlink[q] <= index[q] /\ index[q] < index_cnt
  <2>1. SUFFICES ASSUME NEW q \in aut.states, on_stack[q]
                 PROVE  initialized[q] /\ 0 <= lowlink[q] /\ lowlink[q] <= index[q]
                        /\ index[q] < index_cnt
    OBVIOUS
  <2>2. q \in Open /\ q \in Seen
    BY <1>1, <2>1 DEF Open, Indexed
  <2>3. lowlink[q] \in Nat
    BY <1>1 DEF SearchTypes
  <2>4. QED
    BY <1>1, <2>2, <2>3 DEF Indexed, Seen
<1>4. ToSet(tarjan_stack) = {q \in aut.states : on_stack[q]}
  BY <1>1 DEF StackInOrder, Open
<1>5. QED
  BY <1>1, <1>2, <1>3, <1>4 DEF TarjanTypeOK, SearchTypes, StackInOrder

LEMMA ComponentsHold ==
  ASSUME TarjanInv
  PROVE  ComponentsInOrder
<1>1. /\ SearchTypes /\ GivenInv /\ IsGraph(aut)
      /\ sccs \in Seq(SUBSET aut.states) /\ Len(sccs) \in Nat
      /\ \A n \in 1 .. Len(sccs) : sccs[n] \in SUBSET aut.states
  BY SearchGraph DEF TarjanInv, SearchTypes
<1>2. ASSUME NEW n \in 1 .. Len(sccs)
      PROVE  /\ \A q \in sccs[n] : sccs[n] = Strongly(q)
             /\ ReachedFrom(sccs[n]) = UNION {sccs[k] : k \in
                  {l \in 1 .. n : sccs[l] \cap ReachedFrom(sccs[n]) # {}}}
             /\ \A k \in 1 .. n - 1 : sccs[k] \cap sccs[n] = {}
  <2>1. /\ \A q \in sccs[n] : sccs[n] = Strong(aut, q)
        /\ EdgeClosed(aut, GivenUpTo(n))
        /\ \A k \in 1 .. n - 1 : sccs[k] \cap sccs[n] = {}
    BY <1>1 DEF GivenInv
  <2>2. \A q \in sccs[n] : sccs[n] = Strongly(q)
    BY <1>1, <2>1, StronglyIsStrong
  <2>3. PICK R : R = ReachedFrom(sccs[n])
    OBVIOUS
  <2>4. R = ReachIn(aut, sccs[n])
    BY <2>3, ReachedIsReach
  <2>5. /\ R \in SUBSET aut.states /\ sccs[n] \subseteq R /\ EdgeClosed(aut, R)
    BY <1>1, <2>4, ReachHolds DEF IsGraph, EdgeClosed
  <2>6. n \in 1 .. n /\ \A l \in 1 .. n : l \in 1 .. Len(sccs)
    BY <1>1
  <2>7. R \subseteq GivenUpTo(n)
    <3>1. sccs[n] \subseteq GivenUpTo(n)
      BY <2>6 DEF GivenUpTo
    <3>2. QED
      BY <1>1, <2>1, <2>4, <3>1, ReachIsLeast DEF IsGraph, EdgeClosed
  <2>8. ASSUME NEW l \in 1 .. n, sccs[l] \cap R # {} PROVE sccs[l] \subseteq R
    <3>1. PICK q \in sccs[l] : q \in R
      BY <2>8
    <3>2. ASSUME NEW r \in sccs[l] PROVE r \in R
      <4>1. sccs[l] = Strong(aut, q)
        BY <1>1, <2>6 DEF GivenInv
      <4>2. IsPath(aut, q, r) /\ q \in aut.states
        BY <2>5, <3>1, <3>2, <4>1 DEF Strong
      <4>3. QED
        BY <1>1, <2>5, <3>1, <4>2, PathStaysIn
    <3>3. QED
      BY <3>2
  <2>9. R = UNION {sccs[k] : k \in {l \in 1 .. n : sccs[l] \cap R # {}}}
    <3>1. ASSUME NEW q \in R PROVE \E l \in 1 .. n : q \in sccs[l] /\ sccs[l] \cap R # {}
      BY <2>7 DEF GivenUpTo
    <3>2. QED
      BY <2>8, <3>1
  <2>10. QED
    BY <2>1, <2>2, <2>3, <2>9
<1>3. phase = "done" /\ answer => UNION ToSet(sccs) = Reached
  <2>1. UNION ToSet(sccs) = GivenUpTo(Len(sccs))
    BY DEF ToSet, GivenUpTo
  <2>2. GivenUpTo(Len(sccs)) = Closed
    BY <1>1 DEF GivenInv
  <2>3. Reached = ReachIn(aut, aut.initial)
    BY ReachedIsReach DEF Reached
  <2>4. QED
    BY <2>1, <2>2, <2>3 DEF TarjanInv
<1>4. QED
  BY <1>2, <1>3 DEF ComponentsInOrder

(* Only the other clients end the search early.                             *)
EndsRight == client = "useful" => answer = TRUE

LEMMA UsefulHolds ==
  ASSUME TarjanInv, EndsRight
  PROVE  UsefulSoFar
<1>1. SUFFICES ASSUME client = "useful"
               PROVE  /\ useful \subseteq UsefulStates
                      /\ \A n \in 1 .. Len(sccs) : sccs[n] \cap UsefulStates \subseteq useful
                      /\ phase = "done" => useful = UsefulStates
  BY DEF UsefulSoFar
<1>2. \A q : q \in UsefulStates <=> IsUseful(q)
  BY UsefulIsUseful DEF TarjanInv
<1>3. /\ \A q \in useful : IsUseful(q) /\ q \in Seen
      /\ \A q \in Closed : IsUseful(q) => q \in useful
  BY <1>1 DEF TarjanInv, UsefulInv
<1>4. useful \subseteq UsefulStates
  BY <1>2, <1>3
<1>5. \A n \in 1 .. Len(sccs) : sccs[n] \subseteq Closed
  BY DEF TarjanInv, GivenInv, GivenUpTo
<1>6. phase = "done" => useful = UsefulStates
  <2>1. SUFFICES ASSUME phase = "done" PROVE UsefulStates \subseteq useful
    BY <1>4
  <2>2. Closed = ReachIn(aut, aut.initial)
    BY <1>1, <2>1 DEF TarjanInv, EndsRight
  <2>3. QED
    BY <1>2, <1>3, <2>2 DEF IsUseful
<1>7. QED
  BY <1>2, <1>3, <1>4, <1>5, <1>6

LEMMA EndsRightKept ==
  ASSUME EndsRight, TarjanNext
  PROVE  EndsRight'
<1>1. client' = client
  BY DEF TarjanNext, Skip, Discover, Return, Call, PassMove, EndOfMoves, LeaveOpen,
         CloseComponent, Finish, input
<1>2. client = "useful" => answer' = answer
  BY DEF TarjanNext, Skip, Discover, Return, Call, PassMove, EndOfMoves, LeaveOpen,
         CloseComponent, Finish, Refutes
<1>3. QED
  BY <1>1, <1>2 DEF EndsRight

(* The search of TarjanScc takes steps or none in every step of Trim.       *)
LEMMA TrimSteps ==
  ASSUME [Next]_allvars
  PROVE  TarjanNext \/ UNCHANGED vars
BY DEF Next, allvars, Search, TakeUseful, NumberStates, DropSource, KeepSource,
       CutDelta, RenameSets

LEMMA SearchInvariant == Spec => [](TarjanInv /\ EndsRight)
<1>1. Init => TarjanInv /\ EndsRight
  BY SearchStarts DEF Init, TarjanInit, EndsRight
<1>2. TarjanInv /\ EndsRight /\ [Next]_allvars => (TarjanInv /\ EndsRight)'
  <2>1. SUFFICES ASSUME TarjanInv, EndsRight, [Next]_allvars
                 PROVE  (TarjanInv /\ EndsRight)'
    OBVIOUS
  <2>2. CASE TarjanNext
    BY <2>1, <2>2, TarjanStep, EndsRightKept
  <2>3. CASE UNCHANGED vars
    <3>1. EndsRight'
      BY <2>1, <2>3 DEF EndsRight, vars
    <3>2. QED
      BY <2>1, <2>3, <3>1, TarjanStutters
  <2>4. QED
    BY <2>1, <2>2, <2>3, TrimSteps
<1>3. QED
  BY <1>1, <1>2, PTL DEF Spec

(* THEOREM: for every automaton, every order of its initial states and every *)
(* caller, the callbacks of tarjan_scc_discover are given the strongly      *)
(* connected components, each once and after those it leads to; at the end  *)
(* get_useful_states holds exactly the useful states, and until then none   *)
(* that is not.                                                             *)
THEOREM SearchIsAlwaysRight == Spec => []SearchIsRight
<1>1. TarjanInv /\ EndsRight => SearchIsRight
  BY TypesHold, ComponentsHold, UsefulHolds DEF SearchIsRight
<1>2. QED
  BY <1>1, SearchInvariant, PTL

(***************************************************************************)
(* What Trim has done of its work at each stage.                           *)
(***************************************************************************)
PostsOf(q) == {<<m[2], m[3]>> : m \in MovesFrom(q)}
KeptOf(q) == {<<m[2], NumberOf(m[3])>> : m \in {n \in MovesFrom(q) : n[3] \in useful}}

(* What Delta::defragment has moved down, and what it has still to read.    *)
MovedDown(limit) == \A q \in useful : q < limit => state_posts[NumberOf(q)] = KeptOf(q)
ToRead(limit) == \A q \in aut.states : limit <= q => state_posts[q] = PostsOf(q)

Untouched ==
  /\ state_posts = [q \in aut.states |-> PostsOf(q)]
  /\ source_orig = 0 /\ source_new = 0
InDelta ==
  /\ source_orig \in 0 .. num_of_states /\ source_new = NumberOf(source_orig)
  /\ DOMAIN state_posts = aut.states
  /\ MovedDown(source_orig) /\ ToRead(source_orig)
DeltaDone ==
  /\ DOMAIN state_posts = 0 .. Cardinality(useful) - 1
  /\ MovedDown(num_of_states)
SetsDone ==
  /\ initial = {NumberOf(q) : q \in aut.initial \cap useful}
  /\ final = {NumberOf(q) : q \in aut.final \cap useful}

TrimInv ==
  /\ stage \in {"search", "renaming", "delta", "sets", "trimmed"}
  /\ stage \in {"search", "renaming"} => Untouched
  /\ stage # "trimmed" => initial = aut.initial /\ final = aut.final
  /\ stage # "search" => useful = UsefulStates
  /\ stage \in {"delta", "sets"} => \A q \in useful : renaming[q] = NumberOf(q)
  /\ stage = "delta" => InDelta
  /\ stage \in {"sets", "trimmed"} => DeltaDone
  /\ stage = "trimmed" => SetsDone

LEMMA NumberOfCounts == \A q : NumberOf(q) = CountBelow(useful, q)
BY DEF NumberOf, CountBelow

LEMMA TrimStates ==
  ASSUME SearchTypes
  PROVE  /\ num_of_states \in Nat /\ aut.states = 0 .. num_of_states - 1
         /\ useful \in SUBSET aut.states /\ useful \in SUBSET Nat
         /\ NumberOf(num_of_states) = Cardinality(useful)
<1>1. Numbered(aut) /\ useful \in SUBSET aut.states
  BY InputsAssumption DEF SearchTypes
<1>2. num_of_states \in Nat /\ aut.states = 0 .. num_of_states - 1
  <2>1. CASE aut.states = {}
    <3>1. num_of_states = 0
      BY <2>1, FS_EmptySet DEF num_of_states
    <3>2. QED
      BY <2>1, <3>1
  <2>2. CASE aut.states # {}
    <3>1. PICK last \in aut.states : aut.states = 0 .. last
      BY <1>1, <2>2 DEF Numbered
    <3>2. last \in Nat
      BY <1>1, <3>1 DEF Numbered
    <3>3. Cardinality(0 .. last) = IF 0 > last THEN 0 ELSE last - 0 + 1
      BY <3>2, FS_Interval
    <3>4. num_of_states = last + 1
      BY <3>1, <3>2, <3>3 DEF num_of_states
    <3>5. QED
      BY <3>1, <3>2, <3>4
  <2>3. QED
    BY <2>1, <2>2
<1>3. PICK N \in Nat : N = num_of_states
  BY <1>2
<1>4. \A q \in useful : q \in Nat /\ q < N
  BY <1>1, <1>2, <1>3
<1>5. {r \in useful : r < N} = useful
  BY <1>4
<1>6. QED
  BY <1>1, <1>2, <1>3, <1>4, <1>5 DEF NumberOf

(* From TakeUseful on nothing changes what the numbers are computed from.   *)
LEMMA SameNumbers ==
  ASSUME UNCHANGED vars
  PROVE  /\ \A q : (NumberOf(q))' = NumberOf(q) /\ (PostsOf(q))' = PostsOf(q)
                   /\ (KeptOf(q))' = KeptOf(q)
         /\ UsefulStates' = UsefulStates /\ num_of_states' = num_of_states
         /\ UNCHANGED <<aut, useful>>
<1>1. UNCHANGED <<aut, useful>>
  BY DEF vars
<1>2. \A q : (NumberOf(q))' = NumberOf(q)
  BY <1>1 DEF NumberOf
<1>3. \A q : (MovesFrom(q))' = MovesFrom(q)
  BY <1>1 DEF MovesFrom
<1>4. \A q : (PostsOf(q))' = PostsOf(q)
  BY <1>3 DEF PostsOf
<1>5. \A q : (KeptOf(q))' = KeptOf(q)
  BY <1>1 DEF KeptOf, NumberOf, MovesFrom
<1>6. UsefulStates' = UsefulStates
  BY <1>1 DEF UsefulStates, Reached, Reaching, ReachedFrom
<1>7. num_of_states' = num_of_states
  BY <1>1 DEF num_of_states
<1>8. QED
  BY <1>1, <1>2, <1>4, <1>5, <1>6, <1>7

LEMMA SearchKeepsTrim ==
  ASSUME TrimInv, Search
  PROVE  TrimInv'
<1>1. stage = "search" /\ UNCHANGED trimvars /\ TarjanNext
  BY DEF Search
<1>2. UNCHANGED <<stage, renaming, state_posts, source_orig, source_new, initial, final>>
  BY <1>1 DEF trimvars
<1>3. aut' = aut
  BY <1>1 DEF TarjanNext, Skip, Discover, Return, Call, PassMove, EndOfMoves, LeaveOpen,
              CloseComponent, Finish, input
<1>4. Untouched'
  <2>1. Untouched
    BY <1>1 DEF TrimInv
  <2>2. \A q : (PostsOf(q))' = PostsOf(q)
    BY <1>3 DEF PostsOf, MovesFrom
  <2>3. QED
    BY <1>2, <1>3, <2>1, <2>2 DEF Untouched
<1>5. QED
  BY <1>1, <1>2, <1>3, <1>4 DEF TrimInv

LEMMA DropSourceKeeps ==
  ASSUME SearchTypes, TrimInv, DropSource
  PROVE  TrimInv'
<1>1. /\ stage = "delta" /\ stage' = "delta" /\ source_orig' = source_orig + 1
      /\ source_orig < num_of_states /\ source_orig \notin useful
      /\ UNCHANGED <<vars, renaming, state_posts, source_new, initial, final>>
  BY DEF DropSource
<1>2. /\ \A q : (NumberOf(q))' = NumberOf(q) /\ (PostsOf(q))' = PostsOf(q)
                /\ (KeptOf(q))' = KeptOf(q)
      /\ UsefulStates' = UsefulStates /\ num_of_states' = num_of_states
      /\ UNCHANGED <<aut, useful>>
  BY <1>1, SameNumbers
<1>3. /\ num_of_states \in Nat /\ aut.states = 0 .. num_of_states - 1
      /\ useful \in SUBSET aut.states /\ useful \in SUBSET Nat
  BY TrimStates
<1>4. PICK k \in Nat : k = source_orig
  BY <1>1 DEF TrimInv, InDelta
<1>5. InDelta /\ NumberOf(k + 1) = NumberOf(k)
  BY <1>1, <1>3, <1>4, NumberOfCounts, CountSteps DEF TrimInv
<1>6. \A q \in useful : q < k + 1 => q < k
  BY <1>1, <1>3, <1>4
<1>7. \A q \in aut.states : k + 1 <= q => k <= q
  BY <1>3
<1>8. InDelta'
  <2>1. source_orig' \in 0 .. num_of_states
    BY <1>1, <1>3, <1>4
  <2>2. MovedDown(k + 1) /\ ToRead(k + 1)
    BY <1>4, <1>5, <1>6, <1>7 DEF InDelta, MovedDown, ToRead
  <2>3. (MovedDown(k + 1))' /\ (ToRead(k + 1))'
    BY <1>1, <1>2, <2>2 DEF MovedDown, ToRead
  <2>4. source_new' = NumberOf(k + 1)
    BY <1>1, <1>4, <1>5 DEF InDelta
  <2>5. QED
    BY <1>1, <1>2, <1>4, <1>5, <2>1, <2>3, <2>4 DEF InDelta
<1>9. QED
  BY <1>1, <1>2, <1>8 DEF TrimInv

LEMMA KeepSourceKeeps ==
  ASSUME SearchTypes, TrimInv, KeepSource
  PROVE  TrimInv'
<1>1. PICK k, n, post : k = source_orig /\ n = source_new /\ post = Kept(state_posts[source_orig])
  OBVIOUS
<1>2. /\ stage = "delta" /\ stage' = "delta" /\ source_orig' = k + 1 /\ source_new' = n + 1
      /\ k < num_of_states /\ k \in useful
      /\ state_posts' = [state_posts EXCEPT ![k] = {}, ![n] = post]
      /\ UNCHANGED <<vars, renaming, initial, final>>
  BY <1>1 DEF KeepSource
<1>3. /\ \A q : (NumberOf(q))' = NumberOf(q) /\ (PostsOf(q))' = PostsOf(q)
                /\ (KeptOf(q))' = KeptOf(q)
      /\ UsefulStates' = UsefulStates /\ num_of_states' = num_of_states
      /\ UNCHANGED <<aut, useful>>
  BY <1>2, SameNumbers
<1>4. /\ num_of_states \in Nat /\ aut.states = 0 .. num_of_states - 1
      /\ useful \in SUBSET aut.states /\ useful \in SUBSET Nat
      /\ \A m \in aut.delta : m[1] \in aut.states /\ m[3] \in aut.states
  BY TrimStates, WaitingMoves
<1>5. /\ InDelta /\ \A q \in useful : renaming[q] = NumberOf(q)
  BY <1>2 DEF TrimInv
<1>6. k \in Nat /\ k \in aut.states /\ n = NumberOf(k) /\ DOMAIN state_posts = aut.states
      /\ MovedDown(k) /\ ToRead(k)
  BY <1>1, <1>2, <1>4, <1>5 DEF InDelta
<1>7. NumberOf(k + 1) = n + 1 /\ n \in Nat /\ n <= k
  BY <1>2, <1>4, <1>6, NumberOfCounts, CountSteps, CountIsNumber
<1>8. \A q \in useful : q < k => NumberOf(q) < n /\ NumberOf(q) \in Nat
  <2>1. ASSUME NEW q \in useful, q < k PROVE NumberOf(q) < n /\ NumberOf(q) \in Nat
    <3>1. q \in Nat
      BY <1>4
    <3>2. CountBelow(useful, q) < CountBelow(useful, k)
      BY <1>4, <1>6, <2>1, CountGrows
    <3>3. CountBelow(useful, q) \in Nat
      BY <1>4, <3>1, CountIsNumber
    <3>4. QED
      BY <1>6, <3>2, <3>3, NumberOfCounts
  <2>2. QED
    BY <2>1
<1>9. post = KeptOf(k)
  <2>1. state_posts[k] = PostsOf(k)
    BY <1>6 DEF ToRead
  <2>2. post = {<<p[1], renaming[p[2]]>> : p \in {r \in PostsOf(k) : r[2] \in useful}}
    BY <1>1, <2>1 DEF Kept
  <2>3. ASSUME NEW p \in PostsOf(k), p[2] \in useful
        PROVE  <<p[1], renaming[p[2]]>> \in KeptOf(k)
    <3>1. PICK m \in MovesFrom(k) : p = <<m[2], m[3]>>
      BY DEF PostsOf
    <3>2. renaming[p[2]] = NumberOf(m[3]) /\ m[3] \in useful /\ p[1] = m[2]
      BY <1>5, <2>3, <3>1
    <3>3. QED
      BY <3>2 DEF KeptOf
  <2>4. ASSUME NEW m \in MovesFrom(k), m[3] \in useful
        PROVE  <<m[2], NumberOf(m[3])>> \in post
    <3>1. PICK p : p = <<m[2], m[3]>>
      OBVIOUS
    <3>2. p \in PostsOf(k) /\ p[2] \in useful /\ p[1] = m[2] /\ p[2] = m[3]
      BY <2>4, <3>1 DEF PostsOf
    <3>3. <<p[1], renaming[p[2]]>> \in post
      BY <2>2, <3>2
    <3>4. QED
      BY <1>5, <2>4, <3>2, <3>3
  <2>5. QED
    BY <2>2, <2>3, <2>4 DEF KeptOf
<1>10. n \in aut.states
  BY <1>2, <1>4, <1>6, <1>7
<1>11. /\ DOMAIN state_posts' = aut.states /\ state_posts'[n] = post
       /\ \A q \in aut.states : q # k /\ q # n => state_posts'[q] = state_posts[q]
  BY <1>2, <1>6, <1>10
<1>12. ASSUME NEW q \in useful, q < k + 1 PROVE state_posts'[NumberOf(q)] = KeptOf(q)
  <2>1. CASE q = k
    BY <1>6, <1>9, <1>11, <2>1
  <2>2. CASE q # k
    <3>1. q \in Nat /\ q < k
      BY <1>4, <1>6, <1>12, <2>2
    <3>2. NumberOf(q) < n /\ NumberOf(q) \in Nat
      BY <1>8, <3>1
    <3>3. NumberOf(q) \in aut.states /\ NumberOf(q) # n /\ NumberOf(q) # k
      BY <1>2, <1>4, <1>6, <1>7, <3>2
    <3>4. state_posts[NumberOf(q)] = KeptOf(q)
      BY <1>6, <3>1 DEF MovedDown
    <3>5. QED
      BY <1>11, <3>3, <3>4
  <2>3. QED
    BY <2>1, <2>2
<1>13. ASSUME NEW q \in aut.states, k + 1 <= q PROVE state_posts'[q] = PostsOf(q)
  <2>1. q # k /\ q # n /\ k <= q
    BY <1>4, <1>6, <1>7, <1>13
  <2>2. QED
    BY <1>6, <1>11, <2>1 DEF ToRead
<1>14. InDelta'
  <2>1. source_orig' \in 0 .. num_of_states
    BY <1>2, <1>4, <1>6
  <2>2. (MovedDown(k + 1))' /\ (ToRead(k + 1))'
    BY <1>3, <1>12, <1>13 DEF MovedDown, ToRead
  <2>3. QED
    BY <1>2, <1>3, <1>7, <1>11, <2>1, <2>2 DEF InDelta
<1>15. QED
  BY <1>2, <1>3, <1>5, <1>14 DEF TrimInv


LEMMA CutDeltaKeeps ==
  ASSUME SearchTypes, TrimInv, CutDelta
  PROVE  TrimInv'
<1>1. PICK n : n = source_new
  OBVIOUS
<1>2. /\ stage = "delta" /\ stage' = "sets" /\ source_orig = num_of_states
      /\ state_posts' = [q \in 0 .. n - 1 |-> state_posts[q]]
      /\ UNCHANGED <<vars, renaming, source_orig, source_new, initial, final>>
  BY <1>1 DEF CutDelta
<1>3. /\ \A q : (NumberOf(q))' = NumberOf(q) /\ (KeptOf(q))' = KeptOf(q)
      /\ UsefulStates' = UsefulStates /\ num_of_states' = num_of_states
      /\ UNCHANGED <<aut, useful>>
  BY <1>2, SameNumbers
<1>4. /\ num_of_states \in Nat /\ aut.states = 0 .. num_of_states - 1
      /\ useful \in SUBSET aut.states /\ useful \in SUBSET Nat
      /\ NumberOf(num_of_states) = Cardinality(useful)
  BY TrimStates
<1>5. n = Cardinality(useful) /\ MovedDown(num_of_states) /\ n = CountBelow(useful, num_of_states)
  BY <1>1, <1>2, <1>4, NumberOfCounts DEF TrimInv, InDelta
<1>6. ASSUME NEW q \in useful PROVE state_posts'[NumberOf(q)] = KeptOf(q)
  <2>1. q \in Nat /\ q < num_of_states
    BY <1>4
  <2>2. CountBelow(useful, q) < n /\ CountBelow(useful, q) \in Nat
    BY <1>4, <1>5, <2>1, CountGrows, CountIsNumber
  <2>3. n \in Nat
    BY <1>4, <1>5, CountIsNumber
  <2>4. NumberOf(q) \in 0 .. n - 1
    BY <2>2, <2>3, NumberOfCounts
  <2>5. state_posts[NumberOf(q)] = KeptOf(q)
    BY <1>5, <2>1 DEF MovedDown
  <2>6. QED
    BY <1>2, <2>4, <2>5
<1>7. DeltaDone'
  BY <1>2, <1>3, <1>5, <1>6 DEF DeltaDone, MovedDown
<1>8. QED
  BY <1>2, <1>3, <1>7 DEF TrimInv

LEMMA RenameSetsKeeps ==
  ASSUME SearchTypes, TrimInv, RenameSets
  PROVE  TrimInv'
<1>1. /\ stage = "sets" /\ stage' = "trimmed"
      /\ initial' = {renaming[q] : q \in initial \cap useful}
      /\ final' = {renaming[q] : q \in final \cap useful}
      /\ UNCHANGED <<vars, renaming, state_posts, source_orig, source_new>>
  BY DEF RenameSets
<1>2. /\ \A q : (NumberOf(q))' = NumberOf(q) /\ (KeptOf(q))' = KeptOf(q)
      /\ UsefulStates' = UsefulStates /\ num_of_states' = num_of_states
      /\ UNCHANGED <<aut, useful>>
  BY <1>1, SameNumbers
<1>3. /\ initial = aut.initial /\ final = aut.final
      /\ \A q \in useful : renaming[q] = NumberOf(q)
  BY <1>1 DEF TrimInv
<1>4. SetsDone'
  BY <1>1, <1>2, <1>3 DEF SetsDone
<1>5. DeltaDone'
  BY <1>1, <1>2 DEF TrimInv, DeltaDone, MovedDown
<1>6. QED
  BY <1>1, <1>2, <1>4, <1>5 DEF TrimInv

LEMMA NumberStatesKeeps ==
  ASSUME SearchTypes, TrimInv, NumberStates
  PROVE  TrimInv'
<1>1. /\ stage = "renaming" /\ stage' = "delta"
      /\ renaming' = [q \in aut.states |-> IF q \in useful THEN NumberOf(q) ELSE 0]
      /\ UNCHANGED <<vars, state_posts, source_orig, source_new, initial, final>>
  BY DEF NumberStates
<1>2. /\ \A q : (NumberOf(q))' = NumberOf(q) /\ (PostsOf(q))' = PostsOf(q)
                /\ (KeptOf(q))' = KeptOf(q)
      /\ UsefulStates' = UsefulStates /\ num_of_states' = num_of_states
      /\ UNCHANGED <<aut, useful>>
  BY <1>1, SameNumbers
<1>3. /\ num_of_states \in Nat /\ aut.states = 0 .. num_of_states - 1
      /\ useful \in SUBSET aut.states /\ useful \in SUBSET Nat
  BY TrimStates
<1>4. \A q \in useful : renaming'[q] = NumberOf(q)
  BY <1>1, <1>3
<1>5. Untouched /\ initial = aut.initial /\ final = aut.final /\ useful = UsefulStates
  BY <1>1 DEF TrimInv
<1>6. InDelta'
  <2>1. NumberOf(0) = 0
    BY <1>3, NumberOfCounts, CountSteps
  <2>2. \A q \in useful : ~(q < 0)
    <3>1. \A q \in useful : q \in Nat
      BY <1>3
    <3>2. QED
      BY <3>1
  <2>3. MovedDown(0) /\ ToRead(0)
    BY <1>5, <2>2 DEF MovedDown, ToRead, Untouched
  <2>4. (MovedDown(0))' /\ (ToRead(0))'
    BY <1>1, <1>2, <2>3 DEF MovedDown, ToRead
  <2>5. source_orig' = 0 /\ source_new' = 0 /\ DOMAIN state_posts' = aut.states
    BY <1>1, <1>5 DEF Untouched
  <2>6. 0 \in 0 .. num_of_states
    BY <1>3
  <2>7. QED
    BY <1>2, <2>1, <2>4, <2>5, <2>6 DEF InDelta
<1>7. QED
  BY <1>1, <1>2, <1>4, <1>5, <1>6 DEF TrimInv

LEMMA TrimStep ==
  ASSUME TarjanInv, EndsRight, TrimInv, [Next]_allvars
  PROVE  TrimInv'
<1>1. SearchTypes
  BY DEF TarjanInv
<1>2. CASE Search
  BY <1>2, SearchKeepsTrim
<1>3. CASE TakeUseful
  <2>1. /\ stage = "search" /\ stage' = "renaming" /\ phase = "done" /\ client = "useful"
        /\ UNCHANGED <<vars, renaming, state_posts, source_orig, source_new, initial, final>>
    BY <1>3 DEF TakeUseful
  <2>2. useful = UsefulStates
    BY <2>1, UsefulHolds DEF UsefulSoFar
  <2>3. /\ \A q : (PostsOf(q))' = PostsOf(q)
        /\ UsefulStates' = UsefulStates /\ UNCHANGED <<aut, useful>>
    BY <2>1, SameNumbers
  <2>4. Untouched'
    BY <2>1, <2>3 DEF TrimInv, Untouched
  <2>5. QED
    BY <2>1, <2>2, <2>3, <2>4 DEF TrimInv
<1>4. CASE NumberStates
  BY <1>1, <1>4, NumberStatesKeeps
<1>5. CASE DropSource
  BY <1>1, <1>5, DropSourceKeeps
<1>6. CASE KeepSource
  BY <1>1, <1>6, KeepSourceKeeps
<1>7. CASE CutDelta
  BY <1>1, <1>7, CutDeltaKeeps
<1>8. CASE RenameSets
  BY <1>1, <1>8, RenameSetsKeeps
<1>9. CASE UNCHANGED allvars
  <2>1. UNCHANGED vars /\ UNCHANGED <<stage, renaming, state_posts, source_orig, source_new,
                                      initial, final>>
    BY <1>9 DEF allvars, trimvars
  <2>2. /\ \A q : (NumberOf(q))' = NumberOf(q) /\ (PostsOf(q))' = PostsOf(q)
                  /\ (KeptOf(q))' = KeptOf(q)
        /\ UsefulStates' = UsefulStates /\ num_of_states' = num_of_states
        /\ UNCHANGED <<aut, useful>>
    BY <2>1, SameNumbers
  <2>3. /\ Untouched => Untouched'
        /\ InDelta => InDelta'
        /\ DeltaDone => DeltaDone'
        /\ SetsDone => SetsDone'
    BY <2>1, <2>2 DEF Untouched, InDelta, DeltaDone, SetsDone, MovedDown, ToRead
  <2>4. QED
    BY <2>1, <2>2, <2>3 DEF TrimInv
<1>10. QED
  BY <1>2, <1>3, <1>4, <1>5, <1>6, <1>7, <1>8, <1>9 DEF Next


(***************************************************************************)
(* The result.                                                             *)
(***************************************************************************)
LEMMA InPlace ==
  ASSUME TarjanInv, TrimInv
  PROVE  DefragmentInPlace
<1>1. SUFFICES ASSUME stage = "delta"
               PROVE  /\ source_new = NumberOf(source_orig)
                      /\ \A q \in source_orig .. num_of_states - 1 :
                           state_posts[q] = {<<m[2], m[3]>> : m \in MovesFrom(q)}
                      /\ \A q \in useful : q < source_orig =>
                           state_posts[NumberOf(q)] =
                             {<<m[2], NumberOf(m[3])>> : m \in {n \in MovesFrom(q) : n[3] \in useful}}
  BY DEF DefragmentInPlace
<1>2. InDelta
  BY <1>1 DEF TrimInv
<1>3. num_of_states \in Nat /\ aut.states = 0 .. num_of_states - 1
  BY TrimStates DEF TarjanInv
<1>4. \A q \in source_orig .. num_of_states - 1 : q \in aut.states /\ source_orig <= q
  BY <1>2, <1>3 DEF InDelta
<1>5. QED
  BY <1>2, <1>4 DEF InDelta, MovedDown, ToRead, PostsOf, KeptOf

(* The useful states in their order are numbered 0, 1, ...                  *)
LEMMA NumbersOfUseful ==
  ASSUME SearchTypes, NEW K, K = Cardinality(useful)
  PROVE  /\ K \in Nat
         /\ \A q \in useful : NumberOf(q) \in 0 .. K - 1 /\ NumberOf(q) \in aut.states
         /\ \A q, r \in useful : NumberOf(q) = NumberOf(r) => q = r
         /\ \A k \in 0 .. K - 1 : \E q \in useful : k = NumberOf(q)
<1>1. /\ num_of_states \in Nat /\ aut.states = 0 .. num_of_states - 1
      /\ useful \in SUBSET aut.states /\ useful \in SUBSET Nat
      /\ NumberOf(num_of_states) = K
  BY TrimStates
<1>2. PICK U \in SUBSET Nat : U = useful
  BY <1>1
<1>3. PICK N \in Nat : N = num_of_states
  BY <1>1
<1>4. K = CountBelow(U, N) /\ \A q : NumberOf(q) = CountBelow(U, q)
  BY <1>1, <1>2, <1>3, NumberOfCounts
<1>5. K \in Nat
  BY <1>4, CountIsNumber
<1>6. ASSUME NEW q \in U
      PROVE  CountBelow(U, q) \in 0 .. K - 1 /\ CountBelow(U, q) \in aut.states
  <2>1. q \in Nat /\ q < N
    BY <1>1, <1>2, <1>3
  <2>2. CountBelow(U, q) < K
    BY <1>4, <2>1, CountGrows
  <2>3. CountBelow(U, q) \in Nat /\ CountBelow(U, q) <= q
    BY <2>1, CountIsNumber
  <2>4. QED
    BY <1>1, <1>3, <1>5, <2>1, <2>2, <2>3
<1>7. ASSUME NEW q \in U, NEW r \in U, CountBelow(U, q) = CountBelow(U, r) PROVE q = r
  <2>1. q \in Nat /\ r \in Nat /\ CountBelow(U, q) \in Nat
    BY CountIsNumber
  <2>2. ~(q < r)
    BY <1>7, <2>1, CountGrows
  <2>3. ~(r < q)
    BY <1>7, <2>1, CountGrows
  <2>4. QED
    BY <2>1, <2>2, <2>3
<1>8. \A k \in 0 .. K - 1 : \E q \in U : k = CountBelow(U, q)
  BY <1>4, CountReaches
<1>9. QED
  BY <1>2, <1>4, <1>5, <1>6, <1>7, <1>8

LEMMA TrimmedRenumbers ==
  ASSUME TarjanInv, TrimInv, stage = "trimmed"
  PROVE  /\ IsAutomaton(Trimmed, Symbol)
         /\ Trimmed.states = 0 .. Cardinality(UsefulStates) - 1
         /\ Renumbers(aut, Trimmed, Reached, useful, [q \in useful |-> NumberOf(q)])
<1>1. PICK K : K = Cardinality(useful)
  OBVIOUS
<1>2. /\ SearchTypes /\ IsGraph(aut) /\ IsAutomaton(aut, Symbol)
      /\ aut.initial \in SUBSET aut.states /\ aut.final \in SUBSET aut.states
  BY SearchGraph, InputsAssumption DEF TarjanInv, SearchTypes
<1>3. /\ useful = UsefulStates /\ DeltaDone /\ SetsDone
  BY DEF TrimInv
<1>4. /\ \A q \in useful : NumberOf(q) \in 0 .. K - 1 /\ NumberOf(q) \in aut.states
      /\ \A q, r \in useful : NumberOf(q) = NumberOf(r) => q = r
      /\ \A k \in 0 .. K - 1 : \E q \in useful : k = NumberOf(q)
  BY <1>1, <1>2, NumbersOfUseful
<1>5. \A q \in useful : state_posts[NumberOf(q)] = KeptOf(q)
  <2>1. \A q \in useful : q < num_of_states
    BY <1>2, TrimStates
  <2>2. QED
    BY <1>3, <2>1 DEF DeltaDone, MovedDown
<1>6. PICK B : B = Trimmed
  OBVIOUS
<1>7. /\ B.states = 0 .. K - 1 /\ B.initial = initial /\ B.final = final
      /\ B.delta = {m \in (0 .. K - 1) \X Symbol \X aut.states :
                      <<m[2], m[3]>> \in state_posts[m[1]]}
  BY <1>1, <1>3, <1>6 DEF Trimmed, DeltaDone
<1>8. B.initial \subseteq B.states /\ B.final \subseteq B.states
  BY <1>3, <1>4, <1>7 DEF SetsDone
<1>9. ASSUME NEW m \in B.delta PROVE m \in B.states \X Symbol \X B.states
  <2>1. /\ m \in (0 .. K - 1) \X Symbol \X aut.states
        /\ <<m[2], m[3]>> \in state_posts[m[1]]
    BY <1>7
  <2>2. PICK q \in useful : m[1] = NumberOf(q)
    BY <1>4, <2>1
  <2>3. <<m[2], m[3]>> \in KeptOf(q)
    BY <1>5, <2>1, <2>2
  <2>4. PICK k \in MovesFrom(q) : k[3] \in useful /\ <<m[2], m[3]>> = <<k[2], NumberOf(k[3])>>
    BY <2>3 DEF KeptOf
  <2>5. m[3] \in 0 .. K - 1
    BY <1>4, <2>4
  <2>6. QED
    BY <1>7, <2>1, <2>5
<1>10. IsAutomaton(B, Symbol)
  BY <1>8, <1>9 DEF IsAutomaton
<1>11. ASSUME NEW q \in useful, NEW r \in useful, NEW a
       PROVE  <<q, a, r>> \in aut.delta <=> <<NumberOf(q), a, NumberOf(r)>> \in B.delta
  <2>1. <<q, a, r>> \in aut.delta <=> <<a, NumberOf(r)>> \in KeptOf(q)
    <3>1. ASSUME <<q, a, r>> \in aut.delta PROVE <<a, NumberOf(r)>> \in KeptOf(q)
      <4>1. PICK m : m = <<q, a, r>>
        OBVIOUS
      <4>2. m \in MovesFrom(q) /\ m[3] \in useful /\ m[2] = a /\ m[3] = r
        BY <3>1, <4>1 DEF MovesFrom
      <4>3. QED
        BY <4>2 DEF KeptOf
    <3>2. ASSUME <<a, NumberOf(r)>> \in KeptOf(q) PROVE <<q, a, r>> \in aut.delta
      <4>1. PICK m \in MovesFrom(q) :
              m[3] \in useful /\ <<a, NumberOf(r)>> = <<m[2], NumberOf(m[3])>>
        BY <3>2 DEF KeptOf
      <4>2. m \in aut.delta /\ m[1] = q /\ m[2] = a /\ m[3] = r
        BY <1>4, <4>1 DEF MovesFrom
      <4>3. m = <<m[1], m[2], m[3]>>
        BY <1>2, <4>2 DEF IsAutomaton
      <4>4. QED
        BY <4>2, <4>3
    <3>3. QED
      BY <3>1, <3>2
  <2>2. <<q, a, r>> \in aut.delta => a \in Symbol
    BY <1>2 DEF IsAutomaton
  <2>3. PICK m : m = <<NumberOf(q), a, NumberOf(r)>>
    OBVIOUS
  <2>4. m[1] = NumberOf(q) /\ m[2] = a /\ m[3] = NumberOf(r)
    BY <2>3
  <2>5. m \in B.delta <=> m \in (0 .. K - 1) \X Symbol \X aut.states
                          /\ <<a, NumberOf(r)>> \in KeptOf(q)
    BY <1>5, <1>7, <2>4
  <2>6. m \in (0 .. K - 1) \X Symbol \X aut.states <=> a \in Symbol
    BY <1>4, <2>3
  <2>7. QED
    BY <2>1, <2>2, <2>3, <2>5, <2>6
<1>12. /\ Reached \in SUBSET aut.states /\ aut.initial \subseteq Reached
       /\ EdgeClosed(aut, Reached)
  BY <1>2, ReachedIsReach, ReachHolds DEF Reached, IsGraph, EdgeClosed
<1>13. \A q : q \in useful <=> IsUseful(q)
  BY <1>2, <1>3, UsefulIsUseful
<1>14. Reached = ReachIn(aut, aut.initial)
  BY ReachedIsReach DEF Reached
<1>15. Reached \cap aut.final \subseteq useful
  BY <1>2, <1>13, <1>14, PathInside DEF IsUseful
<1>16. ASSUME NEW m \in aut.delta, m[1] \in Reached, m[3] \in useful PROVE m[1] \in useful
  <2>1. PICK f \in aut.final : IsPath(aut, m[3], f)
    BY <1>13, <1>16 DEF IsUseful
  <2>2. IsPath(aut, m[1], f)
    BY <1>2, <2>1, MoveIsPath, PathsJoin
  <2>3. QED
    BY <1>13, <1>14, <1>16, <2>2 DEF IsUseful
<1>17. PICK num : num = [q \in useful |-> NumberOf(q)]
  OBVIOUS
<1>18. \A q \in useful : num[q] = NumberOf(q)
  BY <1>17
<1>19. useful \subseteq aut.states
  BY <1>2 DEF SearchTypes
<1>20. B.initial = {num[q] : q \in aut.initial \cap useful}
       /\ B.final = {num[q] : q \in aut.final \cap useful}
  BY <1>3, <1>7, <1>18 DEF SetsDone
<1>21. Renumbers(aut, B, Reached, useful, num)
  BY <1>2, <1>4, <1>7, <1>11, <1>12, <1>15, <1>16, <1>18, <1>19, <1>20 DEF Renumbers
<1>22. QED
  BY <1>1, <1>3, <1>6, <1>7, <1>10, <1>17, <1>21

LEMMA LanguageKept ==
  ASSUME TarjanInv, TrimInv
  PROVE  TrimKeepsLanguage
<1>1. SUFFICES ASSUME stage = "trimmed"
               PROVE  /\ IsAutomaton(Trimmed, Symbol)
                      /\ Trimmed.states = 0 .. Cardinality(UsefulStates) - 1
                      /\ \A word \in WordsUpTo(Symbol, num_of_states) :
                           Accepts(Trimmed, word) <=> Accepts(aut, word)
  BY DEF TrimKeepsLanguage
<1>2. /\ IsAutomaton(Trimmed, Symbol)
      /\ Trimmed.states = 0 .. Cardinality(UsefulStates) - 1
      /\ Renumbers(aut, Trimmed, Reached, useful, [q \in useful |-> NumberOf(q)])
  BY <1>1, TrimmedRenumbers
<1>3. ASSUME NEW word \in WordsUpTo(Symbol, num_of_states) PROVE Len(word) \in Nat
  <2>1. PICK k \in Nat : word \in [1 .. k -> Symbol]
    <3>1. num_of_states \in Nat
      BY TrimStates DEF TarjanInv
    <3>2. QED
      BY <3>1 DEF WordsUpTo
  <2>2. QED
    BY <2>1
<1>4. \A word : Len(word) \in Nat => (Accepts(Trimmed, word) <=> Accepts(aut, word))
  BY <1>2, RenumberedAccepts
<1>5. QED
  BY <1>2, <1>3, <1>4

(* THEOREM: for every automaton, trim keeps the useful states, numbers them *)
(* from 0 without a gap and accepts the words that the automaton accepted;  *)
(* and Delta::defragment, which moves the state posts down in the vector it *)
(* reads, never writes over one that is still to be read.                   *)
THEOREM TrimIsAlwaysRight == Spec => []TrimIsRight
<1>1. Init => TrimInv
  <2>1. SUFFICES ASSUME Init PROVE TrimInv
    OBVIOUS
  <2>2. Untouched
    BY <2>1 DEF Init, Untouched, PostsOf
  <2>3. QED
    BY <2>1, <2>2 DEF Init, TrimInv
<1>2. (TarjanInv /\ EndsRight) /\ TrimInv /\ [Next]_allvars => TrimInv'
  BY TrimStep
<1>3. TarjanInv /\ TrimInv => TrimIsRight
  BY InPlace, LanguageKept DEF TrimIsRight
<1>4. QED
  BY <1>1, <1>2, <1>3, SearchInvariant, PTL DEF Spec

(***************************************************************************)
(* The cycles of the reference definition, for a graph G whose moves are   *)
(* those of a strongly connected component.                                *)
(***************************************************************************)
SourcesOf(C) == {m[1] : m \in C}
NextIn(C) == [r \in SourcesOf(C) |-> (CHOOSE m \in C : m[1] = r)[3]]
WalkIn(q, C) ==
  LET walk[n \in 0 .. Cardinality(C)] == IF n = 0 THEN q ELSE NextIn(C)[walk[n - 1]]
  IN {walk[n] : n \in 1 .. Cardinality(C)}

InnerMoves(q) == {m \in aut.delta : m[1] \in Strongly(q) /\ m[3] \in Strongly(q)}

OneEach(C) ==
  \A m \in C : Cardinality({n \in C : n[1] = m[1]}) = 1
               /\ Cardinality({n \in C : n[3] = m[3]}) = 1
               /\ \E n \in C : n[1] = m[3]

IsSimple(q, C) ==
  (\E m \in C : m[1] = q) /\ OneEach(C) /\ WalkIn(q, C) = SourcesOf(C)

LEMMA SimpleAreSimple ==
  ASSUME NEW q, NEW C
  PROVE  C \in SimpleCycles(q) <=> C \in SUBSET InnerMoves(q) /\ IsSimple(q, C)
<1>1. DOMAIN NextIn(C) = SourcesOf(C)
  BY DEF NextIn
<1>2. QED
  BY <1>1 DEF SimpleCycles, InnerMoves, IsSimple, OneEach, WalkIn, NextIn, SourcesOf

(* What the recursive function of the definition is.                        *)
IsWalk(q, C, to, w) ==
  /\ w \in [0 .. Cardinality(C) -> SourcesOf(C)]
  /\ w[0] = q /\ \A n \in 1 .. Cardinality(C) : w[n] = to[w[n - 1]]
  /\ WalkIn(q, C) = {w[n] : n \in 1 .. Cardinality(C)}

LEMMA WalkIsWalk ==
  ASSUME NEW q, NEW C, IsFiniteSet(C), q \in SourcesOf(C),
         NEW to, to = NextIn(C), to \in [SourcesOf(C) -> SourcesOf(C)]
  PROVE  \E w : IsWalk(q, C, to, w)
<1>1. PICK K \in Nat : K = Cardinality(C)
  BY FS_CardinalityType
<1> DEFINE X == SourcesOf(C)
           F == [n \in 1 .. K |-> to]
           Rec(g) == g = [n \in 0 .. K |-> IF n = 0 THEN q ELSE to[g[n - 1]]]
           walk == CHOOSE g : Rec(g)
<1>2. IsStepwise(X, K, F)
  BY DEF IsStepwise
<1>3. PICK f : IsRecursion(X, K, q, F, f)
  <2> HIDE DEF F, X
  <2>1. q \in X
    BY DEF X
  <2>2. QED
    BY <1>2, <2>1, RecursionExists
<1>4. /\ f \in [0 .. K -> X] /\ f[0] = q
      /\ \A n \in 1 .. K : f[n] = to[f[n - 1]]
  BY <1>3 DEF IsRecursion
<1>5. Rec(f)
  <2>1. \A n \in 0 .. K : f[n] = IF n = 0 THEN q ELSE to[f[n - 1]]
    BY <1>4
  <2>2. f = [n \in 0 .. K |-> f[n]]
    BY <1>4
  <2>3. QED
    BY <2>1, <2>2, Zenon
<1>6. Rec(walk)
  <2> HIDE DEF Rec
  <2>1. QED
    BY <1>5
<1>7. WalkIn(q, C) = {walk[n] : n \in 1 .. K}
  BY <1>1 DEF WalkIn
<1>8. walk[0] = q /\ \A n \in 1 .. K : walk[n] = to[walk[n - 1]]
  <2> HIDE DEF walk
  <2>1. \A n \in 0 .. K : walk[n] = IF n = 0 THEN q ELSE to[walk[n - 1]]
    BY <1>6
  <2>2. QED
    BY <2>1
<1>9. \A n \in 0 .. K : walk[n] = f[n]
  <2> HIDE DEF walk
  <2> DEFINE T == {n \in Nat : n <= K => walk[n] = f[n]}
  <2>1. 0 \in T
    BY <1>4, <1>8
  <2>2. ASSUME NEW n \in Nat, n \in T PROVE n + 1 \in T
    <3> SUFFICES ASSUME n + 1 <= K PROVE walk[n + 1] = f[n + 1]
      OBVIOUS
    <3>1. n + 1 \in 1 .. K /\ (n + 1) - 1 = n /\ walk[n] = f[n]
      BY <2>2
    <3>2. QED
      BY <1>4, <1>8, <3>1
  <2>3. Nat \subseteq T
    <3> HIDE DEF T
    <3>1. QED
      BY <2>1, <2>2, SetInduction
  <2>4. QED
    BY <2>3
<1>10. {walk[n] : n \in 1 .. K} = {f[n] : n \in 1 .. K}
  <2> HIDE DEF walk
  <2>1. QED
    BY <1>9
<1>11. QED
  <2> HIDE DEF walk
  <2>1. QED
    BY ZenonT(40), <1>1, <1>4, <1>7, <1>10 DEF IsWalk


LEMMA CardinalityOne ==
  ASSUME NEW m, NEW D, D = {m}
  PROVE  Cardinality(D) = 1
BY FS_Singleton

LEMMA MoreThanOne ==
  ASSUME NEW D, IsFiniteSet(D)
  PROVE  /\ Cardinality(D) \in Nat
         /\ Cardinality(D) > 1 <=> \E x, y \in D : x # y
<1>1. Cardinality(D) \in Nat
  BY FS_CardinalityType
<1>2. ASSUME NEW x \in D, NEW y \in D, x # y PROVE Cardinality(D) > 1
  <2>1. D # {} /\ \A z : D # {z}
    BY <1>2
  <2>2. Cardinality(D) # 0 /\ Cardinality(D) # 1
    BY <2>1, FS_EmptySet, FS_Singleton
  <2>3. QED
    BY <1>1, <2>2
<1>3. ASSUME \A x, y \in D : x = y PROVE ~(Cardinality(D) > 1)
  <2>1. CASE D = {}
    BY <2>1, FS_EmptySet
  <2>2. CASE D # {}
    <3>1. PICK x : D = {x}
      BY <1>3, <2>2
    <3>2. QED
      BY SMTT(30), <3>1, FS_Singleton
  <2>3. QED
    BY <2>1, <2>2
<1>4. QED
  BY <1>1, <1>2, <1>3

(***************************************************************************)
(* A way back: from every state of a strongly connected component, the     *)
(* moves step lead to q, each one closer; from q, step is a given move m0.  *)
(***************************************************************************)
IsWayBack(S, q, m0, d, step) ==
  /\ d \in [S -> Nat] /\ q \in S /\ d[q] = 0
  /\ step[q] = m0
  /\ \A s \in S : step[s] \in aut.delta /\ step[s][1] = s /\ step[s][3] \in S
  /\ \A s \in S : s # q => d[s] = d[step[s][3]] + 1

LEMMA WayBackExists ==
  ASSUME SearchTypes, NEW q \in aut.states, NEW m0 \in aut.delta, m0[1] = q,
         m0[3] \in Strong(aut, q)
  PROVE  \E d, step : IsWayBack(Strong(aut, q), q, m0, d, step)
<1> DEFINE S == Strong(aut, q)
<1>1. /\ IsGraph(aut) /\ IsAutomaton(aut, Nat)
      /\ \E in \in Inputs : aut = in.aut
  BY SearchGraph DEF SearchTypes
<1>2. Numbered(aut)
  BY <1>1, InputsAssumption
<1>3. q \in S /\ S \subseteq aut.states
  BY <1>1, PathInside DEF Strong
<1>4. PICK B : B = [states |-> aut.states, initial |-> {}, final |-> {q},
                    delta |-> {m \in aut.delta : m[1] \in S /\ m[3] \in S}]
  OBVIOUS
<1>5. /\ B.states = aut.states /\ B.final = {q} /\ B.initial = {}
      /\ B.delta = {m \in aut.delta : m[1] \in S /\ m[3] \in S}
  BY <1>4
<1>6. IsAutomaton(B, Nat) /\ Numbered(B)
  BY <1>1, <1>2, <1>3, <1>5 DEF IsAutomaton, Numbered
<1>7. PICK d : AreDistances(B, d)
  BY <1>6, DistancesToFinal
<1>8. PICK far : far = Far(B) /\ far \in Nat /\ far > 0
  BY <1>6, FarBoundsStates
<1>9. /\ d \in [aut.states -> 0 .. far]
      /\ \A s \in aut.states : d[s] = 0 <=> s = q
      /\ \A k \in B.delta : d[k[3]] < far => d[k[1]] < far /\ d[k[1]] <= d[k[3]] + 1
      /\ \A s \in aut.states : 0 < d[s] /\ d[s] < far =>
                           \E k \in B.delta : k[1] = s /\ d[k[3]] < d[s]
  BY <1>5, <1>7, <1>8 DEF AreDistances
<1>10. ASSUME NEW s \in S PROVE d[s] < far
  <2>1. SUFFICES ASSUME ~(d[s] < far) PROVE FALSE
    OBVIOUS
  <2> DEFINE V == {x \in aut.states : IsPath(aut, s, x) /\ (x \in S => ~(d[x] < far))}
  <2>2. s \in aut.states /\ IsPath(aut, q, s) /\ IsPath(aut, s, q)
    BY DEF Strong
  <2>3. s \in V
    BY <1>1, <2>1, <2>2, PathInside
  <2>4. ASSUME NEW m \in aut.delta, m[1] \in V PROVE m[3] \in V
    <3>1. m[1] \in aut.states /\ m[3] \in aut.states /\ IsPath(aut, m[1], m[3])
      BY <1>1, MoveIsPath
    <3>2. IsPath(aut, s, m[3])
      BY <1>1, <2>2, <2>4, PathInside
    <3>3. ASSUME m[3] \in S PROVE ~(d[m[3]] < far)
      <4>1. IsPath(aut, q, m[1])
        BY <1>1, <2>2, <2>4, PathsJoin
      <4>2. IsPath(aut, m[1], q)
        BY <1>1, <3>1, <3>3, PathsJoin DEF Strong
      <4>3. m \in B.delta
        BY <1>5, <3>1, <3>3, <4>1, <4>2 DEF Strong
      <4>4. ~(d[m[1]] < far)
        BY <2>4, <3>1, <4>1, <4>2 DEF Strong
      <4>5. QED
        BY <1>9, <4>3, <4>4
    <3>4. QED
      BY <3>1, <3>2, <3>3
  <2>5. q \in V
    <3> HIDE DEF V
    <3>1. EdgeClosed(aut, V)
      BY <2>4 DEF EdgeClosed
    <3>2. QED
      BY <1>1, <2>2, <2>3, <3>1, PathStaysIn
  <2>6. ~(d[q] < far)
    BY <1>3, <2>5
  <2>7. QED
    BY <1>8, <1>9, <2>6
<1>11. ASSUME NEW s \in S, s # q
       PROVE  \E k \in B.delta : k[1] = s /\ d[s] = d[k[3]] + 1
  <2>1. s \in aut.states /\ 0 < d[s] /\ d[s] < far
    BY <1>3, <1>9, <1>10, <1>11
  <2>2. PICK k \in B.delta : k[1] = s /\ d[k[3]] < d[s]
    BY <1>9, <2>1
  <2>3. k[3] \in aut.states
    BY <1>3, <1>5
  <2>4. d[k[3]] \in Nat /\ d[s] \in Nat
    BY <1>9, <2>1, <2>3
  <2>5. d[s] <= d[k[3]] + 1
    BY <1>8, <1>9, <2>1, <2>2, <2>4
  <2>6. QED
    BY <2>2, <2>4, <2>5
<1>12. PICK step : step = [s \in S |-> IF s = q THEN m0
                             ELSE CHOOSE k \in B.delta : k[1] = s /\ d[s] = d[k[3]] + 1]
  OBVIOUS
<1>13. ASSUME NEW s \in S, s # q
       PROVE  step[s] \in B.delta /\ step[s][1] = s /\ d[s] = d[step[s][3]] + 1
  <2>1. step[s] = CHOOSE k \in B.delta : k[1] = s /\ d[s] = d[k[3]] + 1
    BY <1>12, <1>13
  <2>2. \E k \in B.delta : k[1] = s /\ d[s] = d[k[3]] + 1
    BY <1>11, <1>13
  <2>3. QED
    BY <2>1, <2>2
<1>14. step[q] = m0
  BY <1>3, <1>12
<1>15. PICK e : e = [s \in S |-> d[s]]
  OBVIOUS
<1>16. e \in [S -> Nat] /\ e[q] = 0 /\ \A s \in S : e[s] = d[s]
  BY <1>3, <1>9, <1>15
<1>17. \A s \in S : step[s] \in aut.delta /\ step[s][1] = s /\ step[s][3] \in S
  BY <1>5, <1>13, <1>14
<1>18. QED
  <2> HIDE DEF S
  <2>1. \A s \in S : s # q => e[s] = e[step[s][3]] + 1
    BY <1>13, <1>16, <1>17
  <2>2. IsWayBack(S, q, m0, e, step)
    BY <1>3, <1>14, <1>16, <1>17, <2>1 DEF IsWayBack
  <2>3. QED
    BY <2>2 DEF S


(* The states that step passes on the way from the target of m0 back to q.  *)
IsWalkBack(S, q, m0, d, step, k, w) ==
  /\ w \in [0 .. k -> S] /\ w[0] = m0[3] /\ w[k] = q
  /\ \A n \in 0 .. k : d[w[n]] = k - n
  /\ \A n \in 1 .. k : w[n] = step[w[n - 1]][3]

LEMMA WayBackWalk ==
  ASSUME NEW S, NEW q, NEW m0, NEW d, NEW step, IsWayBack(S, q, m0, d, step)
  PROVE  \E k \in Nat : \E w : IsWalkBack(S, q, m0, d, step, k, w)
<1>1. /\ d \in [S -> Nat] /\ q \in S /\ d[q] = 0 /\ step[q] = m0
      /\ \A s \in S : step[s][3] \in S
      /\ \A s \in S : s # q => d[s] = d[step[s][3]] + 1
  BY DEF IsWayBack
<1>2. PICK start \in S : start = m0[3]
  BY <1>1
<1>3. PICK k \in Nat : k = d[start]
  BY <1>1
<1> DEFINE F == [n \in 1 .. k |-> [s \in S |-> step[s][3]]]
<1>4. IsStepwise(S, k, F)
  BY <1>1 DEF IsStepwise
<1>5. PICK w : IsRecursion(S, k, start, F, w)
  <2> HIDE DEF F
  <2>1. QED
    BY <1>4, RecursionExists
<1>6. w \in [0 .. k -> S] /\ w[0] = start
  BY <1>5 DEF IsRecursion
<1>7. ASSUME NEW n \in 1 .. k PROVE w[n] = step[w[n - 1]][3]
  <2>1. w[n] = F[n][w[n - 1]] /\ w[n - 1] \in S
    <3>1. n - 1 \in 0 .. k
      OBVIOUS
    <3> HIDE DEF F
    <3>2. QED
      BY <1>5, <1>6, <3>1 DEF IsRecursion
  <2>2. QED
    BY <2>1
<1> HIDE DEF F
<1> DEFINE T == {n \in Nat : n <= k => d[w[n]] = k - n}
<1>8. 0 \in T
  BY <1>2, <1>3, <1>6
<1>9. ASSUME NEW n \in Nat, n \in T PROVE n + 1 \in T
  <2> SUFFICES ASSUME n + 1 <= k PROVE d[w[n + 1]] = k - (n + 1)
    OBVIOUS
  <2>1. n \in 0 .. k /\ n + 1 \in 0 .. k /\ n + 1 \in 1 .. k /\ (n + 1) - 1 = n
    OBVIOUS
  <2>2. d[w[n]] = k - n /\ w[n] \in S
    BY <1>6, <1>9, <2>1
  <2>3. w[n] # q
    BY <1>1, <2>2
  <2>4. w[n + 1] = step[w[n]][3]
    BY <1>7, <2>1
  <2>5. d[w[n]] = d[w[n + 1]] + 1 /\ d[w[n + 1]] \in Nat
    BY <1>1, <1>6, <2>1, <2>2, <2>3, <2>4
  <2>6. QED
    BY <2>2, <2>5
<1>10. \A n \in 0 .. k : d[w[n]] = k - n
  <2>1. Nat \subseteq T
    <3> HIDE DEF T
    <3>1. QED
      BY <1>8, <1>9, SetInduction
  <2>2. QED
    BY <2>1
<1>11. w[k] = q
  <2>1. d[w[k]] = 0 /\ w[k] \in S
    BY <1>6, <1>10
  <2>2. ASSUME w[k] # q PROVE FALSE
    <3>1. d[w[k]] = d[step[w[k]][3]] + 1 /\ d[step[w[k]][3]] \in Nat
      BY <1>1, <2>1, <2>2
    <3>2. QED
      BY <2>1, <3>1
  <2>3. QED
    BY <2>2
<1>12. IsWalkBack(S, q, m0, d, step, k, w)
  <2> HIDE DEF T
  <2>1. QED
    BY <1>2, <1>6, <1>7, <1>10, <1>11 DEF IsWalkBack
<1>13. QED
  BY <1>12

(* Every move inside a strongly connected component is a move of a simple   *)
(* cycle through its source.                                                *)
LEMMA MoveOnCycle ==
  ASSUME SearchTypes, IsFiniteSet(aut.delta),
         NEW q \in aut.states, NEW m0 \in aut.delta, m0[1] = q, m0[3] \in Strong(aut, q)
  PROVE  \E C \in SimpleCycles(q) : m0 \in C
<1>24. PICK S : S = Strong(aut, q)
  OBVIOUS
<1>1. PICK d, step : IsWayBack(S, q, m0, d, step)
  BY <1>24, WayBackExists
<1>2. PICK k \in Nat : \E w : IsWalkBack(S, q, m0, d, step, k, w)
  BY <1>1, WayBackWalk
<1>3. PICK w \in [0 .. k -> S] :
           /\ w[0] = m0[3] /\ w[k] = q
           /\ \A n \in 0 .. k : d[w[n]] = k - n
           /\ \A n \in 1 .. k : w[n] = step[w[n - 1]][3]
  BY <1>2 DEF IsWalkBack
<1>4. /\ d \in [S -> Nat] /\ q \in S /\ d[q] = 0 /\ step[q] = m0
      /\ \A s \in S : step[s] \in aut.delta /\ step[s][1] = s /\ step[s][3] \in S
      /\ \A s \in S : s # q => d[s] = d[step[s][3]] + 1
  BY <1>1 DEF IsWayBack
<1>5. S = Strongly(q)
  BY <1>24, StronglyIsStrong
<1> DEFINE X == {w[n] : n \in 0 .. k}
           C == {step[x] : x \in X}
<1>6. X \subseteq S /\ q \in X /\ m0[3] \in X
  <2>1. 0 \in 0 .. k /\ k \in 0 .. k
    OBVIOUS
  <2>2. QED
    BY <1>3, <2>1
<1>7. C \in SUBSET InnerMoves(q)
  BY <1>4, <1>5, <1>6 DEF InnerMoves
<1>8. IsFiniteSet(C)
  <2>1. C \in SUBSET aut.delta
    BY <1>7 DEF InnerMoves
  <2>2. QED
    BY <2>1, FS_Subset
<1>9. SourcesOf(C) = X
  <2>1. \A x \in X : step[x][1] = x
    BY <1>4, <1>6
  <2> HIDE DEF X
  <2>2. QED
    BY <2>1 DEF SourcesOf
<1>10. m0 \in C
  BY <1>4, <1>6
<1>11. ASSUME NEW n \in 0 .. k PROVE step[w[n]][3] = (IF n = k THEN w[0] ELSE w[n + 1])
  <2>1. CASE n = k
    BY <1>3, <1>4, <2>1
  <2>2. CASE n # k
    <3>1. n + 1 \in 1 .. k /\ (n + 1) - 1 = n
      BY <2>2
    <3>2. QED
      BY <1>3, <2>2, <3>1
  <2>3. QED
    BY <2>1, <2>2
<1>12. \A x \in X : step[x][3] \in X
  <2>1. SUFFICES ASSUME NEW n \in 0 .. k PROVE step[w[n]][3] \in X
    OBVIOUS
  <2>2. 0 \in 0 .. k /\ (n # k => n + 1 \in 0 .. k)
    OBVIOUS
  <2>3. QED
    BY <1>11, <2>2
<1>13. \A x, y \in X : step[x][3] = step[y][3] => x = y
  <2>1. SUFFICES ASSUME NEW i \in 0 .. k, NEW j \in 0 .. k, step[w[i]][3] = step[w[j]][3]
                 PROVE  w[i] = w[j]
    OBVIOUS
  <2>2. /\ d[step[w[i]][3]] = (IF i = k THEN k ELSE k - (i + 1))
        /\ d[step[w[j]][3]] = (IF j = k THEN k ELSE k - (j + 1))
    <3>1. 0 \in 0 .. k /\ (i # k => i + 1 \in 0 .. k) /\ (j # k => j + 1 \in 0 .. k)
      OBVIOUS
    <3>2. d[w[0]] = k /\ (i # k => d[w[i + 1]] = k - (i + 1))
          /\ (j # k => d[w[j + 1]] = k - (j + 1))
      BY <1>3, <3>1
    <3>3. QED
      BY <1>11, <3>2
  <2>3. i = j
    BY <2>1, <2>2
  <2>4. QED
    BY <2>3
<1>14. OneEach(C)
  <2> SUFFICES ASSUME NEW m \in C
               PROVE  /\ Cardinality({n \in C : n[1] = m[1]}) = 1
                      /\ Cardinality({n \in C : n[3] = m[3]}) = 1
                      /\ \E n \in C : n[1] = m[3]
    BY DEF OneEach
  <2>1. PICK x \in X : m = step[x]
    OBVIOUS
  <2>2. \A y \in X : step[y][1] = y
    BY <1>4, <1>6
  <2>3. {n \in C : n[1] = m[1]} = {m}
    <3> HIDE DEF X
    <3>1. QED
      BY <2>1, <2>2
  <2>4. {n \in C : n[3] = m[3]} = {m}
    <3> HIDE DEF X
    <3>1. QED
      BY <1>13, <2>1
  <2>5. step[m[3]] \in C /\ step[m[3]][1] = m[3]
    <3> HIDE DEF X
    <3>1. QED
      BY <1>12, <2>1, <2>2
  <2>6. QED
    BY <2>3, <2>4, <2>5, CardinalityOne
<1>15. PICK to : to = NextIn(C)
  OBVIOUS
<1>16. to \in [X -> X] /\ \A x \in X : to[x] = step[x][3]
  <2>1. ASSUME NEW x \in X PROVE (CHOOSE m \in C : m[1] = x) = step[x]
    <3>1. step[x] \in C /\ step[x][1] = x
      BY <1>4, <1>6
    <3>2. \A m \in C : m[1] = x => m = step[x]
      BY <1>4, <1>6
    <3> HIDE DEF C
    <3>3. QED
      BY <3>1, <3>2
  <2> HIDE DEF X, C
  <2>2. to = [x \in X |-> (CHOOSE m \in C : m[1] = x)[3]]
    BY <1>9, <1>15 DEF NextIn
  <2>3. QED
    BY <1>12, <2>1, <2>2
<1>17. PICK v : IsWalk(q, C, to, v)
  <2> HIDE DEF X, C
  <2>1. QED
    BY <1>6, <1>8, <1>9, <1>15, <1>16, WalkIsWalk
<1>25. /\ v \in [0 .. Cardinality(C) -> X]
       /\ v[0] = q /\ \A n \in 1 .. Cardinality(C) : v[n] = to[v[n - 1]]
       /\ WalkIn(q, C) = {v[n] : n \in 1 .. Cardinality(C)}
  <2> HIDE DEF X, C
  <2>1. QED
    BY <1>9, <1>17 DEF IsWalk
<1>18. PICK K \in Nat : K = Cardinality(C)
  BY <1>8, FS_CardinalityType
<1>19. k + 1 <= K
  <2> DEFINE g == [n \in 0 .. k |-> step[w[n]]]
  <2>1. \A i, j \in 0 .. k : step[w[i]] = step[w[j]] => i = j
    <3>1. SUFFICES ASSUME NEW i \in 0 .. k, NEW j \in 0 .. k, step[w[i]] = step[w[j]]
                   PROVE  i = j
      OBVIOUS
    <3>2. w[i] \in S /\ w[j] \in S
      BY <1>3
    <3>3. w[i] = w[j]
      BY <1>4, <3>1, <3>2
    <3>4. k - i = k - j
      BY <1>3, <3>3
    <3>5. QED
      BY <3>4
  <2>2. \A n \in 0 .. k : step[w[n]] \in C
    OBVIOUS
  <2>3. g \in Injection(0 .. k, C)
    <3> HIDE DEF C, X
    <3>1. QED
      BY <2>1, <2>2 DEF Injection, IsInjective
  <2>4. Cardinality(0 .. k) <= Cardinality(C)
    <3> HIDE DEF g, C, X
    <3>1. QED
      BY <1>8, <2>3, FS_Injection
  <2>5. Cardinality(0 .. k) = k + 1
    <3>1. 0 \in Int /\ k \in Int /\ ~(0 > k)
      OBVIOUS
    <3>2. QED
      BY <3>1, FS_Interval
  <2>6. QED
    BY <1>18, <2>4, <2>5
<1>20. \A n \in 0 .. k : v[n + 1] = w[n]
  <2> HIDE DEF X, C
  <2> DEFINE T == {n \in Nat : n <= k => v[n + 1] = w[n]}
  <2>1. 0 \in T
    <3>1. 1 \in 1 .. K /\ 1 - 1 = 0
      BY <1>19
    <3>2. v[1] = to[q]
      BY <1>25, <1>18, <3>1
    <3>3. QED
      BY <1>3, <1>4, <1>6, <1>16, <3>2
  <2>2. ASSUME NEW n \in Nat, n \in T PROVE n + 1 \in T
    <3> SUFFICES ASSUME n + 1 <= k PROVE v[(n + 1) + 1] = w[n + 1]
      OBVIOUS
    <3>1. (n + 1) + 1 \in 1 .. K /\ ((n + 1) + 1) - 1 = n + 1 /\ n \in 0 .. k /\ n # k
      BY <1>19
    <3>2. v[(n + 1) + 1] = to[v[n + 1]] /\ v[n + 1] = w[n]
      BY <1>25, <1>18, <2>2, <3>1
    <3>3. w[n] \in X
      BY <3>1 DEF X
    <3>4. QED
      BY <1>11, <1>16, <3>1, <3>2, <3>3
  <2>3. Nat \subseteq T
    <3> HIDE DEF T
    <3>1. QED
      BY <2>1, <2>2, SetInduction
  <2>4. QED
    BY <2>3
<1>21. WalkIn(q, C) = X
  <2> DEFINE W == {v[n] : n \in 1 .. K}
  <2>1. W \subseteq X
    <3> HIDE DEF X, C
    <3>1. \A n \in 1 .. K : n \in 0 .. K
      OBVIOUS
    <3>2. QED
      BY <1>25, <1>18, <3>1
  <2>2. ASSUME NEW n \in 0 .. k PROVE w[n] \in W
    <3>1. n + 1 \in 1 .. K
      BY <1>19
    <3>2. QED
      BY <1>20, <3>1
  <2>3. X \subseteq W
    <3> HIDE DEF W
    <3>1. QED
      BY <2>2
  <2>4. QED
    BY <1>25, <1>18, <2>1, <2>3
<1>22. IsSimple(q, C)
  <2> HIDE DEF X, C
  <2>1. \E m \in C : m[1] = q
    BY <1>10
  <2>2. QED
    BY <1>9, <1>14, <1>21, <2>1 DEF IsSimple
<1>23. QED
  <2> HIDE DEF C
  <2>1. QED
    BY <1>7, <1>10, <1>22, SimpleAreSimple


(* The next state on a simple cycle.                                        *)
LEMMA NextOnCycle ==
  ASSUME NEW C, OneEach(C)
  PROVE  /\ NextIn(C) \in [SourcesOf(C) -> SourcesOf(C)]
         /\ \A r \in SourcesOf(C) : \E m \in C : m[1] = r /\ m[3] = NextIn(C)[r]
<1>1. ASSUME NEW r \in SourcesOf(C)
      PROVE  LET m == CHOOSE k \in C : k[1] = r
             IN m \in C /\ m[1] = r /\ m[3] \in SourcesOf(C)
  <2>1. \E k \in C : k[1] = r
    BY DEF SourcesOf
  <2>2. PICK m : m = CHOOSE k \in C : k[1] = r
    OBVIOUS
  <2>3. m \in C /\ m[1] = r
    BY <2>1, <2>2
  <2>4. m[3] \in SourcesOf(C)
    BY <2>3 DEF OneEach, SourcesOf
  <2>5. QED
    BY <2>2, <2>3, <2>4
<1>2. QED
  BY <1>1 DEF NextIn

(* Without a choice of moves inside the component, a simple cycle is part   *)
(* of every other one through the same state.                               *)
LEMMA CyclesCoincide ==
  ASSUME SearchTypes, IsFiniteSet(aut.delta), NEW q,
         \A m, n \in InnerMoves(q) : m[1] = n[1] => m = n,
         NEW C \in SimpleCycles(q), NEW D \in SimpleCycles(q)
  PROVE  C \subseteq D
<1>1. /\ C \in SUBSET InnerMoves(q) /\ IsSimple(q, C)
      /\ D \in SUBSET InnerMoves(q) /\ IsSimple(q, D)
  BY SimpleAreSimple
<1>2. IsFiniteSet(C)
  <2>1. C \in SUBSET aut.delta
    BY <1>1 DEF InnerMoves
  <2>2. QED
    BY <2>1, FS_Subset
<1>3. q \in SourcesOf(C) /\ q \in SourcesOf(D) /\ OneEach(C) /\ OneEach(D)
      /\ WalkIn(q, C) = SourcesOf(C)
  BY <1>1 DEF IsSimple, SourcesOf
<1>4. PICK to : to = NextIn(C)
  OBVIOUS
<1>5. /\ to \in [SourcesOf(C) -> SourcesOf(C)]
      /\ \A r \in SourcesOf(C) : \E m \in C : m[1] = r /\ m[3] = to[r]
  BY <1>3, <1>4, NextOnCycle
<1>14. PICK w : IsWalk(q, C, to, w)
  BY <1>2, <1>3, <1>4, <1>5, WalkIsWalk
<1>6. /\ w \in [0 .. Cardinality(C) -> SourcesOf(C)]
      /\ w[0] = q /\ \A n \in 1 .. Cardinality(C) : w[n] = to[w[n - 1]]
      /\ WalkIn(q, C) = {w[n] : n \in 1 .. Cardinality(C)}
  BY <1>14 DEF IsWalk
<1>7. PICK K \in Nat : K = Cardinality(C)
  BY <1>2, FS_CardinalityType
<1>8. ASSUME NEW r \in SourcesOf(C), r \in SourcesOf(D)
      PROVE  to[r] \in SourcesOf(D)
  <2>1. PICK m \in C : m[1] = r /\ m[3] = to[r]
    BY <1>5
  <2>2. PICK n \in D : n[1] = r
    BY <1>8 DEF SourcesOf
  <2>3. m = n
    BY <1>1, <2>1, <2>2
  <2>4. PICK k \in D : k[1] = n[3]
    BY <1>3 DEF OneEach
  <2>5. QED
    BY <2>1, <2>3, <2>4 DEF SourcesOf
<1> DEFINE T == {n \in Nat : n <= K => w[n] \in SourcesOf(D)}
<1>9. 0 \in T
  BY <1>3, <1>6
<1>10. ASSUME NEW n \in Nat, n \in T PROVE n + 1 \in T
  <2> SUFFICES ASSUME n + 1 <= K PROVE w[n + 1] \in SourcesOf(D)
    OBVIOUS
  <2>1. n + 1 \in 1 .. K /\ (n + 1) - 1 = n /\ n \in 0 .. K
    OBVIOUS
  <2>2. w[n] \in SourcesOf(D) /\ w[n] \in SourcesOf(C) /\ w[n + 1] = to[w[n]]
    BY <1>6, <1>7, <1>10, <2>1
  <2>3. QED
    BY <1>8, <2>2
<1>11. \A n \in 0 .. K : w[n] \in SourcesOf(D)
  <2>1. Nat \subseteq T
    <3> HIDE DEF T
    <3>1. QED
      BY <1>9, <1>10, SetInduction
  <2>2. QED
    BY <2>1
<1>12. SourcesOf(C) \subseteq SourcesOf(D)
  <2>1. \A n \in 1 .. K : n \in 0 .. K
    OBVIOUS
  <2>2. QED
    BY <1>3, <1>6, <1>7, <1>11, <2>1
<1>13. ASSUME NEW m \in C PROVE m \in D
  <2>1. m[1] \in SourcesOf(D)
    BY <1>12 DEF SourcesOf
  <2>2. PICK n \in D : n[1] = m[1]
    BY <2>1 DEF SourcesOf
  <2>3. QED
    BY <1>1, <2>2
<1>15. QED
  BY <1>13

(* A component is given by any state of it.                                 *)
IsComponent(S) ==
  S \subseteq aut.states /\ S # {} /\ \A q \in S : S = Strong(aut, q)

LEMMA CyclesAreFinite ==
  ASSUME IsFiniteSet(aut.delta), NEW q
  PROVE  IsFiniteSet(SimpleCycles(q))
<1>1. SimpleCycles(q) \in SUBSET (SUBSET aut.delta)
  BY SimpleAreSimple DEF InnerMoves
<1>2. QED
  BY <1>1, FS_SUBSET, FS_Subset

LEMMA InnerOfComponent ==
  ASSUME SearchTypes, NEW S, IsComponent(S), NEW q \in S
  PROVE  InnerMoves(q) = {m \in aut.delta : m[1] \in S /\ m[3] \in S}
<1>1. S = Strongly(q)
  BY StronglyIsStrong DEF IsComponent
<1>2. QED
  BY <1>1 DEF InnerMoves

(* is_acyclic: a component is cyclic if and only if a simple cycle passes   *)
(* one of its states.                                                       *)
LEMMA CyclicHasCycle ==
  ASSUME SearchTypes, IsFiniteSet(aut.delta), NEW S, IsComponent(S)
  PROVE  Cyclic(S) <=> \E q \in S : SimpleCycles(q) # {}
<1>1. IsGraph(aut) /\ IsFiniteSet(S)
  <2>1. IsGraph(aut)
    BY SearchGraph
  <2>2. QED
    BY <2>1, FS_Subset DEF IsGraph, IsComponent
<1>2. ASSUME NEW q \in S, NEW C \in SimpleCycles(q) PROVE Cyclic(S)
  <2>1. PICK m \in C : m[1] = q
    BY SimpleAreSimple DEF IsSimple
  <2>2. m \in aut.delta /\ m[1] \in S /\ m[3] \in S
    BY <2>1, SimpleAreSimple, InnerOfComponent
  <2>3. CASE m[1] = m[3]
    BY <2>2, <2>3 DEF Cyclic
  <2>4. CASE m[1] # m[3]
    BY <1>1, <2>2, <2>4, MoreThanOne DEF Cyclic
  <2>5. QED
    BY <2>3, <2>4
<1>3. ASSUME Cyclic(S) PROVE \E m \in aut.delta : m[1] \in S /\ m[3] \in S
  <2>1. CASE \E m \in aut.delta : m[1] \in S /\ m[1] = m[3]
    BY <2>1
  <2>2. CASE ~\E m \in aut.delta : m[1] \in S /\ m[1] = m[3]
    <3>1. PICK x, y \in S : x # y
      BY <1>1, <1>3, <2>2, MoreThanOne DEF Cyclic
    <3>2. SUFFICES ASSUME \A m \in aut.delta : ~(m[1] \in S /\ m[3] \in S) PROVE FALSE
      OBVIOUS
    <3> DEFINE V == {z \in aut.states : IsPath(aut, x, z) /\ (z \in S => z = x)}
    <3>3. /\ S = Strong(aut, x) /\ x \in aut.states
          /\ IsPath(aut, x, x) /\ IsPath(aut, x, y)
      BY <1>1, <3>1, PathInside DEF IsComponent, Strong
    <3>4. ASSUME NEW m \in aut.delta, m[1] \in V PROVE m[3] \in V
      <4>1. m[1] \in aut.states /\ m[3] \in aut.states /\ IsPath(aut, m[1], m[3])
        BY <1>1, MoveIsPath
      <4>2. IsPath(aut, x, m[1]) /\ IsPath(aut, x, m[3])
        BY <1>1, <3>3, <3>4, PathInside
      <4>3. ASSUME m[3] \in S PROVE FALSE
        <5>1. IsPath(aut, m[3], x)
          BY <3>3, <4>3 DEF Strong
        <5>2. IsPath(aut, m[1], x)
          BY <1>1, <4>1, <5>1, PathsJoin
        <5>3. m[1] \in S
          BY <3>3, <4>1, <4>2, <5>2 DEF Strong
        <5>4. QED
          BY <3>2, <4>3, <5>3
      <4>4. QED
        BY <4>1, <4>2, <4>3
    <3>5. x \in V
      BY <3>3
    <3>6. y \in V
      <4> HIDE DEF V
      <4>1. EdgeClosed(aut, V)
        BY <3>4 DEF EdgeClosed
      <4>2. QED
        BY <1>1, <3>3, <3>5, <4>1, PathStaysIn
    <3>7. QED
      BY <3>1, <3>6
  <2>3. QED
    BY <2>1, <2>2
<1>4. ASSUME NEW m \in aut.delta, m[1] \in S, m[3] \in S
      PROVE  SimpleCycles(m[1]) # {}
  <2>1. PICK q : q = m[1]
    OBVIOUS
  <2>2. q \in aut.states /\ m[3] \in Strong(aut, q)
    BY <1>4, <2>1 DEF IsComponent
  <2>3. QED
    BY <2>1, <2>2, MoveOnCycle
<1>5. QED
  BY <1>2, <1>3, <1>4

(* is_flat: a state of a component has two moves that stay in it if and     *)
(* only if two simple cycles pass some state of it.                         *)
LEMMA BranchesHaveCycles ==
  ASSUME SearchTypes, IsFiniteSet(aut.delta), NEW S, IsComponent(S)
  PROVE  Branches(S) <=> \E q \in S : ~(Cardinality(SimpleCycles(q)) <= 1)
<1>1. ASSUME NEW q
      PROVE  /\ IsFiniteSet({m \in MovesFrom(q) : m[3] \in S})
             /\ IsFiniteSet(SimpleCycles(q))
  <2>1. {m \in MovesFrom(q) : m[3] \in S} \in SUBSET aut.delta
    BY DEF MovesFrom
  <2>2. QED
    BY <2>1, FS_Subset, CyclesAreFinite
<1>2. ASSUME Branches(S) PROVE \E q \in S : \E C, D \in SimpleCycles(q) : C # D
  <2>1. PICK q \in S : Cardinality({m \in MovesFrom(q) : m[3] \in S}) > 1
    BY <1>2 DEF Branches
  <2>2. PICK m, n \in {k \in MovesFrom(q) : k[3] \in S} : m # n
    BY <1>1, <2>1, MoreThanOne
  <2>3. /\ m \in aut.delta /\ m[1] = q /\ m[3] \in S
        /\ n \in aut.delta /\ n[1] = q /\ n[3] \in S
    BY <2>2 DEF MovesFrom
  <2>4. q \in aut.states /\ S = Strong(aut, q)
    BY DEF IsComponent
  <2>5. PICK C \in SimpleCycles(q) : m \in C
    BY <2>3, <2>4, MoveOnCycle
  <2>6. PICK D \in SimpleCycles(q) : n \in D
    BY <2>3, <2>4, MoveOnCycle
  <2>7. ASSUME C = D PROVE FALSE
    <3>1. OneEach(C) /\ C \in SUBSET aut.delta
      BY SimpleAreSimple DEF IsSimple, InnerMoves
    <3>2. PICK E : E = {k \in C : k[1] = m[1]}
      OBVIOUS
    <3>3. Cardinality(E) = 1
      BY <2>5, <3>1, <3>2 DEF OneEach
    <3>4. IsFiniteSet(E) /\ m \in E /\ n \in E
      <4>1. E \in SUBSET aut.delta
        BY <3>1, <3>2
      <4>2. QED
        BY <2>3, <2>5, <2>6, <2>7, <3>2, <4>1, FS_Subset
    <3>5. QED
      BY <2>2, <3>3, <3>4, MoreThanOne
  <2>8. QED
    BY <2>7
<1>3. ASSUME NEW q \in S, NEW C \in SimpleCycles(q), NEW D \in SimpleCycles(q), C # D
      PROVE  Branches(S)
  <2>1. SUFFICES ASSUME ~Branches(S) PROVE FALSE
    OBVIOUS
  <2>2. ASSUME NEW m \in InnerMoves(q), NEW n \in InnerMoves(q), m[1] = n[1]
        PROVE  m = n
    <3>1. PICK r \in S : r = m[1]
      BY <2>2, InnerOfComponent
    <3>2. PICK E : E = {k \in MovesFrom(r) : k[3] \in S}
      OBVIOUS
    <3>3. m \in E /\ n \in E
      BY <2>2, <3>1, <3>2, InnerOfComponent DEF MovesFrom
    <3>4. ~(Cardinality(E) > 1)
      BY <2>1, <3>1, <3>2 DEF Branches
    <3>5. IsFiniteSet(E)
      BY <1>1, <3>2
    <3>6. QED
      BY <3>3, <3>4, <3>5, MoreThanOne
  <2>3. C \subseteq D /\ D \subseteq C
    BY <2>2, CyclesCoincide
  <2>4. QED
    BY <1>3, <2>3
<1>4. \A q : (\E C, D \in SimpleCycles(q) : C # D) <=> ~(Cardinality(SimpleCycles(q)) <= 1)
  <2> SUFFICES ASSUME NEW q
               PROVE  (\E C, D \in SimpleCycles(q) : C # D)
                      <=> ~(Cardinality(SimpleCycles(q)) <= 1)
    OBVIOUS
  <2>1. PICK X : X = SimpleCycles(q)
    OBVIOUS
  <2>2. IsFiniteSet(X)
    BY <1>1, <2>1
  <2>3. Cardinality(X) \in Nat /\ (Cardinality(X) > 1 <=> \E C, D \in X : C # D)
    BY <2>2, MoreThanOne
  <2>4. QED
    BY <2>1, <2>3
<1>5. QED
  BY <1>2, <1>3, <1>4


(***************************************************************************)
(* The answers of the other clients while the search runs.                 *)
(***************************************************************************)
AnswerInv ==
  /\ client = "empty" => (answer <=> \A q \in Seen : q \notin aut.final)
  /\ client = "acyclic" => (answer <=> \A n \in 1 .. Len(sccs) : ~Cyclic(sccs[n]))
  /\ client = "flat" => (answer <=> \A n \in 1 .. Len(sccs) : ~Branches(sccs[n]))

LEMMA AnswerUntouched ==
  ASSUME AnswerInv, UNCHANGED <<aut, client, initialized, answer, sccs>>
  PROVE  AnswerInv'
<1>1. Seen' = Seen
  BY DEF Seen
<1>2. \A S : (Cyclic(S))' = Cyclic(S) /\ (Branches(S))' = Branches(S)
  BY DEF Cyclic, Branches, MovesFrom
<1>3. QED
  BY <1>1, <1>2 DEF AnswerInv

LEMMA DiscoverAnswers ==
  ASSUME TarjanInv, AnswerInv, Discover
  PROVE  AnswerInv'
<1>1. /\ phase = "main" /\ answer = TRUE
      /\ UNCHANGED <<aut, client, sccs>>
  BY DEF Discover, TarjanInv, input
<1>2. PICK q : q = act_state
  OBVIOUS
<1>3. q \in aut.states
  BY <1>2, ElementOfSeq DEF TarjanInv, SearchTypes, Discover, act_state, Last
<1>4. Seen' = Seen \cup {q}
  <2>1. initialized \in [aut.states -> BOOLEAN]
    BY DEF TarjanInv, SearchTypes
  <2>2. initialized' = [initialized EXCEPT ![q] = TRUE]
    BY <1>2 DEF Discover
  <2>3. QED
    BY <1>1, <1>3, <2>1, <2>2 DEF Seen
<1>5. answer' = ~(client = "empty" /\ q \in aut.final)
  BY <1>1, <1>2 DEF Discover
<1>6. \A S : (Cyclic(S))' = Cyclic(S) /\ (Branches(S))' = Branches(S)
  BY <1>1 DEF Cyclic, Branches, MovesFrom
<1>7. QED
  BY <1>1, <1>4, <1>5, <1>6 DEF AnswerInv

LEMMA CloseAnswers ==
  ASSUME TarjanInv, AnswerInv, CloseComponent
  PROVE  AnswerInv'
<1>1. /\ phase = "closing" /\ answer = TRUE
      /\ UNCHANGED <<aut, client, initialized>>
  BY DEF CloseComponent, TarjanInv, input
<1>2. PICK C : C = Component
  OBVIOUS
<1>3. sccs' = Append(sccs, C) /\ answer' = ~Refutes(C)
  BY <1>1, <1>2 DEF CloseComponent
<1>13. PICK old \in Seq(SUBSET aut.states) : old = sccs
  BY DEF TarjanInv, SearchTypes
<1>4. PICK k \in Nat : k = Len(sccs)
  BY <1>13
<1>5. /\ Len(sccs') = k + 1 /\ sccs'[k + 1] = C
      /\ \A n \in 1 .. k : sccs'[n] = sccs[n]
  BY <1>3, <1>4 DEF TarjanInv, SearchTypes
<1>6. \A S : (Cyclic(S))' = Cyclic(S) /\ (Branches(S))' = Branches(S)
  BY <1>1 DEF Cyclic, Branches, MovesFrom
<1>7. Seen' = Seen
  BY <1>1 DEF Seen
<1>8. \A n : n \in 1 .. k + 1 <=> n \in 1 .. k \/ n = k + 1
  BY <1>4
<1>9. client = "acyclic" => (answer' <=> \A n \in 1 .. k + 1 : ~Cyclic(sccs'[n]))
  BY <1>1, <1>3, <1>4, <1>5, <1>8 DEF AnswerInv, Refutes
<1>10. client = "flat" => (answer' <=> \A n \in 1 .. k + 1 : ~Branches(sccs'[n]))
  BY <1>1, <1>3, <1>4, <1>5, <1>8 DEF AnswerInv, Refutes
<1>11. client = "empty" => answer'
  BY <1>3 DEF Refutes
<1>12. QED
  BY <1>1, <1>5, <1>6, <1>7, <1>9, <1>10, <1>11 DEF AnswerInv

LEMMA AnswerStep ==
  ASSUME TarjanInv, AnswerInv, TarjanNext
  PROVE  AnswerInv'
<1>1. CASE Discover
  BY <1>1, DiscoverAnswers
<1>2. CASE CloseComponent
  BY <1>2, CloseAnswers
<1>3. CASE ~Discover /\ ~CloseComponent
  <2>1. UNCHANGED <<aut, client, initialized, answer, sccs>>
    BY <1>3 DEF TarjanNext, Skip, Return, Call, PassMove, EndOfMoves, LeaveOpen, Finish,
                input, node_info
  <2>2. QED
    BY <2>1, AnswerUntouched
<1>4. QED
  BY <1>1, <1>2, <1>3

LEMMA AnswersHold ==
  ASSUME TarjanInv, AnswerInv
  PROVE  AnswerIsRight
<1>1. SUFFICES ASSUME phase = "done" PROVE AnswerIsRight
  BY DEF AnswerIsRight
<1>2. /\ SearchTypes /\ IsGraph(aut) /\ GivenInv /\ Indexed
      /\ answer \in BOOLEAN
      /\ answer => Closed = ReachIn(aut, aut.initial)
  BY <1>1, SearchGraph DEF TarjanInv, SearchTypes
<1>3. IsFiniteSet(aut.delta)
  BY <1>2, InputsAssumption DEF SearchTypes
<1>4. Reached = ReachIn(aut, aut.initial)
  BY ReachedIsReach DEF Reached
<1>5. Closed \subseteq Seen /\ Seen \subseteq Reached
  BY <1>2, <1>4 DEF Closed, Indexed
<1>6. /\ \A n \in 1 .. Len(sccs) : sccs[n] \subseteq Closed
      /\ \A q \in Closed : \E n \in 1 .. Len(sccs) : q \in sccs[n]
  BY <1>2 DEF GivenInv, GivenUpTo
<1>7. ASSUME NEW n \in 1 .. Len(sccs), sccs[n] # {} PROVE IsComponent(sccs[n])
  <2>1. sccs[n] \subseteq aut.states
    BY <1>6 DEF Closed, Seen
  <2>2. QED
    BY <1>2, <1>7, <2>1 DEF IsComponent, GivenInv
<1>8. client = "empty" => (answer <=> Reached \cap aut.final = {})
  <2>1. SUFFICES ASSUME client = "empty" PROVE answer <=> Reached \cap aut.final = {}
    OBVIOUS
  <2>2. answer <=> \A q \in Seen : q \notin aut.final
    BY <2>1 DEF AnswerInv
  <2>3. QED
    BY <1>2, <1>4, <1>5, <2>2
<1>9. client = "acyclic" => (answer <=> \A q \in Reached : SimpleCycles(q) = {})
  <2>1. SUFFICES ASSUME client = "acyclic"
                 PROVE  answer <=> \A q \in Reached : SimpleCycles(q) = {}
    OBVIOUS
  <2>2. answer <=> \A n \in 1 .. Len(sccs) : ~Cyclic(sccs[n])
    BY <2>1 DEF AnswerInv
  <2>3. ASSUME NEW n \in 1 .. Len(sccs)
        PROVE  Cyclic(sccs[n]) <=> \E q \in sccs[n] : SimpleCycles(q) # {}
    <3>1. CASE sccs[n] = {}
      BY <3>1, FS_EmptySet DEF Cyclic
    <3>2. CASE sccs[n] # {}
      BY <1>2, <1>3, <1>7, <3>2, CyclicHasCycle
    <3>3. QED
      BY <3>1, <3>2
  <2>4. QED
    BY <1>2, <1>4, <1>5, <1>6, <2>2, <2>3
<1>10. client = "flat" => (answer <=> \A q \in Reached : Cardinality(SimpleCycles(q)) <= 1)
  <2>1. SUFFICES ASSUME client = "flat"
                 PROVE  answer <=> \A q \in Reached : Cardinality(SimpleCycles(q)) <= 1
    OBVIOUS
  <2>2. answer <=> \A n \in 1 .. Len(sccs) : ~Branches(sccs[n])
    BY <2>1 DEF AnswerInv
  <2>3. ASSUME NEW n \in 1 .. Len(sccs)
        PROVE  Branches(sccs[n]) <=>
                 \E q \in sccs[n] : ~(Cardinality(SimpleCycles(q)) <= 1)
    <3>1. CASE sccs[n] = {}
      BY <3>1 DEF Branches
    <3>2. CASE sccs[n] # {}
      BY <1>2, <1>3, <1>7, <3>2, BranchesHaveCycles
    <3>3. QED
      BY <3>1, <3>2
  <2>4. QED
    BY <1>2, <1>4, <1>5, <1>6, <2>2, <2>3
<1>11. QED
  BY <1>1, <1>8, <1>9, <1>10 DEF AnswerIsRight

(* THEOREM: for every automaton, is_lang_empty_scc answers whether a final  *)
(* state can be reached, is_acyclic whether no simple cycle can be, and     *)
(* is_flat whether no state that can be reached lies on two simple cycles,  *)
(* although the callbacks end the search as soon as the answer is known.    *)
THEOREM AnswerIsAlwaysRight == Spec => []AnswerIsRight
<1>1. Init => AnswerInv
  <2>1. SUFFICES ASSUME Init PROVE AnswerInv
    OBVIOUS
  <2>2. /\ initialized = [q \in aut.states |-> FALSE]
        /\ answer = TRUE /\ sccs = << >>
    BY <2>1 DEF Init, TarjanInit
  <2>3. Seen = {} /\ 1 .. Len(sccs) = {}
    BY <2>2 DEF Seen
  <2>4. QED
    BY <2>2, <2>3 DEF AnswerInv
<1>2. (TarjanInv /\ EndsRight) /\ AnswerInv /\ [Next]_allvars => AnswerInv'
  <2>1. SUFFICES ASSUME TarjanInv, AnswerInv, [Next]_allvars PROVE AnswerInv'
    OBVIOUS
  <2>2. CASE TarjanNext
    BY <2>1, <2>2, AnswerStep
  <2>3. CASE UNCHANGED vars
    BY <2>1, <2>3, AnswerUntouched DEF vars
  <2>4. QED
    BY <2>1, <2>2, <2>3, TrimSteps
<1>3. TarjanInv /\ AnswerInv => AnswerIsRight
  BY AnswersHold
<1>4. QED
  BY <1>1, <1>2, <1>3, SearchInvariant, PTL DEF Spec

==============================================================================
