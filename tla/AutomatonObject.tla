----------------------------- MODULE AutomatonObject -----------------------------
(***************************************************************************)
(* An automaton object: mata::nfa::Nfa (include/mata/nfa/nfa.hh,           *)
(* src/nfa/nfa.cc) over its transition relation and its two sparse sets of *)
(* states.  The number of states is not stored: it is the largest of three *)
(* lengths that grow apart, of the vector of state posts and of the        *)
(* domains of the sets, which most calls leave as long as they are.        *)
(*                                                                         *)
(* Users make any calls in any order; AutomatonValue says what they see.   *)
(* The questions they may ask follow: those of src/nfa/nfa.cc and          *)
(* src/nfa/operations.cc; those of src/nfa/delta.cc are in                 *)
(* TransitionRelation.                                                     *)
(***************************************************************************)
EXTENDS TransitionRelation, FiniteSets

CONSTANTS
  Calls,      \* records with the name op of the operation and its arguments
  EPSILON,    \* the largest symbol
  MaxStates   \* bound: no call is made that could need more states

VARIABLES
  nfa,        \* delta, and the sets initial and final
  call, answer

vars == <<nfa, call, answer>>

(* utils::SparseSet: a set and the length of its vectors (module SparseSet  *)
(* has them in full).                                                       *)
Larger(k, n) == IF k < n THEN n ELSE k
Sparse(S, length) == [set |-> S, domain_size |-> length]
Inserted(S, q) == Sparse(S.set \cup {q}, Larger(S.domain_size, q + 1))
Erased(S, q) == Sparse(S.set \ {q}, S.domain_size)
Cleared(S) == Sparse({}, S.domain_size)
Complemented(S, length) == Sparse((0 .. length - 1) \ S.set, Larger(S.domain_size, length))

EmptyNfa == [delta |-> << >>, initial |-> Sparse({}, 0), final |-> Sparse({}, 0)]

(* Not the code: states that are only initial or final are not counted.     *)
StatesOfDelta(o) == Len(o.delta)
num_of_states(o) ==
  Larger(Larger(o.initial.domain_size, o.final.domain_size), Len(o.delta))

WithState(o) == [o EXCEPT !.delta = allocate(@, num_of_states(o) + 1)]
WithMove(o, source, symbol, target) == [o EXCEPT !.delta = add(@, source, symbol, <<target>>)]

(* insert_word makes a new state after every symbol but the last.           *)
WithWord(o, source, word, target) ==
  LET spelled[n \in 0 .. Len(word) - 1] ==   \* the object, and the state reached
        IF n = 0 THEN <<o, source>>
        ELSE LET before == spelled[n - 1]
                 inner == num_of_states(before[1])
             IN <<WithMove(WithState(before[1]), before[2], word[n], inner), inner>>
      last == spelled[Len(word) - 1]
  IN WithMove(last[1], last[2], word[Len(word)], target)

ascending(S) ==
  LET listed[n \in 0 .. Cardinality(S)] ==
        IF n = 0 THEN << >>
        ELSE Append(listed[n - 1], CHOOSE q \in S : Cardinality({p \in S : p < q}) = n - 1)
  IN listed[Cardinality(S)]

WithMoves(delta, triples) ==
  LET added[n \in 0 .. Len(triples)] ==
        IF n = 0 THEN delta
        ELSE add(added[n - 1], triples[n][1], triples[n][2], <<triples[n][3]>>)
  IN added[Len(triples)]

(* unify_initial copies the posts of the initial states to a new state.     *)
UnifiedInitial(o) ==
  LET new == num_of_states(o)
      olds == ascending(o.initial.set)
      grown == WithState(o)
      copied[n \in 0 .. Len(olds)] ==
        IF n = 0 THEN grown.delta
        ELSE LET outgoing == AllMoves(state_post(copied[n - 1], olds[n]))
             IN WithMoves(copied[n - 1], [k \in DOMAIN outgoing |-> <<new, outgoing[k][1], outgoing[k][2]>>])
  IN [delta |-> copied[Len(olds)],
      initial |-> Inserted(Cleared(o.initial), new),
      final |-> IF o.initial.set \cap o.final.set = {} THEN o.final ELSE Inserted(o.final, new)]

(* unify_final copies the transitions to the final states.                  *)
UnifiedFinal(o) ==
  LET new == num_of_states(o)
      olds == ascending(o.final.set)
      grown == WithState(o)
      copied[n \in 0 .. Len(olds)] ==
        IF n = 0 THEN grown.delta
        ELSE LET incoming == get_transitions_to(copied[n - 1], olds[n])
             IN WithMoves(copied[n - 1], [k \in DOMAIN incoming |-> <<incoming[k][1], incoming[k][2], new>>])
  IN [delta |-> copied[Len(olds)],
      final |-> Inserted(Cleared(o.final), new),
      initial |-> IF o.initial.set \cap o.final.set = {} THEN o.initial ELSE Inserted(o.initial, new)]

------------------------------------------------------------------------------
Init == nfa = EmptyNfa /\ call = [op |-> "none"] /\ answer = "done"

Called(op) == {k \in Calls : k.op = op}
Made(k, result) == call' = k /\ answer' = result
Room(more) == num_of_states(nfa) + more <= MaxStates

AddState ==
  \E k \in Called("add_state") :
    Room(1) /\ nfa' = WithState(nfa) /\ Made(k, num_of_states(nfa))

AddStateNumber ==
  \E k \in Called("add_state_of_number") :
    nfa' = [nfa EXCEPT !.delta = allocate(@, k.state + 1)] /\ Made(k, k.state)

Add ==
  \E k \in Called("add") :
    /\ nfa' = [nfa EXCEPT !.delta = add(@, k.source, k.symbol, ascending(k.targets))]
    /\ Made(k, "done")

Remove ==
  \E k \in Called("remove") :
    /\ nfa' = [nfa EXCEPT !.delta = remove(@, k.source, k.symbol, k.target)]
    /\ Made(k, IF RemoveThrows(nfa.delta, k.source, k.symbol) THEN "invalid_argument" ELSE "done")

InsertWord ==
  \E k \in Called("insert_word") :
    /\ k.source < num_of_states(nfa) /\ k.target < num_of_states(nfa) /\ Room(Len(k.word) - 1)
    /\ nfa' = WithWord(nfa, k.source, k.word, k.target) /\ Made(k, k.target)

InsertWordToNew ==
  \E k \in Called("insert_word_to_new_state") :
    LET new == num_of_states(nfa)
    IN /\ k.source < num_of_states(nfa) /\ Room(Len(k.word))
       /\ nfa' = WithWord(WithState(nfa), k.source, k.word, new) /\ Made(k, new)

InsertInitial ==
  \E k \in Called("initial_insert") :
    nfa' = [nfa EXCEPT !.initial = Inserted(@, k.state)] /\ Made(k, "done")
InsertFinal ==
  \E k \in Called("final_insert") :
    nfa' = [nfa EXCEPT !.final = Inserted(@, k.state)] /\ Made(k, "done")
EraseFinal ==
  \E k \in Called("final_erase") :
    nfa' = [nfa EXCEPT !.final = Erased(@, k.state)] /\ Made(k, "done")

SwapFinalNonfinal ==
  \E k \in Called("swap_final_nonfinal") :
    nfa' = [nfa EXCEPT !.final = Complemented(@, num_of_states(nfa))] /\ Made(k, "done")

(* clear keeps the domains of the sparse sets; a move leaves nothing.       *)
Clear ==
  \E k \in Called("clear") :
    /\ nfa' = [delta |-> << >>, initial |-> Cleared(nfa.initial), final |-> Cleared(nfa.final)]
    /\ Made(k, "done")
MoveAway == \E k \in Called("move") : nfa' = EmptyNfa /\ Made(k, "done")

UnifyInitial ==
  \E k \in Called("unify_initial") :
    /\ IF ~ k.force /\ Cardinality(nfa.initial.set) <= 1 THEN UNCHANGED nfa
       ELSE Room(1) /\ nfa' = UnifiedInitial(nfa)
    /\ Made(k, "done")
UnifyFinal ==
  \E k \in Called("unify_final") :
    /\ IF ~ k.force /\ Cardinality(nfa.final.set) <= 1 THEN UNCHANGED nfa
       ELSE Room(1) /\ nfa' = UnifiedFinal(nfa)
    /\ Made(k, "done")

Next ==
  \/ AddState \/ AddStateNumber \/ Add \/ Remove \/ InsertWord \/ InsertWordToNew
  \/ InsertInitial \/ InsertFinal \/ EraseFinal \/ SwapFinalNonfinal
  \/ Clear \/ MoveAway \/ UnifyInitial \/ UnifyFinal

Spec == Init /\ [][Next]_vars

------------------------------------------------------------------------------
(* The value of the object.                                                 *)
MovesOf(delta) ==
  UNION {UNION {{<<q - 1, p.symbol, t>> : t \in ElementsOf(p.targets)} : p \in ElementsOf(delta[q])}
         : q \in DOMAIN delta}
Moves == MovesOf(nfa.delta)

(* The vectors are ordered, no symbol post is empty and every state in use  *)
(* is below num_of_states(): what lower_bound, back() and *targets.begin()  *)
(* of every algorithm rely on, whatever calls came before.                  *)
VectorsInOrder ==
  /\ \A q \in DOMAIN nfa.delta :
       /\ is_sorted(SymbolsOf(nfa.delta[q]))
       /\ \A p \in ElementsOf(nfa.delta[q]) : p.targets # << >> /\ is_sorted(p.targets)
  /\ \A S \in {nfa.initial, nfa.final} : \A q \in S.set : q < S.domain_size
  /\ \A m \in Moves : m[1] < Len(nfa.delta) /\ m[3] < num_of_states(nfa)

Value == INSTANCE AutomatonValue
           WITH moves <- Moves, initial <- nfa.initial.set, final <- nfa.final.set,
                states <- num_of_states(nfa)

(* Where the code differs from AutomatonValue: after clear() as many states *)
(* are left as the longer of the two sparse sets had room for.              *)
ClearKeepsDomains ==
  \E k \in Called("clear") :
    /\ Moves' = {} /\ nfa'.initial.set = {} /\ nfa'.final.set = {}
    /\ num_of_states(nfa') = Larger(nfa.initial.domain_size, nfa.final.domain_size)
    /\ Made(k, "done")

(* To its users the object is the set of its transitions, its two sets of   *)
(* states and a number of states that is above all it uses: the vectors it  *)
(* keeps, and the lengths they have grown to in earlier calls, show in no   *)
(* call but clear(), and there only in the number of states.                *)
ImplementsValue == Value!Init /\ [][Value!Next \/ ClearKeepsDomains]_(Value!vars)

(* What nfa.hh says of clear(), and the code does not do: the automaton is  *)
(* blank afterwards, with every member at its zero value.                   *)
ClearedIsBlank ==
  call.op = "clear" =>
    Moves = {} /\ nfa.initial.set = {} /\ nfa.final.set = {} /\ num_of_states(nfa) = 0

(* reachable_states: a stack of states; considered is what may be reached.  *)
reachable_states(delta, initial, considered) ==
  LET search[worklist \in Seq(Nat), reachable \in SUBSET Nat] ==
        IF worklist = << >> THEN reachable
        ELSE LET q == worklist[Len(worklist)]
                 next == SelectSeq(get_successors(state_post(delta, q)),
                                   LAMBDA t : t \notin reachable /\ t \in considered)
             IN search[SubSeq(worklist, 1, Len(worklist) - 1) \o next, reachable \cup ElementsOf(next)]
  IN search[ascending(initial \cap considered), initial \cap considered]

(* get_terminating_states: of the reversed automaton.                       *)
Reversed(delta) ==
  LET all == transitions(delta)
  IN WithMoves(<< >>, [n \in DOMAIN all |-> <<all[n][3], all[n][2], all[n][1]>>])
get_terminating_states(o) ==
  reachable_states(Reversed(o.delta), o.final.set, 0 .. num_of_states(o) - 1)

(* get_one_letter_aut.                                                      *)
OneLetter(delta, symbol) ==
  LET all == transitions(delta)
  IN WithMoves(<< >>, [n \in DOMAIN all |-> <<all[n][1], symbol, all[n][3]>>])

(* mk_epsilon_closure: a queue of states, and the ordered vector of those   *)
(* that were met.                                                           *)
mk_epsilon_closure(delta, source_states) ==
  LET search[worklist \in Seq(Nat), closure \in Seq(Nat)] ==
        IF worklist = << >> THEN closure
        ELSE LET new == SelectSeq(SuccessorsBy(state_post(delta, Head(worklist)), EPSILON),
                                  LAMBDA t : ~ contains(closure, t))
             IN search[Tail(worklist) \o new, InsertAll(closure, new)]
  IN search[source_states, source_states]

(* Nfa::post, with the closure taken before the move, after it, or never.   *)
post(delta, states, symbol, closure_opt) ==
  LET from == IF closure_opt = "Before" THEN mk_epsilon_closure(delta, states) ELSE states
      kept == IF symbol = EPSILON /\ closure_opt # "None" THEN states ELSE << >>
      moved[n \in 0 .. Len(from)] ==
        IF n = 0 THEN kept
        ELSE set_union(moved[n - 1], SuccessorsBy(state_post(delta, from[n]), symbol))
  IN IF IsEmpty(delta) THEN kept
     ELSE IF closure_opt = "After" THEN mk_epsilon_closure(delta, moved[Len(from)])
     ELSE moved[Len(from)]

is_deterministic(o) ==
  /\ Cardinality(o.initial.set) = 1
  /\ \A q \in DOMAIN o.delta : \A p \in ElementsOf(o.delta[q]) : Len(p.targets) = 1

(* is_complete counts the symbols of every state it reaches, one of which   *)
(* may not be in the alphabet: then it throws, unless a state before has    *)
(* already answered.                                                        *)
is_complete(o, symbols) ==
  LET search[worklist \in Seq(Nat), processed \in SUBSET Nat] ==
        IF worklist = << >> THEN "yes"
        ELSE LET q == Head(worklist)
                 of_q == SymbolsOf(state_post(o.delta, q))
                 new == SelectSeq(get_successors(state_post(o.delta, q)), LAMBDA t : t \notin processed)
             IN IF ~ (ElementsOf(of_q) \subseteq symbols) THEN "runtime_error"
                ELSE IF Len(of_q) # Cardinality(symbols) THEN "no"
                ELSE search[Tail(worklist) \o new, processed \cup ElementsOf(new)]
  IN search[ascending(o.initial.set), o.initial.set]

(* is_identical, of another object with the same sets of states.            *)
is_identical(o, other) ==
  /\ o.initial.set = other.initial.set /\ o.final.set = other.final.set
  /\ SameTransitions(o.delta, other.delta)

------------------------------------------------------------------------------
States == 0 .. num_of_states(nfa) - 1
Symbols == {k.symbol : k \in Called("add")} \cup {EPSILON}
TargetsFrom(S, symbol) == {m[3] : m \in {d \in Moves : d[1] \in S /\ d[2] = symbol}}

Closed(S, steps) ==
  LET within[n \in 0 .. Cardinality(steps)] ==
        IF n = 0 THEN S
        ELSE LET before == within[n - 1]
             IN before \cup {m[3] : m \in {d \in steps : d[1] \in before}}
  IN within[Cardinality(steps)]
Closure(S) == Closed(S, {m \in Moves : m[2] = EPSILON})

Lists(v, S) == is_sorted(v) /\ ElementsOf(v) = S
Before(m, d) ==
  \/ m[1] < d[1]
  \/ m[1] = d[1] /\ m[2] < d[2]
  \/ m[1] = d[1] /\ m[2] = d[2] /\ m[3] < d[3]
ListsMoves(s, S) == (\A n \in 1 .. Len(s) - 1 : Before(s[n], s[n + 1])) /\ ElementsOf(s) = S
WithSource(q, s) == [n \in DOMAIN s |-> <<q, s[n][1], s[n][2]>>]

TransitionsRead ==
  /\ ListsMoves(transitions(nfa.delta), Moves)
  /\ num_of_transitions(nfa.delta) = Cardinality(Moves)
  /\ Lists(get_used_symbols(nfa.delta), {m[2] : m \in Moves})
  /\ \A q \in States :
       /\ ListsMoves(get_transitions_to(nfa.delta, q), {m \in Moves : m[3] = q})
       /\ \A t \in States :
            /\ ListsMoves(get_transitions_between(nfa.delta, q, t), {m \in Moves : m[1] = q /\ m[3] = t})
            /\ \A a \in Symbols : Contains(nfa.delta, q, a, t) <=> <<q, a, t>> \in Moves

PostsRead ==
  \A q \in States :
    LET here == state_post(nfa.delta, q)
        own == {m \in Moves : m[1] = q}
    IN /\ Lists(get_successors(here), {m[3] : m \in own})
       /\ ListsMoves(WithSource(q, AllMoves(here)), own)
       /\ num_of_moves(here) = Cardinality(own)
       /\ \A a \in Symbols :
            /\ Lists(SuccessorsBy(here, a), TargetsFrom({q}, a))
            /\ epsilon_symbol_posts(here, a, EPSILON) = find(here, a)
            /\ ListsMoves(WithSource(q, moves_epsilons(here, a)), {m \in own : m[2] >= a})
            /\ a < EPSILON => ListsMoves(WithSource(q, moves_symbols(here, a)), {m \in own : m[2] <= a})

VectorsCombine ==
  \A q, t \in DOMAIN nfa.delta :
    LET v == get_successors(nfa.delta[q])
        w == get_successors(nfa.delta[t])
        V == ElementsOf(v)
        W == ElementsOf(w)
        posted == ElementsOf(nfa.delta[q]) \cup ElementsOf(nfa.delta[t])
        vectors == [n \in DOMAIN nfa.delta[q] |-> nfa.delta[q][n].targets]
    IN /\ Lists(set_union(v, w), V \cup W)
       /\ Lists(difference(v, w), V \ W)
       /\ Lists(intersection(v, w), V \cap W)
       /\ is_intersection_empty_with(v, w) <=> V \cap W = {}
       /\ unify_targets(vectors) = v

ReachedFrom(S, steps) == Closed(S, steps)
StatesFound ==
  /\ reachable_states(nfa.delta, nfa.initial.set, States) = ReachedFrom(nfa.initial.set, Moves)
  /\ \A q \in States :
       reachable_states(nfa.delta, nfa.initial.set, States \ {q})
         = ReachedFrom(nfa.initial.set \ {q}, {m \in Moves : m[3] # q})
  /\ get_terminating_states(nfa)
       = ReachedFrom(nfa.final.set, {<<m[3], m[2], m[1]>> : m \in Moves})
  /\ \A q \in States : \A a \in Symbols :
       LET S == {q, 0}
       IN /\ Lists(mk_epsilon_closure(nfa.delta, ascending(S)), Closure(S))
          /\ Lists(post(nfa.delta, ascending(S), a, "None"), TargetsFrom(S, a))
          /\ a # EPSILON =>
               /\ Lists(post(nfa.delta, ascending(S), a, "Before"), TargetsFrom(Closure(S), a))
               /\ Lists(post(nfa.delta, ascending(S), a, "After"), Closure(TargetsFrom(S, a)))
          /\ Lists(post(nfa.delta, ascending(S), EPSILON, "After"), Closure(S))

Reached == ReachedFrom(nfa.initial.set, Moves)
Missing(q, symbols) == {a \in symbols : TargetsFrom({q}, a) = {}}
PropertiesFound ==
  /\ is_deterministic(nfa) <=>
       /\ \E q \in States : nfa.initial.set = {q}
       /\ \A m, d \in Moves : m[1] = d[1] /\ m[2] = d[2] => m = d
  /\ LET used == {m[2] : m \in Moves}
     IN is_complete(nfa, used) = IF \E q \in Reached : Missing(q, used) # {} THEN "no" ELSE "yes"
  /\ ElementsOf(transitions(OneLetter(nfa.delta, 0))) = {<<m[1], 0, m[3]>> : m \in Moves}

(* The same transitions, added one by one to a new object from the last to  *)
(* the first, and the same without the last of them.                        *)
Rebuilt(size) ==
  LET all == transitions(nfa.delta)
  IN [nfa EXCEPT !.delta = WithMoves(<< >>, [n \in 1 .. size |-> all[size + 1 - n]])]
ObjectsCompared ==
  \A size \in 0 .. Cardinality(Moves) :
    is_identical(nfa, Rebuilt(size)) <=> size = Cardinality(Moves)

(* Whatever calls have built the object, every question about it has the    *)
(* answer that its set of transitions and its sets of states give: the      *)
(* iterators over transitions, moves and epsilon moves miss nothing and     *)
(* repeat nothing, binary searches find what is there, and objects with the *)
(* same transitions are identical however they came about.                  *)
QueriesAgree ==
  /\ TransitionsRead /\ PostsRead /\ VectorsCombine
  /\ StatesFound /\ PropertiesFound /\ ObjectsCompared

==============================================================================
