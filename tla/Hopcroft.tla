-------------------------------- MODULE Hopcroft --------------------------------
(***************************************************************************)
(* minimize_hopcroft (src/nfa/operations.cc) for a deterministic automaton *)
(* whose transitions need not be total and whose states are all useful.    *)
(*                                                                         *)
(* brp partitions the states into blocks, trp the transitions into         *)
(* splitters.  A step marks one element, splits one set or takes one       *)
(* element off a stack.                                                    *)
(***************************************************************************)
EXTENDS Automata, SequencesExt

(***************************************************************************)
(* RefinablePartition (src/nfa/operations.cc): a partition of the numbers  *)
(* 0 .. n - 1 whose sets lie contiguously in one vector, the marked        *)
(* elements of a set before the others.  A partition is a record of the    *)
(* members of the class; its vectors are functions on indices from 0.      *)
(***************************************************************************)
no_more_elements == -1

(* The constructor for states: one set, nothing marked.                     *)
OfStates(n) ==
  [num_of_sets |-> 1,
   set_idx |-> [e \in 0 .. n - 1 |-> 0],
   elems |-> [e \in 0 .. n - 1 |-> e], location |-> [e \in 0 .. n - 1 |-> e],
   first |-> [s \in 0 .. n - 1 |-> 0],
   end |-> [s \in 0 .. n - 1 |-> IF s = 0 THEN n ELSE 0],
   mid |-> [s \in 0 .. n - 1 |-> 0]]

(* The constructor for transitions <<source, symbol, target>>: a set for    *)
(* each symbol, by first occurrence, each filled from its back.             *)
OfTransitions(transitions) ==
  LET T == DOMAIN transitions
      Opening(t) == CHOOSE o \in T : /\ transitions[o][2] = transitions[t][2]
                                    /\ \A u \in 0 .. o - 1 : transitions[u][2] # transitions[t][2]
      openings == {t \in T : Opening(t) = t}
      SizeUpTo(s) == Cardinality({t \in T : Cardinality({o \in openings : o < Opening(t)}) < s})
      location == [t \in T |-> Cardinality({u \in T :
                     Opening(u) < Opening(t) \/ (Opening(u) = Opening(t) /\ u > t)})]
      begin == [s \in T |-> IF s < Cardinality(openings) THEN SizeUpTo(s) ELSE 0]
  IN [num_of_sets |-> Cardinality(openings),
      set_idx |-> [t \in T |-> Cardinality({o \in openings : o < Opening(t)})],
      elems |-> [l \in T |-> CHOOSE t \in T : location[t] = l], location |-> location,
      first |-> begin,
      end |-> [s \in T |-> IF s < Cardinality(openings) THEN SizeUpTo(s + 1) ELSE 0],
      mid |-> begin]

size_of_set(P, s) == P.end[s] - P.first[s]
get_first(P, s) == P.elems[P.first[s]]
get_next(P, e) ==
  IF P.location[e] + 1 >= P.end[P.set_idx[e]] THEN no_more_elements
  ELSE P.elems[P.location[e] + 1]
has_no_marks(P, s) == P.mid[s] = P.first[s]

(* mark: an unmarked element trades places with the first unmarked one.     *)
Mark(P, e) ==
  LET s == P.set_idx[e]  l == P.location[e]  m == P.mid[s]
  IN IF l < m THEN P
     ELSE [P EXCEPT !.elems = [@ EXCEPT ![l] = P.elems[m], ![m] = e],
                    !.location = [@ EXCEPT ![P.elems[m]] = l, ![e] = m],
                    !.mid = [@ EXCEPT ![s] = m + 1]]

(* Not the code: a set whose elements are all marked stays marked.          *)
SplitKeepsMarks(P, s) ==
  IF P.mid[s] \in {P.first[s], P.end[s]} THEN P
  ELSE LET new == P.num_of_sets
       IN [P EXCEPT !.num_of_sets = new + 1,
             !.first = [@ EXCEPT ![new] = P.first[s], ![s] = P.mid[s]],
             !.mid = [@ EXCEPT ![new] = P.first[s]],
             !.end = [@ EXCEPT ![new] = P.mid[s]],
             !.set_idx = [e \in DOMAIN @ |->
                IF \E l \in P.first[s] .. P.mid[s] - 1 : P.elems[l] = e THEN new ELSE @[e]]]

(* split: the marked elements become a new set, the last one; if none or    *)
(* all are marked, they only lose their marks.                              *)
Split(P, s) ==
  IF P.mid[s] \in {P.first[s], P.end[s]} THEN [P EXCEPT !.mid = [@ EXCEPT ![s] = P.first[s]]]
  ELSE LET new == P.num_of_sets
       IN [P EXCEPT !.num_of_sets = new + 1,
             !.first = [@ EXCEPT ![new] = P.first[s], ![s] = P.mid[s]],
             !.mid = [@ EXCEPT ![new] = P.first[s]],
             !.end = [@ EXCEPT ![new] = P.mid[s]],
             !.set_idx = [e \in DOMAIN @ |->
                IF \E l \in P.first[s] .. P.mid[s] - 1 : P.elems[l] = e THEN new ELSE @[e]]]

------------------------------------------------------------------------------
(* What the class promises of its vectors: elems and location are inverse   *)
(* to each other, a set is what lies between its first and its end, and its *)
(* middle is there, too.                                                    *)
Consistent(P) ==
  LET E == DOMAIN P.set_idx
  IN /\ \A e \in E : P.location[e] \in E /\ P.elems[P.location[e]] = e
     /\ \A l \in E : P.elems[l] \in E /\ P.location[P.elems[l]] = l
     /\ \A s \in 0 .. P.num_of_sets - 1 :
          /\ 0 <= P.first[s] /\ P.first[s] <= P.mid[s] /\ P.mid[s] <= P.end[s]
          /\ P.first[s] < P.end[s] /\ P.end[s] <= Cardinality(E)
     /\ \A e \in E : \A s \in 0 .. P.num_of_sets - 1 :
          P.set_idx[e] = s <=> P.first[s] <= P.location[e] /\ P.location[e] < P.end[s]

(***************************************************************************)
(* minimize_hopcroft.                                                      *)
(***************************************************************************)
CONSTANT Dfas    \* the automata to minimize

(* What the function asserts of its argument: there is one initial state,   *)
(* no state has two moves over one symbol, and all states are useful, that  *)
(* is every set of states that holds the initial (final) states and all     *)
(* states after (before) its own holds all.  The automaton that trim makes  *)
(* of one that accepts nothing has no states at all.                        *)
IsTrimmedDfa(A) ==
  /\ IsAutomaton(A, Nat) /\ Numbered(A) /\ IsFiniteSet(A.delta)
  /\ \A p, q \in A.initial : p = q
  /\ \A m, k \in A.delta : m[1] = k[1] /\ m[2] = k[2] => m = k
  /\ \A S \in SUBSET A.states :
       /\ A.initial \subseteq S /\ (\A m \in A.delta : m[1] \in S => m[3] \in S) => S = A.states
       /\ A.final \subseteq S /\ (\A m \in A.delta : m[3] \in S => m[1] \in S) => S = A.states

ASSUME DfasAssumption == \A A \in Dfas : IsTrimmedDfa(A)

VARIABLES
  dfa_trimmed,
  transitions,      \* of the automaton, by index
  brp, trp,
  unready_splitters, touched_blocks, touched_splitters,   \* stacks
  finals_left,      \* the final states still to be marked
  firing,           \* the transition to fire back
  marking,          \* the state whose incoming transitions are marked
  incoming_left,    \* those still to be marked
  at,               \* "called", "finals", "fire", "blocks", "mark", "splitters", "done"
  result

input == <<dfa_trimmed, transitions>>
vars == <<input, brp, trp, unready_splitters, touched_blocks, touched_splitters,
          finals_left, firing, marking, incoming_left, at, result>>

LowestOf(S) == CHOOSE x \in S : \A y \in S : x <= y

(* Delta::transitions(): by source, symbol and target.                      *)
TransitionBefore(m, n) ==
  m[1] < n[1] \/ (m[1] = n[1] /\ (m[2] < n[2] \/ (m[2] = n[2] /\ m[3] < n[3])))
Transitions(A) ==
  [n \in 0 .. Cardinality(A.delta) - 1 |->
     CHOOSE m \in A.delta : Cardinality({k \in A.delta : TransitionBefore(k, m)}) = n]

incoming_trans_idxs(q) == {t \in DOMAIN transitions : transitions[t][3] = q}

Init ==
  /\ dfa_trimmed \in Dfas
  /\ transitions = Transitions(dfa_trimmed)
  /\ brp = OfStates(Cardinality(dfa_trimmed.states))
  /\ trp = OfTransitions(transitions)
  /\ unready_splitters = << >> /\ touched_blocks = << >> /\ touched_splitters = << >>
  /\ finals_left = {} /\ firing = no_more_elements
  /\ marking = no_more_elements /\ incoming_left = {}
  /\ at = "called" /\ result = dfa_trimmed

(* No transitions: the automaton is minimal as it is.                       *)
ReturnCopy ==
  /\ at = "called" /\ dfa_trimmed.delta = {}
  /\ at' = "done"
  /\ UNCHANGED <<input, brp, trp, unready_splitters, touched_blocks,
                 touched_splitters, finals_left, firing, marking, incoming_left, result>>

(* Every splitter is to be used; the last is on top.                        *)
Start ==
  /\ at = "called" /\ dfa_trimmed.delta # {}
  /\ unready_splitters' = [n \in 1 .. trp.num_of_sets |-> n - 1]
  /\ finals_left' = dfa_trimmed.final
  /\ at' = "finals"
  /\ UNCHANGED <<input, brp, trp, touched_blocks, touched_splitters, firing,
                 marking, incoming_left, result>>

(* brp.mark of each final state, in the order of the set, then split_block. *)
MarkFinal ==
  /\ at = "finals"
  /\ IF finals_left = {}
       THEN at' = "blocks" /\ touched_blocks' = <<0>> /\ UNCHANGED <<brp, finals_left>>
       ELSE /\ \E q \in finals_left :
                 brp' = Mark(brp, q) /\ finals_left' = finals_left \ {q}
            /\ UNCHANGED <<at, touched_blocks>>
  /\ UNCHANGED <<input, trp, unready_splitters, touched_splitters, firing, marking,
                 incoming_left, result>>

(* Not the code: the splitter stays on the stack.                           *)
TakeButKeep ==
  /\ at = "blocks" /\ touched_blocks = << >> /\ unready_splitters # << >>
  /\ firing' = get_first(trp, Last(unready_splitters))
  /\ at' = "fire"
  /\ UNCHANGED <<input, brp, trp, unready_splitters, touched_blocks,
                 touched_splitters, finals_left, marking, incoming_left, result>>

TakeSplitter ==
  /\ at = "blocks" /\ touched_blocks = << >> /\ unready_splitters # << >>
  /\ unready_splitters' = Front(unready_splitters)
  /\ firing' = get_first(trp, Last(unready_splitters))
  /\ at' = "fire"
  /\ UNCHANGED <<input, brp, trp, touched_blocks, touched_splitters, finals_left,
                 marking, incoming_left, result>>

(* The source of one transition of the splitter.                            *)
FireBack ==
  /\ at = "fire"
  /\ LET q == transitions[firing][1]
         b == brp.set_idx[q]
     IN /\ touched_blocks' = IF has_no_marks(brp, b) THEN Append(touched_blocks, b)
                                                     ELSE touched_blocks
        /\ brp' = Mark(brp, q)
  /\ firing' = get_next(trp, firing)
  /\ at' = IF firing' = no_more_elements THEN "blocks" ELSE at
  /\ UNCHANGED <<input, trp, unready_splitters, touched_splitters, finals_left,
                 marking, incoming_left, result>>

(* split_block: the smaller half becomes the one to work with.              *)
SplitBlock ==
  /\ at = "blocks" /\ touched_blocks # << >>
  /\ touched_blocks' = Front(touched_blocks)
  /\ LET b == Last(touched_blocks)
         new == brp.num_of_sets
     IN /\ brp' = Split(brp, b)
        /\ IF brp'.num_of_sets = new THEN UNCHANGED <<marking, incoming_left, at>>
           ELSE /\ marking' = get_first(brp', IF size_of_set(brp', b) < size_of_set(brp', new)
                                                THEN b ELSE new)
                /\ incoming_left' = incoming_trans_idxs(marking')
                /\ at' = "mark"
  /\ UNCHANGED <<input, trp, unready_splitters, touched_splitters, finals_left,
                 firing, result>>

(* One transition into the half, or the next state of it.                   *)
MarkIncoming ==
  /\ at = "mark" /\ incoming_left # {}
  /\ LET t == LowestOf(incoming_left)
         s == trp.set_idx[t]
     IN /\ touched_splitters' = IF has_no_marks(trp, s) THEN Append(touched_splitters, s)
                                                        ELSE touched_splitters
        /\ trp' = Mark(trp, t)
        /\ incoming_left' = incoming_left \ {t}
  /\ UNCHANGED <<input, brp, unready_splitters, touched_blocks, finals_left, firing,
                 marking, at, result>>

NextState ==
  /\ at = "mark" /\ incoming_left = {}
  /\ marking' = get_next(brp, marking)
  /\ IF marking' = no_more_elements THEN at' = "splitters" /\ UNCHANGED incoming_left
     ELSE incoming_left' = incoming_trans_idxs(marking') /\ UNCHANGED at
  /\ UNCHANGED <<input, brp, trp, unready_splitters, touched_blocks,
                 touched_splitters, finals_left, firing, result>>

(* Not the code: the half that keeps its name is pushed, not the new one.   *)
PushedOld(new_num_of_sets) ==
  IF new_num_of_sets = trp.num_of_sets THEN unready_splitters
  ELSE Append(unready_splitters, Last(touched_splitters))

(* The new splitter, if there is one, goes on the stack.                    *)
Pushed(new_num_of_sets) ==
  IF new_num_of_sets = trp.num_of_sets THEN unready_splitters
  ELSE Append(unready_splitters, trp.num_of_sets)

SplitSplitter ==
  /\ at = "splitters"
  /\ IF touched_splitters = << >>
       THEN at' = "blocks" /\ UNCHANGED <<touched_splitters, trp, unready_splitters>>
       ELSE /\ touched_splitters' = Front(touched_splitters)
            /\ trp' = Split(trp, Last(touched_splitters))
            /\ unready_splitters' = Pushed(trp'.num_of_sets)
            /\ UNCHANGED at
  /\ UNCHANGED <<input, brp, touched_blocks, finals_left, firing, marking,
                 incoming_left, result>>

(* A block has the transitions of its first state, between blocks.          *)
Construct ==
  /\ at = "blocks" /\ touched_blocks = << >> /\ unready_splitters = << >>
  /\ at' = "done"
  /\ result' =
       LET Blocks == 0 .. brp.num_of_sets - 1
       IN [states |-> Blocks,
           initial |-> {brp.set_idx[q] : q \in dfa_trimmed.initial},
           final |-> {b \in Blocks : get_first(brp, b) \in dfa_trimmed.final},
           delta |-> UNION {{<<b, m[2], brp.set_idx[m[3]]>> :
                               m \in {k \in dfa_trimmed.delta : k[1] = get_first(brp, b)}} :
                              b \in Blocks}]
  /\ UNCHANGED <<input, brp, trp, unready_splitters, touched_blocks,
                 touched_splitters, finals_left, firing, marking, incoming_left>>

Next ==
  \/ ReturnCopy \/ Start \/ MarkFinal \/ TakeSplitter \/ FireBack \/ SplitBlock
  \/ MarkIncoming \/ NextState \/ SplitSplitter \/ Construct

Spec == Init /\ [][Next]_vars /\ WF_vars(Next)

------------------------------------------------------------------------------
(* Both vectors of the two partitions stay permutations, inverse to each    *)
(* other, and cut into sets that are not empty.                             *)
PartitionsConsistent == Consistent(brp) /\ Consistent(trp)

(* Whenever a block is about to be split, a splitter is all the transitions *)
(* over one symbol into one block; what has marks is on its stack, once,    *)
(* and nothing else: a leftover mark would hide a set from the next split.  *)
Waiting(P, stack) ==
  /\ Cardinality(ToSet(stack)) = Len(stack)
  /\ ToSet(stack) = {s \in 0 .. P.num_of_sets - 1 : ~has_no_marks(P, s)}

SplittersFollowBlocks ==
  /\ at = "blocks" =>
       \A t, u \in DOMAIN transitions :
         trp.set_idx[t] = trp.set_idx[u] <=>
           /\ transitions[t][2] = transitions[u][2]
           /\ brp.set_idx[transitions[t][3]] = brp.set_idx[transitions[u][3]]
  /\ at \in {"fire", "blocks"} => Waiting(trp, << >>)
  /\ at \in {"mark", "splitters"} => Waiting(trp, touched_splitters)
  /\ at # "finals" => Waiting(brp, touched_blocks)

(* The vectors stay consistent while they are permuted in place, and the    *)
(* partition of transitions follows that of states.  They are used only for *)
(* an automaton that has transitions.                                       *)
PartitionsInStep == dfa_trimmed.delta # {} => PartitionsConsistent /\ SplittersFollowBlocks

(* The words over the symbols of the automaton that A accepts from S, long  *)
(* enough to tell any two states apart.                                     *)
Symbols == {m[2] : m \in dfa_trimmed.delta}
AcceptedFrom(A, S) ==
  {w \in WordsUpTo(Symbols, Cardinality(dfa_trimmed.states)) :
     Accepts([states |-> A.states, initial |-> S, final |-> A.final, delta |-> A.delta], w)}

(* The result is deterministic, accepts the same language, and no two of    *)
(* its states accept the same, so that it has as few as can be.             *)
MinimizedIsRight ==
  at = "done" =>
    /\ AcceptedFrom(result, result.initial) = AcceptedFrom(dfa_trimmed, dfa_trimmed.initial)
    /\ \A m, k \in result.delta : m[1] = k[1] /\ m[2] = k[2] => m = k
    /\ Cardinality({AcceptedFrom(result, {q}) : q \in result.states})
         = Cardinality(result.states)

(* Liveness: every splitter is used up.                                     *)
HopcroftEnds == <>(at = "done")

==============================================================================
