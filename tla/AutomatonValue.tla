----------------------------- MODULE AutomatonValue -----------------------------
(***************************************************************************)
(* What an automaton object (mata::nfa::Nfa, include/mata/nfa/nfa.hh) is   *)
(* to its users: a set of transitions, two sets of states, and a number    *)
(* that is larger than every state in use.  AutomatonObject, with its      *)
(* vectors and the lengths they have grown to, implements it, with one     *)
(* exception that it names (ClearKeepsDomains).                            *)
(*                                                                         *)
(* The users make calls and get answers; what a call does to the automaton *)
(* is all the object promises.                                             *)
(***************************************************************************)
EXTENDS Integers, Sequences, FiniteSets

CONSTANTS
  Calls     \* records with the name op of the operation and its arguments

VARIABLES
  moves, initial, final,
  states,   \* the states are the numbers below it
  call, answer

value == <<moves, initial, final, states>>
vars == <<value, call, answer>>

Larger(k, n) == IF k < n THEN n ELSE k
NoCall == [op |-> "none"]

Init ==
  /\ moves = {} /\ initial = {} /\ final = {} /\ states = 0
  /\ call = NoCall /\ answer = "done"

Called(op) == {k \in Calls : k.op = op}
Made(k, result) == call' = k /\ answer' = result

------------------------------------------------------------------------------
AddState ==
  \E k \in Called("add_state") :
    /\ states' = states + 1
    /\ Made(k, states) /\ UNCHANGED <<moves, initial, final>>

AddStateNumber ==
  \E k \in Called("add_state_of_number") :
    /\ states' = Larger(states, k.state + 1)
    /\ Made(k, k.state) /\ UNCHANGED <<moves, initial, final>>

(* No target, no state: a call with an empty set does nothing at all.       *)
Add ==
  \E k \in Called("add") :
    /\ moves' = moves \cup ({k.source} \X {k.symbol} \X k.targets)
    /\ IF k.targets = {} THEN states' = states
       ELSE \E last \in k.targets \cup {k.source} :
              /\ \A q \in k.targets \cup {k.source} : q <= last
              /\ states' = Larger(states, last + 1)
    /\ Made(k, "done") /\ UNCHANGED <<initial, final>>

(* A transition that is not there may be reported, or not.                  *)
Remove ==
  \E k \in Called("remove") :
    LET move == <<k.source, k.symbol, k.target>>
    IN /\ moves' = moves \ {move}
       /\ \/ Made(k, "done")
          \/ move \notin moves /\ Made(k, "invalid_argument")
       /\ UNCHANGED <<initial, final, states>>

(* A word is spelled over states that are new.                              *)
SpelledOver(word, path) == {<<path[n], word[n], path[n + 1]>> : n \in DOMAIN word}
InsertWord ==
  \E k \in Called("insert_word") :
    LET inner == Len(k.word) - 1
        path == [n \in 1 .. inner + 2 |-> IF n = 1 THEN k.source
                                          ELSE IF n = inner + 2 THEN k.target ELSE states + n - 2]
    IN /\ k.source < states /\ k.target < states
       /\ moves' = moves \cup SpelledOver(k.word, path)
       /\ states' = states + inner
       /\ Made(k, k.target) /\ UNCHANGED <<initial, final>>

(* The target is created first, and then the states in between.             *)
InsertWordToNew ==
  \E k \in Called("insert_word_to_new_state") :
    LET inner == Len(k.word) - 1
        path == [n \in 1 .. inner + 2 |-> IF n = 1 THEN k.source
                                          ELSE IF n = inner + 2 THEN states ELSE states + n - 1]
    IN /\ k.source < states
       /\ moves' = moves \cup SpelledOver(k.word, path)
       /\ states' = states + Len(k.word)
       /\ Made(k, states) /\ UNCHANGED <<initial, final>>

InsertInitial ==
  \E k \in Called("initial_insert") :
    /\ initial' = initial \cup {k.state} /\ states' = Larger(states, k.state + 1)
    /\ Made(k, "done") /\ UNCHANGED <<moves, final>>

InsertFinal ==
  \E k \in Called("final_insert") :
    /\ final' = final \cup {k.state} /\ states' = Larger(states, k.state + 1)
    /\ Made(k, "done") /\ UNCHANGED <<moves, initial>>

EraseFinal ==
  \E k \in Called("final_erase") :
    final' = final \ {k.state} /\ Made(k, "done") /\ UNCHANGED <<moves, initial, states>>

SwapFinalNonfinal ==
  \E k \in Called("swap_final_nonfinal") :
    /\ final' = (0 .. states - 1) \ final
    /\ Made(k, "done") /\ UNCHANGED <<moves, initial, states>>

(* What is cleared, or moved from, is blank: no state is left either.       *)
Emptied(k) ==
  /\ moves' = {} /\ initial' = {} /\ final' = {} /\ states' = 0
  /\ Made(k, "done")
Clear == \E k \in Called("clear") : Emptied(k)
MoveAway == \E k \in Called("move") : Emptied(k)

UnifyInitial ==
  \E k \in Called("unify_initial") :
    /\ IF ~ k.force /\ Cardinality(initial) <= 1 THEN UNCHANGED value
       ELSE /\ states' = states + 1 /\ initial' = {states}
            /\ moves' = moves \cup {<<states, m[2], m[3]>> : m \in {d \in moves : d[1] \in initial}}
            /\ final' = final \cup (IF initial \cap final = {} THEN {} ELSE {states})
    /\ Made(k, "done")

UnifyFinal ==
  \E k \in Called("unify_final") :
    /\ IF ~ k.force /\ Cardinality(final) <= 1 THEN UNCHANGED value
       ELSE /\ states' = states + 1 /\ final' = {states}
            /\ moves' = moves \cup {<<m[1], m[2], states>> : m \in {d \in moves : d[3] \in final}}
            /\ initial' = initial \cup (IF initial \cap final = {} THEN {} ELSE {states})
    /\ Made(k, "done")

Next ==
  \/ AddState \/ AddStateNumber \/ Add \/ Remove \/ InsertWord \/ InsertWordToNew
  \/ InsertInitial \/ InsertFinal \/ EraseFinal \/ SwapFinalNonfinal
  \/ Clear \/ MoveAway \/ UnifyInitial \/ UnifyFinal

Spec == Init /\ [][Next]_vars

------------------------------------------------------------------------------
Used == initial \cup final \cup UNION {{m[1], m[3]} : m \in moves}

(* What the arguments of the calls are.                                     *)
CallsTyped ==
  \A k \in Calls :
    /\ k.op \in {"add_state_of_number", "initial_insert", "final_insert", "final_erase"} => k.state \in Nat
    /\ k.op = "add" =>
         k.source \in Nat /\ k.symbol \in Nat /\ k.targets \subseteq Nat /\ IsFiniteSet(k.targets)
    /\ k.op = "remove" => k.source \in Nat /\ k.symbol \in Nat /\ k.target \in Nat
    /\ k.op \in {"insert_word", "insert_word_to_new_state"} =>
         k.source \in Nat /\ k.word \in Seq(Nat) /\ k.word # << >>
    /\ k.op = "insert_word" => k.target \in Nat

(* Every state that is used, in whatever order the calls came, is below the *)
(* number of states that num_of_states() gives: the algorithms size their   *)
(* arrays by it and index them by the states they find.                     *)
StatesCoverUse == states \in Nat /\ \A q \in Used : q \in Nat /\ q < states

(* The state that add_state returns is used nowhere, so that what is added  *)
(* to it belongs to the caller alone.                                       *)
NewStateIsUnused == [][AddState => answer' \notin Used]_vars

==============================================================================
