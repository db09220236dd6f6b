----------------------------- MODULE MCAutomatonObject -----------------------------
(* One object, three symbols of which the last is EPSILON, and calls whose  *)
(* arguments meet: transitions that share a state, a symbol or a target,    *)
(* are added out of order, and taken away again.                            *)
EXTENDS AutomatonObject

CONSTANT MaxCalls   \* bound: this many calls are made

VARIABLE made

MCCalls ==
  {[op |-> "add", source |-> m[1], symbol |-> m[2], targets |-> m[3]] :
     m \in {<<1, 1, {0}>>, <<0, 0, {0, 2}>>, <<0, 2, {1}>>, <<1, 1, {2}>>, <<0, 1, {}>>}}
  \cup {[op |-> "remove", source |-> m[1], symbol |-> m[2], target |-> m[3]] :
     m \in {<<1, 1, 0>>, <<0, 0, 0>>, <<0, 2, 1>>}}
  \cup {[op |-> "insert_word", source |-> 1, word |-> w, target |-> 0] : w \in {<<1>>, <<0, 2>>}}
  \cup {[op |-> "insert_word_to_new_state", source |-> 0, word |-> <<1, 0>>]}
  \cup {[op |-> "add_state_of_number", state |-> 1]}
  \cup {[op |-> op, state |-> q] : op \in {"initial_insert", "final_insert"}, q \in {0, 2}}
  \cup {[op |-> "final_erase", state |-> 2]}
  \cup {[op |-> op] : op \in {"add_state", "swap_final_nonfinal", "clear", "move"}}
  \cup {[op |-> op, force |-> f] : op \in {"unify_initial", "unify_final"}, f \in BOOLEAN}

(* The theorems about AutomatonObject assume this of the calls.            *)
ASSUME CallsAssumption == Value!CallsTyped

MCInit == Init /\ made = 0
MCNext == made < MaxCalls /\ Next /\ made' = made + 1
MCSpec == MCInit /\ [][MCNext]_<<vars, made>>

==============================================================================
