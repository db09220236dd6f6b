--------------------------- MODULE MCAutomatonCalls ---------------------------
(***************************************************************************)
(* AutomatonCalls for TLC.  Jobs: automata of two states with few          *)
(* transitions, of which some are empty or accept the empty word; epsilons *)
(* are removed from automata of three states, in which they may form       *)
(* cycles.  Calls: on those results, and on automata that are given.       *)
(*                                                                         *)
(* Beside them a SparseSet, the container of initial and of final states,  *)
(* with all its calls; the two never move together.                        *)
(***************************************************************************)
EXTENDS AutomatonCalls, SparseSet, TLC

CONSTANTS MaxMoves, MaxMovesEpsilon, MaxPower

Silent == 9

Deltas(Q, S, max) == UNION {kSubset(k, Q \X S \X Q) : k \in 0 .. max}

Automata2(S, max) ==
  {[states |-> {0, 1}, initial |-> I, final |-> F, delta |-> D] :
     I \in {{}, {0}, {0, 1}}, F \in {{1}, {0, 1}}, D \in Deltas({0, 1}, S, max)}

(* The states of the longer ones are met in order.                          *)
Automata3(S, max) ==
  {[states |-> 0 .. 2, initial |-> {0}, final |-> F, delta |-> D] :
     F \in {{2}, {1, 2}}, D \in Deltas(0 .. 2, S, max)}

Job(ops, L, R, powers) == [op : ops, lhs : L, rhs : R, power : powers, calls : {"none"}]
Asked(calls, L, R) == [op : {"given"}, lhs : L, rhs : R, power : {0}, calls : {calls}]

BinaryOps == {"concatenate", "concatenate_eps", "unite"}

One == Automata2({0}, 2)
Fixed == [states |-> {0, 1}, initial |-> {0}, final |-> {1}, delta |-> {<<0, 0, 1>>}]

CombinedJobs ==
  Job(BinaryOps, One, One, {0})
  \cup Job(BinaryOps, Automata2({0, 1, Silent}, 2), {Fixed}, {0})
  \cup Job(BinaryOps, {Fixed}, Automata2({0, 1, Silent}, 2), {0})
  \cup Job({"concatenate itself", "unite itself", "power"}, Automata2({0, 1}, MaxMoves), {Fixed},
           0 .. MaxPower)
  \cup Job({"remove_epsilon"}, Automata3({0, Silent}, MaxMovesEpsilon), {Fixed}, {0})

(* Reachable, and each with a way to a final state or none at all.          *)
Tidy(S) == {A \in S : Trimmed(A) = A}
Few == Tidy({A \in Automata3({0, 1}, 4) : \E m \in A.delta : m[3] = 2})

Excluded ==
  {[states |-> {0, 1}, initial |-> {0}, final |-> {1}, delta |-> {<<0, 0, 1>>, <<1, 1, 1>>}],
   [states |-> {0, 1}, initial |-> {0, 1}, final |-> {0}, delta |-> {<<0, 1, 1>>, <<1, 0, 0>>}]}

WordJobs ==
  Asked("words", Automata2({0, 1}, 4), Excluded) \cup Asked("words", Automata3({0, 1}, 3), {Fixed})
SilentJobs == Asked("silent", Automata3({0, Silent}, 3), {Fixed})
TurnedJobs == Asked("turned", Few, {EmptyNfa})

(* A chain of states for the sides of equations.                            *)
Side ==
  {[states |-> {0, 1}, initial |-> {0}, final |-> F, delta |-> D] :
     F \in {{1}, {0, 1}}, D \in Deltas({0, 1}, {0, 1}, 2)}
EquationJobs == Asked("equations", Tidy(Side), Tidy(Side))

MCJobs == CombinedJobs \cup WordJobs \cup SilentJobs \cup TurnedJobs \cup EquationJobs

WordCalls ==
  [op : {"get_words"}, max_length : {0, 3}]
  \cup [op : {"get_word", "get_shortest_word"}, first_epsilon : {Silent}]
PlainCalls ==
  [op : {"get_word_from_complement"}, symbols : {{0, 1}, {0, 1, 2}}]
  \cup [op : {"lang_difference", "get_word_from_lang_difference", "get_shortest_words",
              "get_word_lengths", "get_accepted_symbols", "is_lang_eps"}]
TurningCalls ==
  [op : {"fragile_revert", "simple_revert", "reduce_simulation"}]
  \cup [op : {"unify_initial", "unify_final"}, force : BOOLEAN]
EquationCalls ==
  {[op |-> "noodlify_for_equation", lhs |-> l, rhs |-> <<"base">>, unify |-> u,
    reduce |-> IF u THEN "forward" ELSE "false"] :
     l \in {<<"result", "base">>, <<"result", "result">>}, u \in BOOLEAN}
  \cup {[op |-> "noodlify_for_equation of sequences", lhs |-> l, rhs |-> r,
         reduce |-> IF Len(l) = Len(r) THEN "false" ELSE "backward"] :
          l \in {<<"result", "base">>, <<"base">>}, r \in {<<"base">>, <<"base", "result">>}}

MCCallsOn(j) ==
  CASE j.calls = "words" -> WordCalls \cup PlainCalls
    [] j.calls = "silent" -> [op : {"get_word", "get_shortest_word"}, first_epsilon : {Silent}]
    [] j.calls = "turned" -> TurningCalls
    [] j.calls = "equations" -> EquationCalls
    [] OTHER -> {}

------------------------------------------------------------------------------
(* While the set is changed there is no job, and the reverse.               *)
NoJob == CHOOSE j \in Asked("none", {NoAutomaton}, {NoAutomaton}) : TRUE

NoJobYet ==
  /\ job = NoJob
  /\ objects = [result |-> NoAutomaton, base |-> NoAutomaton]
  /\ this = "result" /\ aut = "base" /\ return_to = "done"
  /\ n = 0 /\ aut_initial = {} /\ aut_final = {} /\ new_fin = {} /\ left = {} /\ power = 0
  /\ epsilon_closure = << >> /\ closing = 0 /\ changed = FALSE /\ at = "done"
  /\ reply = <<NoCall, {}>>

MCInit == (CallsInit /\ Init /\ len = 0) \/ (Init /\ NoJobYet)
MCNext == (CallsNext /\ UNCHANGED vars) \/ (job = NoJob /\ Next /\ UNCHANGED callsvars)
MCSpec ==
  MCInit /\ [][MCNext]_<<callsvars, vars>> /\ WF_combinevars(Build) /\ WF_vars(LoopStep)

==============================================================================
