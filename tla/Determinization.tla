---------------------------- MODULE Determinization ----------------------------
(***************************************************************************)
(* mata::nfa::determinize (src/nfa/operations.cc): the subset construction *)
(* with its map of macrostates, its stack of macrostates to expand and the *)
(* callback macrostate_discover, which may end the construction early.     *)
(*                                                                         *)
(* A step takes a macrostate off the stack or handles one symbol.  The     *)
(* existential iterator of SyncIterators yields the symbols in ascending   *)
(* order; unify_targets is the union of the posts.                         *)
(***************************************************************************)
EXTENDS Automata, FiniteSets, SequencesExt

VARIABLES
  original,         \* aut
  may_stop,         \* macrostate_discover is given and may return false
  subset_map,       \* macrostate |-> state of the result
  macro_worklist,   \* a stack of <<state of the result, macrostate>>
  macro_delta, macro_final,   \* of the result; its only initial state is 0
  expanding,        \* the pair taken off the stack, << >> between two
  symbols_left,     \* of the symbols that can be read from it
  det_at            \* "first", "loop", "done", "stopped"

detvars == <<original, may_stop, subset_map, macro_worklist, macro_delta,
             macro_final, expanding, symbols_left, det_at>>

LeastOf(S) == CHOOSE v \in S : \A w \in S : v <= w
num_of_macrostates == Cardinality(DOMAIN subset_map)

(* The variables when determinize is called on A.                           *)
DetCalled(A, stop) ==
  /\ original = A /\ may_stop = stop
  /\ subset_map = [S \in {A.initial} |-> 0]
  /\ macro_worklist = <<<<0, A.initial>>>>
  /\ macro_delta = {}
  /\ macro_final = IF A.initial \cap A.final # {} THEN {0} ELSE {}
  /\ expanding = << >> /\ symbols_left = {}
  /\ det_at = "first"

(* Nothing to expand, or the callback refuses the first macrostate.         *)
DetFirst ==
  /\ det_at = "first"
  /\ IF original.delta = {} THEN det_at' = "done"
     ELSE \E stop \in {FALSE, may_stop} :
            det_at' = IF stop THEN "stopped" ELSE "loop"
  /\ UNCHANGED <<original, may_stop, subset_map, macro_worklist, macro_delta,
                 macro_final, expanding, symbols_left>>

(* An empty macrostate breaks the loop; only the initial one can be empty.  *)
DetPop ==
  /\ det_at = "loop" /\ symbols_left = {} /\ macro_worklist # << >>
  /\ expanding' = Last(macro_worklist)
  /\ macro_worklist' = Front(macro_worklist)
  /\ symbols_left' = {m[2] : m \in {n \in original.delta : n[1] \in expanding'[2]}}
  /\ det_at' = IF expanding'[2] = {} THEN "done" ELSE det_at
  /\ UNCHANGED <<original, may_stop, subset_map, macro_delta, macro_final>>

(* One symbol: find or make the macrostate of the targets.                  *)
DetSymbol ==
  /\ det_at = "loop" /\ symbols_left # {}
  /\ LET a == LeastOf(symbols_left)
         targets == Post(original, expanding[2], a)
         is_new == targets \notin DOMAIN subset_map
         target_res == IF is_new THEN num_of_macrostates ELSE subset_map[targets]
     IN /\ symbols_left' = symbols_left \ {a}
        /\ macro_delta' = macro_delta \cup {<<expanding[1], a, target_res>>}
        /\ IF is_new
             THEN /\ subset_map' = [S \in DOMAIN subset_map \cup {targets} |->
                                      IF S = targets THEN target_res ELSE subset_map[S]]
                  /\ macro_final' = IF targets \cap original.final = {} THEN macro_final
                                    ELSE macro_final \cup {target_res}
                  /\ macro_worklist' = Append(macro_worklist, <<target_res, targets>>)
                  /\ \E stop \in {FALSE, may_stop} :
                       det_at' = IF stop THEN "stopped" ELSE "loop"
             ELSE UNCHANGED <<subset_map, macro_final, macro_worklist, det_at>>
  /\ UNCHANGED <<original, may_stop, expanding>>

DetFinish ==
  /\ det_at = "loop" /\ symbols_left = {} /\ macro_worklist = << >>
  /\ det_at' = "done"
  /\ UNCHANGED <<original, may_stop, subset_map, macro_worklist, macro_delta,
                 macro_final, expanding, symbols_left>>

DetNext == DetFirst \/ DetPop \/ DetSymbol \/ DetFinish

Determinized ==
  [states |-> 0 .. num_of_macrostates - 1, initial |-> {0}, final |-> macro_final,
   delta |-> macro_delta]

------------------------------------------------------------------------------
(* The macrostates that can be reached, by words as long as there are sets. *)
Macrostates ==
  LET within[n \in 0 .. 2 ^ Cardinality(original.states)] ==
        IF n = 0 THEN {original.initial}
        ELSE LET before == within[n - 1]
             IN before \cup
                ({Post(original, S, a) : S \in before,
                                         a \in {m[2] : m \in original.delta}} \ {{}})
  IN within[2 ^ Cardinality(original.states)]

(* Macrostates and states of the result correspond one to one; no state is  *)
(* expanded twice; and whether the construction has ended, has been stopped *)
(* or is under way, each transition and final state is that of the subset   *)
(* automaton.  At the end all of it is there.                               *)
SubsetConstruction ==
  /\ {subset_map[S] : S \in DOMAIN subset_map} = 0 .. num_of_macrostates - 1
  /\ \A k, l \in 1 .. Len(macro_worklist) : k # l => macro_worklist[k] # macro_worklist[l]
  /\ \A k \in 1 .. Len(macro_worklist) :
       /\ macro_worklist[k][1] = subset_map[macro_worklist[k][2]]
       /\ \A m \in macro_delta : m[1] # macro_worklist[k][1]
  /\ LET exact == {m \in (DOMAIN subset_map) \X {k[2] : k \in original.delta} \X
                          (DOMAIN subset_map) :
                     m[3] # {} /\ m[3] = Post(original, m[1], m[2])}
     IN /\ macro_delta \subseteq {<<subset_map[m[1]], m[2], subset_map[m[3]]>> : m \in exact}
        /\ det_at = "done" =>
             /\ DOMAIN subset_map = Macrostates
             /\ macro_delta = {<<subset_map[m[1]], m[2], subset_map[m[3]]>> : m \in exact}
  /\ macro_final = {subset_map[S] : S \in {T \in DOMAIN subset_map : T \cap original.final # {}}}

==============================================================================
