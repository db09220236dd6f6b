---------------------------- MODULE EmptinessSearch ----------------------------
(***************************************************************************)
(* Nfa::is_lang_empty with a counterexample (src/nfa/operations.cc): a     *)
(* breadth-first search from the initial states, the way back through the  *)
(* map of paths from the first final state, and get_word_for_path.         *)
(*                                                                         *)
(* A step takes a state from the list, looks at one target or goes one     *)
(* state back.                                                             *)
(***************************************************************************)
EXTENDS Automata, FiniteSets, SequencesExt

VARIABLES
  searched,        \* *this
  list,            \* the worklist
  came_from,       \* paths: state |-> state it was reached from
  source,          \* the state taken from the list
  targets_left,    \* of its transitions, those still to be looked at
  walking,         \* the state where the way back is
  found_run,       \* *cex: [word, path]
  empty_at,        \* "called", "search", "back", "done"
  empty_result     \* what is_lang_empty returned

emptyvars == <<searched, list, came_from, source, targets_left, walking, found_run,
               empty_at, empty_result>>

(* The variables when is_lang_empty is called on A with a Run that holds r. *)
EmptyCalled(A, r) ==
  /\ searched = A
  /\ list = << >> /\ came_from = [q \in A.initial |-> q]
  /\ source = 0 /\ targets_left = {} /\ walking = 0
  /\ found_run = r /\ empty_at = "called" /\ empty_result = FALSE

(* The initial states enter the list in any order.                          *)
EnterInitial ==
  /\ empty_at = "called"
  /\ IF ToSet(list) = searched.initial
       THEN empty_at' = "search" /\ UNCHANGED list
       ELSE \E q \in searched.initial \ ToSet(list) :
              list' = Append(list, q) /\ UNCHANGED empty_at
  /\ UNCHANGED <<searched, came_from, source, targets_left, walking, found_run,
                 empty_result>>

(* The first final state ends the search and starts the path.               *)
TakeState ==
  /\ empty_at = "search" /\ targets_left = {} /\ list # << >>
  /\ list' = Tail(list)
  /\ source' = Head(list)
  /\ IF Head(list) \in searched.final
       THEN /\ empty_at' = "back" /\ walking' = Head(list)
            /\ found_run' = [found_run EXCEPT !.path = <<Head(list)>>]
            /\ UNCHANGED targets_left
       ELSE /\ targets_left' = {m \in searched.delta : m[1] = Head(list)}
            /\ UNCHANGED <<empty_at, walking, found_run>>
  /\ UNCHANGED <<searched, came_from, empty_result>>

TransitionBefore(m, n) == m[2] < n[2] \/ (m[2] = n[2] /\ m[3] < n[3])
NextTransition ==
  CHOOSE m \in targets_left : \A n \in targets_left : m = n \/ TransitionBefore(m, n)

(* processed holds the states that have an entry in paths.                  *)
LookAtTarget ==
  /\ empty_at = "search" /\ targets_left # {}
  /\ LET q == NextTransition[3]
     IN IF q \in DOMAIN came_from THEN UNCHANGED <<list, came_from>>
        ELSE /\ list' = Append(list, q)
             /\ came_from' = [p \in DOMAIN came_from \cup {q} |->
                                IF p = q THEN source ELSE came_from[p]]
  /\ targets_left' = targets_left \ {NextTransition}
  /\ UNCHANGED <<searched, source, walking, found_run, empty_at, empty_result>>

(* get_word_for_path: the least symbol from each state to the next.         *)
WordForPath(A, path) ==
  [n \in 1 .. Len(path) - 1 |->
     LET symbols == {m[2] : m \in {k \in A.delta : k[1] = path[n] /\ k[3] = path[n + 1]}}
     IN CHOOSE a \in symbols : \A b \in symbols : a <= b]

WalkBack ==
  /\ empty_at = "back"
  /\ IF came_from[walking] # walking
       THEN /\ walking' = came_from[walking]
            /\ found_run' = [found_run EXCEPT !.path = Append(@, walking')]
            /\ UNCHANGED <<empty_at, empty_result>>
       ELSE /\ LET path == Reverse(found_run.path)
               IN found_run' = [word |-> WordForPath(searched, path), path |-> path]
            /\ empty_at' = "done" /\ empty_result' = FALSE
            /\ UNCHANGED walking
  /\ UNCHANGED <<searched, list, came_from, source, targets_left>>

NothingFound ==
  /\ empty_at = "search" /\ targets_left = {} /\ list = << >>
  /\ empty_at' = "done" /\ empty_result' = TRUE
  /\ UNCHANGED <<searched, list, came_from, source, targets_left, walking, found_run>>

EmptyNext == EnterInitial \/ TakeState \/ LookAtTarget \/ WalkBack \/ NothingFound

==============================================================================
