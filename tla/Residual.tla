-------------------------------- MODULE Residual --------------------------------
(***************************************************************************)
(* reduce_residual_with and reduce_residual_after (src/nfa/operations.cc): *)
(* the subset construction without the macrostates that are the union of   *)
(* smaller ones ("covered"), which are left out while it runs or removed   *)
(* when it is done.                                                        *)
(*                                                                         *)
(* A step handles one symbol, one entry of a hash map or one macrostate;   *)
(* entries of hash maps come in any order.                                 *)
(***************************************************************************)
EXTENDS Automata, FiniteSets, SequencesExt

CONSTANT Jobs    \* records [nfa, type]; type is "with" or "after"

ASSUME JobsAssumption ==
  \A j \in Jobs : /\ IsAutomaton(j.nfa, Nat) /\ IsFiniteSet(j.nfa.states)
                  /\ j.type \in {"with", "after"}

VARIABLES
  job,
  result,             \* the automaton under construction
  subset_map,         \* macrostate |-> state, of those not covered
  covered,            \* macrostate |-> state, of those covered
  worklist,           \* a stack of <<state, macrostate>>
  expanding,          \* the pair taken off it
  symbols_left,
  targets,            \* the macrostate that is new, and its state
  covering_states,    \* state |-> the union of the smaller macrostates
  covering_indexes,   \* state |-> the states of these
  to_check,           \* the entries of subset_map still to be compared
  erase_state, to_update,   \* a state newly covered, and the entries of
                            \* covered it is still to be compared with
  unsorted,           \* "after": the macrostates on their way to
  macrostate_vec,     \* all of them, the largest first
  visited,
  frames,             \* "after": one [of, covering, left] for each call that
                      \* found a covered macrostate; left: those to come
  i, at

withvars == <<worklist, expanding, symbols_left, targets, covering_states,
              covering_indexes, to_check, erase_state, to_update>>
aftervars == <<unsorted, macrostate_vec, visited, frames, i>>
vars == <<job, result, subset_map, covered, withvars, aftervars, at>>

nfa == job.nfa
Empty == [S \in {} |-> 0]
With(f, x, v) == [y \in DOMAIN f \cup {x} |-> IF y = x THEN v ELSE f[y]]
Without(f, x) == [y \in DOMAIN f \ {x} |-> f[y]]
LowestOf(S) == CHOOSE x \in S : \A y \in S : x <= y
SymbolsFrom(S) == {m[2] : m \in {k \in nfa.delta : k[1] \in S}}

(* remove_covered_state: what leads to the state leads to the set instead.  *)
remove_covered_state(A, covering_set, remove) ==
  LET kept == {m \in A.delta : m[1] # remove}
      into == {m \in kept : m[3] = remove}
  IN [A EXCEPT
        !.delta = (kept \ into) \cup {<<m[1], m[2], t>> : m \in into, t \in covering_set},
        !.final = @ \ {remove},
        !.initial = IF remove \in @ THEN (@ \ {remove}) \cup covering_set ELSE @]

Init ==
  /\ job \in Jobs
  /\ result = [states |-> {0}, initial |-> {0}, delta |-> {},
               final |-> IF nfa.initial \cap nfa.final # {} THEN {0} ELSE {}]
  /\ subset_map = With(Empty, nfa.initial, 0) /\ covered = Empty
  /\ worklist = <<<<0, nfa.initial>>>>
  /\ expanding = << >> /\ symbols_left = {} /\ targets = {}
  /\ covering_states = [q \in {0} |-> {}] /\ covering_indexes = [q \in {0} |-> {}]
  /\ to_check = {} /\ erase_state = 0 /\ to_update = {}
  /\ unsorted = {nfa.initial}
  /\ macrostate_vec = << >> /\ visited = {} /\ frames = << >> /\ i = 1
  /\ at = IF job.type = "after" THEN "determinize"
          ELSE IF nfa.delta = {} THEN "done" ELSE "loop"

------------------------------------------------------------------------------
(* reduce_residual_with.                                                    *)

Pop ==
  /\ at = "loop" /\ symbols_left = {}
  /\ IF worklist = << >> THEN at' = "done" /\ UNCHANGED <<worklist, expanding, symbols_left>>
     ELSE /\ worklist' = Front(worklist) /\ expanding' = Last(worklist)
          /\ symbols_left' = SymbolsFrom(expanding'[2])
          /\ at' = IF expanding'[2] = {} THEN "done" ELSE at
  /\ UNCHANGED <<job, result, subset_map, covered, targets, covering_states,
                 covering_indexes, to_check, erase_state, to_update, aftervars>>

(* Not the code: also a source that is covered by now gets transitions.     *)
ConnectAnyway(A, covers, map, q) ==
  [A EXCEPT !.delta = @ \cup
     {<<expanding[1], LowestOf(symbols_left), t>> :
        t \in IF q \in {map[S] : S \in DOMAIN map} THEN {q} ELSE covers[q]}]

(* The transitions to state q: to what covers it if q is covered, and none  *)
(* if the source is covered by now.                                         *)
Connect(A, covers, map, q) ==
  IF expanding[2] \notin DOMAIN map THEN A
  ELSE [A EXCEPT !.delta = @ \cup
          {<<expanding[1], LowestOf(symbols_left), t>> :
             t \in IF q \in {map[S] : S \in DOMAIN map} THEN {q} ELSE covers[q]}]

(* One symbol: its macrostate is known, or gets a state and is compared.    *)
ReadSymbol ==
  /\ at = "loop" /\ symbols_left # {}
  /\ LET T == Post(nfa, expanding[2], LowestOf(symbols_left))
         new == Cardinality(result.states)
     IN IF T \in DOMAIN subset_map \cup DOMAIN covered
          THEN /\ result' = Connect(result, covering_indexes, subset_map,
                              IF T \in DOMAIN subset_map THEN subset_map[T] ELSE covered[T])
               /\ symbols_left' = symbols_left \ {LowestOf(symbols_left)}
               /\ UNCHANGED <<targets, covering_states, covering_indexes, to_check, at>>
          ELSE /\ result' = [result EXCEPT !.states = @ \cup {new}]
               /\ targets' = T
               /\ covering_states' = With(covering_states, new, {})
               /\ covering_indexes' = With(covering_indexes, new, {})
               /\ to_check' = DOMAIN subset_map
               /\ at' = "check"
               /\ UNCHANGED symbols_left
  /\ UNCHANGED <<job, subset_map, covered, worklist, expanding, erase_state, to_update,
                 aftervars>>

target_res == Cardinality(result.states) - 1

(* check_covered_and_covering: one entry of subset_map.                     *)
Compare(S) ==
  /\ at = "check" /\ S \in to_check
  /\ to_check' = to_check \ {S}
  /\ LET s == subset_map[S]
         smaller == S \subseteq targets
         larger == ~smaller /\ targets \subseteq S
         q == IF smaller THEN target_res ELSE s
     IN /\ IF smaller \/ larger
             THEN /\ covering_states' =
                       [covering_states EXCEPT ![q] = @ \cup IF smaller THEN S ELSE targets]
                  /\ covering_indexes' =
                       [covering_indexes EXCEPT ![q] = @ \cup {IF smaller THEN s ELSE target_res}]
             ELSE UNCHANGED <<covering_states, covering_indexes>>
        /\ IF larger /\ covering_states'[s] = S
             THEN at' = "update" /\ erase_state' = s /\ to_update' = DOMAIN covered
             ELSE UNCHANGED <<at, erase_state, to_update>>
  /\ UNCHANGED <<job, result, subset_map, covered, worklist, expanding, symbols_left,
                 targets, aftervars>>

(* Not the code: what a covered state led to is lost.                       *)
ReplacedByNothing(covers, s, e) ==
  LET replaced == [covers EXCEPT ![s] = @ \ {e}]
  IN IF s \in replaced[e]
       THEN [replaced EXCEPT ![e] = (@ \ {s}) \cup replaced[s]] ELSE replaced

(* e, newly covered, does not cover s any more; what covers e does.  And    *)
(* the other way round.                                                     *)
Replaced(covers, s, e) ==
  LET replaced == IF e \in covers[s] THEN [covers EXCEPT ![s] = (@ \ {e}) \cup covers[e]]
                                     ELSE covers
  IN IF s \in replaced[e]
       THEN [replaced EXCEPT ![e] = (@ \ {s}) \cup replaced[s]] ELSE replaced

Update(S) ==
  /\ at = "update" /\ S \in to_update
  /\ to_update' = to_update \ {S}
  /\ covering_indexes' = Replaced(covering_indexes, covered[S], erase_state)
  /\ UNCHANGED <<job, result, subset_map, covered, worklist, expanding, symbols_left,
                 targets, covering_states, to_check, erase_state, aftervars, at>>

(* The entry moves from subset_map to covered.                              *)
MoveToCovered ==
  /\ at = "update" /\ to_update = {}
  /\ result' = remove_covered_state(result, covering_indexes[erase_state], erase_state)
  /\ LET S == CHOOSE R \in DOMAIN subset_map : subset_map[R] = erase_state
     IN subset_map' = Without(subset_map, S) /\ covered' = With(covered, S, erase_state)
  /\ at' = "check"
  /\ UNCHANGED <<job, withvars, aftervars>>

(* The new macrostate goes into one of the maps, and gets its transition.   *)
EnterTarget ==
  /\ at = "check" /\ to_check = {}
  /\ IF targets # covering_states[target_res]
       THEN /\ subset_map' = With(subset_map, targets, target_res)
            /\ worklist' = Append(worklist, <<target_res, targets>>)
            /\ result' = Connect(IF targets \cap nfa.final = {} THEN result
                                 ELSE [result EXCEPT !.final = @ \cup {target_res}],
                                 covering_indexes, subset_map', target_res)
            /\ UNCHANGED covered
       ELSE /\ covered' = With(covered, targets, target_res)
            /\ result' = Connect(result, covering_indexes, subset_map, target_res)
            /\ UNCHANGED <<subset_map, worklist>>
  /\ symbols_left' = symbols_left \ {LowestOf(symbols_left)}
  /\ at' = "loop"
  /\ UNCHANGED <<job, expanding, targets, covering_states, covering_indexes, to_check,
                 erase_state, to_update, aftervars>>

------------------------------------------------------------------------------
(* reduce_residual_after.                                                   *)

PostsOf(family) == UNION {{Post(nfa, S, a) : a \in SymbolsFrom(S)} : S \in family}

(* determinize, as Determinization shows it to work: the macrostates.       *)
Determinize ==
  /\ at = "determinize"
  /\ unsorted' = unsorted \cup PostsOf(unsorted)
  /\ at' = IF unsorted' = unsorted THEN "sort" ELSE at
  /\ UNCHANGED <<job, result, subset_map, covered, withvars, macrostate_vec, visited,
                 frames, i>>

(* macrostate_vec gets the macrostates, those of one size in any order.     *)
Sort ==
  /\ at = "sort" /\ unsorted # {}
  /\ \E S \in unsorted :
        /\ \A T \in unsorted : Cardinality(T) <= Cardinality(S)
        /\ macrostate_vec' = Append(macrostate_vec, S) /\ unsorted' = unsorted \ {S}
  /\ UNCHANGED <<job, result, subset_map, covered, withvars, visited, frames, i, at>>

(* The result of determinize; the state of a macrostate is its index here.  *)
Build ==
  /\ at = "sort" /\ unsorted = {}
  /\ LET states == DOMAIN macrostate_vec
     IN /\ result' = [states |-> states,
             initial |-> {q \in states : macrostate_vec[q] = nfa.initial},
             final |-> {q \in states : macrostate_vec[q] \cap nfa.final # {}},
             delta |-> {m \in states \X SymbolsFrom(nfa.states) \X states :
                          /\ m[2] \in SymbolsFrom(macrostate_vec[m[1]])
                          /\ macrostate_vec[m[3]] = Post(nfa, macrostate_vec[m[1]], m[2])}]
        /\ subset_map' = [S \in ToSet(macrostate_vec) |->
                            CHOOSE q \in states : macrostate_vec[q] = S]
  /\ at' = "outer"
  /\ UNCHANGED <<job, covered, withvars, aftervars>>

(* Indices that a vector holds in ascending order are a set.                *)
Smaller(q, indexes) == {j \in indexes : /\ macrostate_vec[j] \notin DOMAIN covered
                                        /\ macrostate_vec[j] \subseteq macrostate_vec[q]}
UnionOf(indexes) == UNION {macrostate_vec[j] : j \in indexes}
Frame(q, covering) == [of |-> q, covering |-> covering, left |-> covering]
Upwards(n) == n + 1 .. Len(macrostate_vec)

(* One round of the loop of reduce_residual_after.                          *)
Outer ==
  /\ at = "outer" /\ frames = << >>
  /\ IF i >= Len(macrostate_vec) \/ Cardinality(macrostate_vec[i]) = 1
       THEN at' = "done" /\ UNCHANGED <<visited, frames, i>>
       ELSE /\ i' = i + 1
            /\ visited' = visited \cup {i}
            /\ LET covering == Smaller(i, Upwards(i))
               IN frames' = IF i \notin visited /\ UnionOf(covering) = macrostate_vec[i]
                              THEN <<Frame(i, covering)>> ELSE << >>
            /\ UNCHANGED at
  /\ UNCHANGED <<job, result, subset_map, covered, withvars, unsorted, macrostate_vec>>

(* One round of the loop over what covers a macrostate, which leaves out    *)
(* the last: a call of residual_recurse_coverable for the next of them.     *)
LastOrSingle(left) ==
  Cardinality(left) <= 1 \/ Cardinality(macrostate_vec[LowestOf(left)]) = 1

Recurse ==
  /\ at = "outer" /\ frames # << >>
  /\ LET frame == Last(frames)
         q == LowestOf(frame.left)
         below == frame.left \ {q}
         sub == Smaller(q, below)
         moved == Append(Front(frames), [frame EXCEPT !.left = below])
     IN /\ ~LastOrSingle(frame.left)
        /\ visited' = visited \cup {q}
        /\ frames' = IF q \notin visited /\ UnionOf(sub) = macrostate_vec[q]
                       THEN Append(moved, Frame(q, sub)) ELSE moved
  /\ UNCHANGED <<job, result, subset_map, covered, withvars, unsorted, macrostate_vec, i, at>>

(* The end of that loop: the macrostate is removed, the call returns.       *)
RemoveAndReturn ==
  /\ at = "outer" /\ frames # << >>
  /\ LET frame == Last(frames)
         S == macrostate_vec[frame.of]
         needed == {subset_map[macrostate_vec[j]] : j \in
                      {n \in frame.covering : macrostate_vec[n] \notin DOMAIN covered}}
     IN /\ LastOrSingle(frame.left)
        /\ result' = remove_covered_state(result, needed, subset_map[S])
        /\ covered' = With(covered, S, subset_map[S])
  /\ frames' = Front(frames)
  /\ UNCHANGED <<job, subset_map, withvars, unsorted, macrostate_vec, visited, i, at>>

Next ==
  \/ Pop \/ ReadSymbol \/ (\E S \in to_check : Compare(S)) \/ (\E S \in to_update : Update(S))
  \/ MoveToCovered \/ EnterTarget
  \/ Determinize \/ Sort \/ Build \/ Outer \/ Recurse \/ RemoveAndReturn

Spec == Init /\ [][Next]_vars /\ WF_vars(Next)

------------------------------------------------------------------------------
Removed == {covered[S] : S \in DOMAIN covered}

(* Nothing starts in a state that was removed, although it may still be     *)
(* expanded or be found as a target, and it is not final.  A covered state  *)
(* may be left in the set that covers another one and get transitions from  *)
(* there ("with"); nothing leads to a state that "after" has removed.       *)
RemovedIsDead ==
  /\ Removed \cap result.final = {}
  /\ \A m \in result.delta : m[1] \notin Removed
  /\ job.type = "after" => /\ Removed \cap result.initial = {}
                           /\ \A m \in result.delta : m[3] \notin Removed

Macrostates ==
  LET within[n \in 0 .. 2 ^ Cardinality(nfa.states)] ==
        IF n = 0 THEN {nfa.initial}
        ELSE LET before == within[n - 1] IN before \cup PostsOf(before)
  IN within[2 ^ Cardinality(nfa.states)]

(* In the end the macrostates that are left are those that are no union of  *)
(* smaller ones, whichever of the two algorithms did it and in whatever     *)
(* order: so both leave as many.                                            *)
OnlyResidualsStay ==
  at = "done" =>
    DOMAIN subset_map \ DOMAIN covered =
      LET all == Macrostates
      IN {S \in all : S = {} \/ S # UNION {T \in all : T \subseteq S /\ T # S}}

(* What is removed is dead for good, and all that is covered is removed.    *)
MacrostatesAreRight == RemovedIsDead /\ OnlyResidualsStay

(* The reduced automaton accepts the same words.                            *)
ResidualKeepsLanguage ==
  \A word \in WordsUpTo({m[2] : m \in nfa.delta}, 3) :
    Accepts(result, word) <=> Accepts(nfa, word)

(* Both algorithms end, through the loops over the symbols, the maps and    *)
(* the entries that are updated, and the recursion over what covers what,   *)
(* with the same language.                                                  *)
ReductionEndsRight == <>(at = "done" /\ ResidualKeepsLanguage)

==============================================================================
