---------------------------- MODULE MCConstructions ----------------------------
(***************************************************************************)
(* NaiveInclusion and the SyncIterators its products walk with, for TLC.   *)
(* A behaviour is a job of the one or a walk of the other.                 *)
(*                                                                         *)
(* Jobs: automata of two states with few transitions.  Inclusion jobs      *)
(* range over two symbols and both complementations; the products also     *)
(* over an epsilon; a determinization may be stopped by its callback.      *)
(* Walks: all vectors over a few values.                                   *)
(***************************************************************************)
EXTENDS NaiveInclusion, SyncIterators, TLC

CONSTANTS MaxMovesSmaller, MaxMovesBigger, MaxMovesProduct, MaxMovesSubset, MaxValue

Symbols == {0, 1}
MCLetters == {0, 1, 2}
MCStates == {0, 1}

Deltas(Q, S, max) == UNION {kSubset(k, Q \X S \X Q) : k \in 0 .. max}

Automata(Q, I, F, D) ==
  {[states |-> Q, initial |-> o, final |-> f, delta |-> d] : o \in I, f \in F, d \in D}

Job(k, A, B, symbols, algorithm, c, stop) ==
  [kind |-> k, lhs |-> A, rhs |-> B, symbols |-> symbols, algorithm |-> algorithm,
   condition |-> c, may_stop |-> stop]

InclusionJobs ==
  {Job("inclusion", A, B, Symbols, algorithm, "And", FALSE) :
     A \in Automata(MCStates, {{0}}, {{1}}, Deltas(MCStates, Symbols, MaxMovesSmaller)),
     B \in Automata(MCStates, {{0}, {0, 1}}, {{1}}, Deltas(MCStates, Symbols, MaxMovesBigger))
          \cup Automata(MCStates, {{}}, {{1}}, {{}, {<<0, 0, 1>>}}),
     algorithm \in {"classical", "brzozowski"}}

(* Products with an epsilon transition on either side.                      *)
EpsilonJobs ==
  {Job("product", A, B, {0}, "classical", "And", FALSE) :
     A \in Automata(MCStates, {{0}}, {{1}}, Deltas(MCStates, {0, 2}, MaxMovesProduct)),
     B \in Automata(MCStates, {{0, 1}, {1}}, {{1}}, Deltas(MCStates, {0, 2}, MaxMovesProduct))}

(* All complete deterministic automata of two states.                       *)
Complete ==
  {[states |-> MCStates, initial |-> {0}, final |-> f,
    delta |-> {<<q, a, to[<<q, a>>]>> : q \in MCStates, a \in Symbols}] :
     f \in SUBSET MCStates, to \in [MCStates \X Symbols -> MCStates]}

UnionJobs ==
  {Job("product", A, B, Symbols, "classical", "Or", FALSE) :
     A \in Complete, B \in {C \in Complete : C.final = {1}}}

SubsetJobs ==
  {Job("determinize", A, A, Symbols, algorithm, "And", TRUE) :
     A \in Automata({0, 1, 2}, {{0}, {0, 1}}, {{2}}, Deltas({0, 1, 2}, Symbols, MaxMovesSubset)),
     algorithm \in {"classical", "brzozowski"}}

MCJobs == InclusionJobs \cup EpsilonJobs \cup UnionJobs \cup SubsetJobs

------------------------------------------------------------------------------
Values == 0 .. MaxValue
Ordered(S) == SetToSortSeq(S, <)
Vectors == {Ordered(S) : S \in SUBSET Values}

Walks(kinds, tuples, memories, soughts) ==
  {[kind |-> k, vectors |-> t, memory |-> m, sought |-> w] :
     k \in kinds, t \in tuples, m \in memories, w \in soughts}

Few == {<< >>} \cup {<<v>> : v \in Vectors} \cup (Vectors \X Vectors)
Three == Vectors \X Vectors \X Vectors

(* The universal iterator walks two vectors wherever they lie, and three    *)
(* when the first lies above the second.  The library walks two.            *)
MCInputs ==
  Walks({"universal"}, Few, {"above", "below"}, {<< >>})
  \cup Walks({"universal"}, {<<v, v>> : v \in Vectors}, {"same"}, {<< >>})
  \cup Walks({"universal"}, Three, {"above"}, {<< >>})
  \cup Walks({"existential"}, Few \cup Three, {"above"}, {<< >>})
  \cup Walks({"synchronize_with"}, Few \cup {t \in Three : t[1] # << >>}, {"above"},
             {<<0, 1>>, <<1, 1, 3>>, <<2>>})

------------------------------------------------------------------------------
(* While the iterators walk there is no job to be done, and the reverse.    *)
NoJob ==
  /\ job = Job("inclusion", NoAutomaton, NoAutomaton, {}, "classical", "And", FALSE)
  /\ stage = "done" /\ complement = NoAutomaton
  /\ DetCalled(NoAutomaton, FALSE) /\ ProductCalled(NoAutomaton, NoAutomaton, "And")
  /\ searched = NoAutomaton /\ list = << >> /\ came_from = << >> /\ source = 0
  /\ targets_left = {} /\ walking = 0 /\ found_run = NoRun
  /\ empty_at = "done" /\ empty_result = TRUE

NoWalk ==
  /\ input = [kind |-> "universal", vectors |-> << >>, memory |-> "above", sought |-> << >>]
  /\ pushed = 0 /\ vectors = << >> /\ position = << >> /\ synchronized = FALSE
  /\ next_minimum = None /\ current_minimum = None /\ currently_synchronized = << >>
  /\ i = 0 /\ at = "idle" /\ result = FALSE /\ found = << >>
  /\ spare = SpareCalls /\ sought = << >> /\ answers = << >>

MCInit == (NaiveInit /\ NoWalk) \/ (Init /\ NoJob)
MCNext == (NaiveNext /\ UNCHANGED vars) \/ (Next /\ UNCHANGED naivevars)
MCSpec == MCInit /\ [][MCNext]_<<naivevars, vars>> /\ WF_naivevars(NaiveNext) /\ WF_vars(Next)

==============================================================================
