-------------------------- MODULE AntichainInclusion --------------------------
(***************************************************************************)
(* is_included_antichains (src/nfa/inclusion.cc) and                       *)
(* is_universal_antichains (src/nfa/universal.cc): the search of           *)
(* InclusionSearch with the last-in-first-out worklist of the code, its    *)
(* pruning by distances, and the construction of the counterexample from   *)
(* the map of paths.  Universality runs the same search; there smaller is  *)
(* the automaton of all words over the alphabet, which has one state.      *)
(*                                                                         *)
(* A step is one iteration of one of the loops.  Moves of the pair in hand *)
(* are looked at in the order of Delta: by symbol, then by target.  The    *)
(* initial states come in any order: that of a SparseSet is its history.   *)
(***************************************************************************)
EXTENDS InclusionSearch, FiniteSets, SequencesExt

CONSTANTS
  UniversalityInputs,  \* those of Inputs that stand for a universality test
  StaleRuns            \* what the caller's Run may hold before the call

ASSUME NumbersAssumption ==
  Symbol \subseteq Nat /\ \A in \in Inputs : Numbered(in[1]) /\ Numbered(in[2])

VARIABLES
  algorithm,        \* the function that was called
  wants_cex,        \* cex is not a null pointer
  worklist,         \* the vector: the pairs of waiting in order
  paths,            \* pair |-> <<pair it was reached from, symbol>>
  cex,              \* the Run of the caller, [word, path]
  phase,            \* "search", "back", "forward", "done"
  bad,              \* the move whose successor is refused
  at                \* the pair where the walk back is, or the state <<q, {}>>
                    \* where the run forward is

run == <<algorithm, wants_cex, worklist, paths, cex, phase, bad, at>>
vars == <<smaller, bigger, starts, processed, waiting, todo, verdict,
          algorithm, wants_cex, worklist, paths, cex, phase, bad, at>>

distances_smaller == DistanceToFinal(smaller)
distances_bigger == DistanceToFinal(bigger)

(* The limit Limits::max_state stands for: farther than any state is.       *)
max_state == Far(smaller) + Far(bigger)
DistanceOf(A, distances, q) == IF distances[q] = Far(A) THEN max_state ELSE distances[q]

min_dst(S) ==
  IF S = {} THEN max_state
  ELSE CHOOSE d \in {DistanceOf(bigger, distances_bigger, s) : s \in S} :
         \A s \in S : d <= DistanceOf(bigger, distances_bigger, s)

(* Every word bigger accepts from S is longer than one smaller accepts.     *)
lengths_incompatible(p) ==
  DistanceOf(smaller, distances_smaller, p[1]) < min_dst(p[2])

(* Not the code: the comparison also refuses words of the same length.      *)
RefusedTooEarly(p) ==
  \/ algorithm = "inclusion"
     /\ DistanceOf(smaller, distances_smaller, p[1]) <= min_dst(p[2])
  \/ Rejecting(p)

(* Universality tests acceptance only.                                      *)
Refused(p) == \/ algorithm = "inclusion" /\ lengths_incompatible(p)
              \/ Rejecting(p)

(* Not the code: a pair counts as covered by the larger of two sets.        *)
CoveredByLarger(p, D) == \E d \in D : Subsumes(p, d)

(* Not the code: pairs found before are searched again.                     *)
NeverCovered(p, D) == FALSE

(* Some processed pair makes p superfluous.                                 *)
is_subsumed(p, D) == Covered(p, D)

(* SymbolPosts are sorted by symbol, the targets of each by number.         *)
Before(m, n) == m[2] < n[2] \/ (m[2] = n[2] /\ m[3] < n[3])
NextMove == CHOOSE m \in todo : \A n \in todo : m = n \/ Before(m, n)

NoMove == << >>

(* std::erase_if: what p makes superfluous goes, the rest keeps its order.  *)
EraseSubsumed(seq, p) ==
  LET kept[n \in 0 .. Len(seq)] ==
        IF n = 0 THEN << >>
        ELSE IF Subsumes(p, seq[n]) THEN kept[n - 1] ELSE Append(kept[n - 1], seq[n])
  IN kept[Len(seq)]

------------------------------------------------------------------------------
NoPaths == [p \in {} |-> p]

LifoInit ==
  /\ \E in \in Inputs : smaller = in[1] /\ bigger = in[2]
  /\ Init
  /\ algorithm = IF <<smaller, bigger>> \in UniversalityInputs
                   THEN "universality" ELSE "inclusion"
  /\ wants_cex \in BOOLEAN
  /\ worklist = << >> /\ paths = NoPaths
  /\ cex \in StaleRuns
  /\ phase = "search" /\ bad = NoMove /\ at = NoMove

(* The loop over smaller.initial.                                           *)
PushStart(q) ==
  LET st == <<q, bigger.initial>>
  IN /\ phase = "search" /\ q \in starts
     /\ ~Rejecting(st)
     /\ EnterStart(q)
     /\ worklist' = Append(worklist, st)
     /\ paths' = IF wants_cex THEN [p \in DOMAIN paths \cup {st} |->
                                      IF p = st THEN <<st, 0>> ELSE paths[p]]
                              ELSE paths
     /\ UNCHANGED <<algorithm, wants_cex, cex, phase, bad, at>>

(* An initial state is accepting and no initial state of bigger is.         *)
RefuseStart(q) ==
  /\ phase = "search" /\ q \in starts
  /\ Rejecting(<<q, bigger.initial>>)
  /\ Answer("not included")
  /\ cex' = IF ~wants_cex THEN cex
            ELSE [word |-> << >>,
                  path |-> IF algorithm = "inclusion" THEN <<q>> ELSE cex.path]
  /\ phase' = "done"
  /\ UNCHANGED <<algorithm, wants_cex, worklist, paths, bad, at>>

Pop ==
  /\ phase = "search" /\ starts = {} /\ todo = {} /\ worklist # << >>
  /\ TakePair(Last(worklist))
  /\ worklist' = Front(worklist)
  /\ UNCHANGED <<algorithm, wants_cex, paths, cex, phase, bad, at>>

Subsumed ==
  /\ phase = "search" /\ todo # {}
  /\ LET succ == Successor(NextMove)
     IN ~Refused(succ) /\ is_subsumed(succ, processed)
  /\ SkipMove(NextMove)
  /\ UNCHANGED run

(* Not the code: the worklist is pruned, the processed pairs are not.       *)
PruneWorklistOnly(m) ==
  /\ processed' = processed \cup {Successor(m)}
  /\ waiting' = Without(waiting, Successor(m)) \cup {Successor(m)}
  /\ todo' = todo \ {m}
  /\ UNCHANGED <<smaller, bigger, starts, verdict>>

Prune(m) == AddPair(m)

Push ==
  LET m == NextMove
      succ == Successor(m)
  IN /\ phase = "search" /\ todo # {}
     /\ ~Refused(succ) /\ ~is_subsumed(succ, processed)
     /\ Prune(m)
     /\ worklist' = Append(EraseSubsumed(worklist, succ), succ)
     /\ paths' = IF wants_cex THEN [p \in DOMAIN paths \cup {succ} |->
                                      IF p = succ THEN <<m[1], m[2]>> ELSE paths[p]]
                              ELSE paths
     /\ UNCHANGED <<algorithm, wants_cex, cex, phase, bad, at>>

RefuseAtOnce ==
  /\ phase = "search" /\ todo # {} /\ ~wants_cex
  /\ Refused(Successor(NextMove))
  /\ Answer("not included")
  /\ phase' = "done"
  /\ UNCHANGED <<algorithm, wants_cex, worklist, paths, cex, bad, at>>

(* The last letter and the state before it; inclusion does not clear cex.   *)
RefuseWithCex ==
  LET m == NextMove
  IN /\ phase = "search" /\ todo # {} /\ wants_cex
     /\ Refused(Successor(m))
     /\ cex' = IF algorithm = "inclusion"
                 THEN [word |-> Append(cex.word, m[2]),
                       path |-> Append(cex.path, m[1][1])]
                 ELSE [cex EXCEPT !.word = <<m[2]>>]
     /\ phase' = "back" /\ bad' = m /\ at' = m[1]
     /\ UNCHANGED <<algorithm, wants_cex, worklist, paths>>
     /\ UNCHANGED searchvars

(* Not the code: the letter is read after the step back has been taken.     *)
WalkBackLate ==
  /\ phase = "back" /\ paths[at][1] # at
  /\ cex' = [word |-> Append(cex.word, paths[paths[at][1]][2]),
             path |-> IF algorithm = "inclusion"
                        THEN Append(cex.path, paths[at][1][1]) ELSE cex.path]
  /\ at' = paths[at][1]
  /\ UNCHANGED <<algorithm, wants_cex, worklist, paths, phase, bad>>
  /\ UNCHANGED searchvars

(* Follow paths back until a pair that was reached from itself.             *)
WalkBack ==
  /\ phase = "back" /\ paths[at][1] # at
  /\ cex' = [word |-> Append(cex.word, paths[at][2]),
             path |-> IF algorithm = "inclusion"
                        THEN Append(cex.path, paths[at][1][1]) ELSE cex.path]
  /\ at' = paths[at][1]
  /\ UNCHANGED <<algorithm, wants_cex, worklist, paths, phase, bad>>
  /\ UNCHANGED searchvars

(* Reverse what was collected; inclusion goes on from the refused successor.*)
TurnRound ==
  /\ phase = "back" /\ paths[at][1] = at
  /\ IF algorithm = "inclusion"
       THEN /\ cex' = [word |-> Reverse(cex.word),
                       path |-> Append(Reverse(cex.path), bad[3])]
            /\ at' = <<bad[3], {}>>
            /\ phase' = "forward"
            /\ UNCHANGED searchvars
       ELSE /\ cex' = [cex EXCEPT !.word = Reverse(@)]
            /\ phase' = "done"
            /\ Answer("not included")
            /\ UNCHANGED at
  /\ UNCHANGED <<algorithm, wants_cex, worklist, paths, bad>>

(* get_shortest_accepting_run_from_state: the first move that gets closer.  *)
Closer == {m \in smaller.delta :
             m[1] = at[1] /\ distances_smaller[m[3]] < distances_smaller[at[1]]}

GoForward ==
  /\ phase = "forward" /\ at[1] \notin smaller.final
  /\ \E m \in Closer :
       /\ \A n \in Closer : m = n \/ Before(m, n)
       /\ cex' = [word |-> Append(cex.word, m[2]), path |-> Append(cex.path, m[3])]
       /\ at' = <<m[3], {}>>
  /\ UNCHANGED <<algorithm, wants_cex, worklist, paths, phase, bad>>
  /\ UNCHANGED searchvars

ReturnCex ==
  /\ phase = "forward" /\ at[1] \in smaller.final
  /\ Answer("not included")
  /\ phase' = "done"
  /\ UNCHANGED <<algorithm, wants_cex, worklist, paths, cex, bad, at>>

ReturnTrue ==
  /\ phase = "search" /\ starts = {} /\ todo = {} /\ worklist = << >>
  /\ Answer("included")
  /\ phase' = "done"
  /\ UNCHANGED <<algorithm, wants_cex, worklist, paths, cex, bad, at>>

LifoNext ==
  \/ \E q \in starts : PushStart(q) \/ RefuseStart(q)
  \/ Pop
  \/ Subsumed \/ Push
  \/ RefuseAtOnce \/ RefuseWithCex
  \/ WalkBack \/ TurnRound \/ GoForward
  \/ ReturnCex \/ ReturnTrue

(* One thread runs the call to its end.                                     *)
LifoSpec == LifoInit /\ [][LifoNext]_vars /\ WF_vars(LifoNext)

------------------------------------------------------------------------------
(* Properties.                                                              *)

(* The vector holds the waiting pairs, each once, and what can be popped    *)
(* has an entry in paths when a counterexample may be asked for.            *)
LifoTypeOK ==
  /\ TypeOK
  /\ ToSet(worklist) = waiting /\ Len(worklist) = Cardinality(waiting)
  /\ wants_cex => processed \subseteq DOMAIN paths

(* The counterexample is one: smaller accepts the word along the path, and  *)
(* bigger does not accept it.  Universality leaves the path alone.          *)
CexIsWitness ==
  verdict = "not included" /\ wants_cex =>
    /\ Accepts(smaller, cex.word) /\ ~Accepts(bigger, cex.word)
    /\ algorithm = "inclusion" =>
         /\ IsRun(smaller, cex.path, cex.word)
         /\ Head(cex.path) \in smaller.initial
         /\ Last(cex.path) \in smaller.final

(* What is waiting can be traced back, and the trace that is returned is a  *)
(* witness, whatever was evicted from processed and worklist meanwhile.     *)
WitnessIsRight == LifoTypeOK /\ CexIsWitness

(* Refinement: each step of the code is one of the abstract search, and     *)
(* refusing by distances alone is never wrong.                              *)
ImplementsSearch == Spec

(* Liveness: the search ends, and so does the walk through paths.           *)
Terminates == <>(phase = "done")

==============================================================================
