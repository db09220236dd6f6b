----------------------------- MODULE NaiveInclusion -----------------------------
(***************************************************************************)
(* is_included_naive (src/nfa/inclusion.cc), which chains the other        *)
(* constructions: the bigger automaton is complemented (determinize, trim, *)
(* complement_deterministic; or minimize_brzozowski and                    *)
(* complement_deterministic), intersected with the smaller one, and the    *)
(* product is tested for emptiness.  A job may also be a call of one of    *)
(* the constructions alone.  is_included_naive itself takes the classical  *)
(* complement; the other choice is a caller who chains complement with the *)
(* parameter "brzozowski", intersection and is_lang_empty.                 *)
(***************************************************************************)
EXTENDS Determinization, Product, EmptinessSearch

CONSTANT Jobs    \* records [kind, lhs, rhs, symbols, algorithm, condition, may_stop]

IsNfa(A) ==
  /\ A \in [states : SUBSET Nat, initial : SUBSET Nat, final : SUBSET Nat,
            delta : SUBSET (Nat \X Nat \X Nat)]
  /\ IsFiniteSet(A.states) /\ IsAutomaton(A, Letters)

(* One initial state and one move by every symbol, all of them in symbols.  *)
IsCompleteDeterministic(A, symbols) ==
  /\ \E q \in A.states : A.initial = {q}
  /\ \A m \in A.delta : m[2] \in symbols
  /\ \A q \in A.states : \A a \in symbols : \E t \in A.states :
       {m \in A.delta : m[1] = q /\ m[2] = a} = {<<q, a, t>>}

(* An alphabet has no epsilons; union_det_complete asks that its arguments  *)
(* be deterministic and complete.                                           *)
ASSUME JobsAssumption ==
  /\ Letters \subseteq Nat /\ first_epsilon \in Nat
  /\ \A j \in Jobs :
       /\ j.kind \in {"inclusion", "product", "determinize"}
       /\ j.algorithm \in {"classical", "brzozowski"} /\ j.condition \in {"And", "Or"}
       /\ j.may_stop \in BOOLEAN
       /\ IsNfa(j.lhs) /\ IsNfa(j.rhs) /\ j.symbols \subseteq Letters
       /\ j.kind = "product" => j.algorithm = "classical"
       /\ j.kind = "product" /\ j.condition = "Or" =>
            /\ \A a \in j.symbols : a < first_epsilon
            /\ IsCompleteDeterministic(j.lhs, j.symbols)
            /\ IsCompleteDeterministic(j.rhs, j.symbols)

VARIABLES
  job,       \* kind: "inclusion", "product", "determinize"
  stage,     \* "reverse", "determinize", "complement", "product", "emptiness", "done"
  complement \* the bigger automaton, determinized; then its complement

naivevars == <<detvars, productvars, emptyvars, job, stage, complement>>

revert(A) == [states |-> A.states, initial |-> A.final, final |-> A.initial,
              delta |-> {<<m[3], m[2], m[1]>> : m \in A.delta}]

ClosedUnder(A, S, D) ==
  LET within[n \in 0 .. Cardinality(A.states)] ==
        IF n = 0 THEN S
        ELSE LET before == within[n - 1]
             IN before \cup {m[3] : m \in {k \in D : k[1] \in before}}
  IN within[Cardinality(A.states)]

(* trim, as Trim shows it to work.                                          *)
Trimmed(A) ==
  LET useful == ClosedUnder(A, A.initial, A.delta) \cap
                ClosedUnder(A, A.final, revert(A).delta)
      renamed == [q \in useful |-> Cardinality({r \in useful : r < q})]
  IN [states |-> 0 .. Cardinality(useful) - 1,
      initial |-> {renamed[q] : q \in A.initial \cap useful},
      final |-> {renamed[q] : q \in A.final \cap useful},
      delta |-> {<<renamed[m[1]], m[2], renamed[m[3]]>> :
                   m \in {k \in A.delta : k[1] \in useful /\ k[3] \in useful}}]

(* Transitions to the sink; it is made a state if it is needed.             *)
make_complete(A, symbols, sink) ==
  LET missing == {p \in A.states \X symbols :
                    \A m \in A.delta : m[1] # p[1] \/ m[2] # p[2]}
      made == IF missing # {} THEN A.states \cup {sink} ELSE A.states
  IN [states |-> made, initial |-> A.initial, final |-> A.final,
      delta |-> A.delta \cup {<<p[1], p[2], sink>> : p \in missing} \cup
                {<<q, a, sink>> : q \in made \ A.states, a \in symbols}]

(* The sink is the initial state of an automaton that has none.             *)
WithInitial(A, sink) ==
  IF A.initial # {} THEN A
  ELSE [states |-> A.states \cup {sink}, initial |-> {sink}, final |-> A.final,
        delta |-> A.delta]

(* swap_final_nonfinal                                                      *)
Swapped(A) == [A EXCEPT !.final = A.states \ @]

(* Not the code: states are swapped before the sink is there.               *)
CompletedAfterSwap(A, symbols, sink) ==
  make_complete(Swapped(WithInitial(A, sink)), symbols, sink)

complement_deterministic(A, symbols, sink) ==
  Swapped(make_complete(WithInitial(A, sink), symbols, sink))

(* The sink is a new state, for Brzozowski the only state if none is final. *)
SinkOf(A) ==
  IF job.algorithm = "brzozowski" /\ A.final = {} THEN 0 ELSE Cardinality(A.states)

NoAutomaton == [states |-> {}, initial |-> {}, final |-> {}, delta |-> {}]
NoRun == [word |-> << >>, path |-> << >>]

NaiveInit ==
  /\ job \in Jobs
  /\ complement = NoAutomaton
  /\ stage = CASE job.kind = "product" -> "product"
               [] job.kind = "determinize" -> "determinize"
               [] job.kind = "inclusion" ->
                    IF job.algorithm = "brzozowski" THEN "reverse" ELSE "determinize"
  /\ DetCalled(IF job.algorithm = "brzozowski" THEN revert(job.rhs) ELSE job.rhs,
               job.may_stop)
  /\ ProductCalled(job.lhs, job.rhs, job.condition)
  /\ EmptyCalled(NoAutomaton, NoRun)

(* The second determinize of minimize_brzozowski.                           *)
DeterminizeAgain ==
  /\ stage = "reverse" /\ det_at = "done"
  /\ stage' = "determinize"
  /\ LET D == revert(Determinized)
     IN /\ original' = D /\ may_stop' = may_stop
        /\ subset_map' = [S \in {D.initial} |-> 0]
        /\ macro_worklist' = <<<<0, D.initial>>>>
        /\ macro_delta' = {}
        /\ macro_final' = IF D.initial \cap D.final # {} THEN {0} ELSE {}
        /\ expanding' = << >> /\ symbols_left' = {} /\ det_at' = "first"
  /\ UNCHANGED <<productvars, emptyvars, job, complement>>

(* Only the classical algorithm trims here: the other has nothing to trim.  *)
TrimDeterminized ==
  /\ stage = "determinize" /\ job.kind = "inclusion" /\ det_at = "done"
  /\ complement' = IF job.algorithm = "classical" THEN Trimmed(Determinized)
                                                  ELSE Determinized
  /\ stage' = "complement"
  /\ UNCHANGED <<detvars, productvars, emptyvars, job>>

Intersect ==
  /\ stage = "complement"
  /\ complement' = complement_deterministic(complement, job.symbols, SinkOf(complement))
  /\ rhs' = complement'
  /\ stage' = "product"
  /\ UNCHANGED <<detvars, emptyvars, job, lhs, condition, product_storage, inverted,
                 product_worklist, product_initial, product_final, product_delta,
                 product_source, pairs_left, pass, product_at>>

TestEmptiness ==
  /\ stage = "product" /\ job.kind = "inclusion" /\ product_at = "done"
  /\ searched' = ProductAutomaton
  /\ came_from' = [q \in ProductAutomaton.initial |-> q]
  /\ stage' = "emptiness"
  /\ UNCHANGED <<detvars, productvars, job, complement, list, source, targets_left,
                 walking, found_run, empty_at, empty_result>>

(* Not the code: the path is that of the product.                           *)
PathAsFound(path) == path

(* The inverse of prod_map.                                                 *)
PathInSmaller(path) == [n \in 1 .. Len(path) |-> inverted[path[n] + 1][1]]

ReturnAnswer ==
  /\ stage = "emptiness" /\ empty_at = "done"
  /\ found_run' = IF empty_result THEN found_run
                  ELSE [found_run EXCEPT !.path = PathInSmaller(@)]
  /\ stage' = "done"
  /\ UNCHANGED <<detvars, productvars, job, complement, searched, list, came_from,
                 source, targets_left, walking, empty_at, empty_result>>

NaiveNext ==
  \/ /\ stage \in {"reverse", "determinize"} /\ DetNext
     /\ UNCHANGED <<productvars, emptyvars, job, stage, complement>>
  \/ DeterminizeAgain
  \/ TrimDeterminized
  \/ Intersect
  \/ /\ stage = "product" /\ ProductNext
     /\ UNCHANGED <<detvars, emptyvars, job, stage, complement>>
  \/ TestEmptiness
  \/ /\ stage = "emptiness" /\ EmptyNext
     /\ UNCHANGED <<detvars, productvars, job, stage, complement>>
  \/ ReturnAnswer

NaiveSpec == NaiveInit /\ [][NaiveNext]_naivevars /\ WF_naivevars(NaiveNext)

------------------------------------------------------------------------------
Words == WordsUpTo(job.symbols, 4)

(* SubsetConstruction and PairsExpandedOnce, while they are under way.      *)
SubsetsAreRight == stage \in {"reverse", "determinize"} => SubsetConstruction
PairsAreRight == stage = "product" => PairsExpandedOnce

(* The complement is deterministic and complete over the alphabet, and      *)
(* accepts the words over it that the automaton does not accept.            *)
ComplementIsRight ==
  stage = "product" /\ product_at = "called" /\ job.kind = "inclusion" =>
    /\ \A q \in complement.states : \A a \in job.symbols :
         Cardinality({m \in complement.delta : m[1] = q /\ m[2] = a}) = 1
    /\ \A word \in Words : Accepts(complement, word) <=> ~Accepts(job.rhs, word)

(* The pairs of a state of lhs and a set of states of rhs that some word    *)
(* leads to, computed without regard to any of the constructions.           *)
PairsReached ==
  LET size == Cardinality(job.lhs.states) * 2 ^ Cardinality(job.rhs.states)
      within[n \in 0 .. size] ==
        IF n = 0 THEN job.lhs.initial \X {job.rhs.initial}
        ELSE LET before == within[n - 1]
             IN before \cup
                UNION {{<<m[3], Post(job.rhs, p[2], m[2])>> :
                          m \in {k \in job.lhs.delta : k[1] = p[1]}} : p \in before}
  IN within[size]

Included == \A p \in PairsReached : p[1] \in job.lhs.final => p[2] \cap job.rhs.final # {}

(* The chain of constructions answers whether the inclusion holds, and its  *)
(* counterexample is a run of the smaller automaton over a word that only   *)
(* the smaller one accepts.                                                 *)
NaiveAnswerIsRight ==
  /\ empty_result <=> Included
  /\ ~empty_result =>
       /\ Accepts(job.lhs, found_run.word) /\ ~Accepts(job.rhs, found_run.word)
       /\ IsRun(job.lhs, found_run.path, found_run.word)
       /\ Head(found_run.path) \in job.lhs.initial
       /\ Last(found_run.path) \in job.lhs.final

(* Epsilon transitions first_epsilon and above may be taken at any time.    *)
Silent(A) == {m \in A.delta : m[2] >= first_epsilon}

WithoutEpsilons(A) ==
  LET close(S) == ClosedUnder(A, S, Silent(A))
  IN [states |-> A.states, initial |-> close(A.initial), final |-> A.final,
      delta |-> UNION {{<<m[1], m[2], t>> : t \in close({m[3]})} :
                         m \in {k \in A.delta : k[2] < first_epsilon}}]

(* The product by And accepts the intersection, epsilons being silent; that *)
(* by Or of two complete deterministic automata accepts the union.          *)
ProductLanguage ==
  job.kind = "product" /\ product_at = "done" =>
    LET P == WithoutEpsilons(ProductAutomaton)
        L == WithoutEpsilons(lhs)
        R == WithoutEpsilons(rhs)
    IN \A word \in Words :
         Accepts(P, word) <=> IF condition = "And" THEN Accepts(L, word) /\ Accepts(R, word)
                                                   ELSE Accepts(L, word) \/ Accepts(R, word)

(* Each construction of the chain is right on its own.                      *)
ConstructionsAreRight ==
  SubsetsAreRight /\ PairsAreRight /\ ComplementIsRight /\ ProductLanguage

(* Every job ends, and a test of inclusion ends with the right answer.      *)
NaiveTestEndsRight ==
  <>(CASE job.kind = "inclusion" -> stage = "done" /\ NaiveAnswerIsRight
       [] job.kind = "product" -> product_at = "done"
       [] job.kind = "determinize" -> det_at \in {"done", "stopped"})

==============================================================================
