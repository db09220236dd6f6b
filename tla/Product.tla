-------------------------------- MODULE Product --------------------------------
(***************************************************************************)
(* algorithms::product (src/nfa/product.cc) and nfa::product, intersection *)
(* and union_det_complete on top of it (src/nfa/operations.cc).            *)
(*                                                                         *)
(* A step takes a product state off the worklist or handles one pair of    *)
(* targets.  Symbols from first_epsilon on are epsilons: they move one     *)
(* component and leave the other.  product_storage is TwoDimensionalMap    *)
(* (include/mata/utils/two-dimensional-map.hh), which also keeps for each  *)
(* product state the pair it stands for.                                   *)
(***************************************************************************)
EXTENDS Automata, FiniteSets, SequencesExt

CONSTANTS
  Letters,         \* the symbols on transitions, epsilons included
  first_epsilon

VARIABLES
  lhs, rhs,
  condition,          \* "And", "Or": ProductFinalStateCondition
  product_storage,    \* pair |-> product state
  inverted,           \* sequence: the pair of product state n - 1
  product_worklist,
  product_initial, product_final, product_delta,
  product_source,     \* the state taken off the worklist; Nowhere before
  pairs_left,         \* <<symbol, lhs target, rhs target>>, in the pass under way
  pass,               \* "symbols", "lhs epsilons", "rhs epsilons", "idle"
  product_at          \* "called", "initial", "loop", "done"

productvars == <<lhs, rhs, condition, product_storage, inverted, product_worklist,
                 product_initial, product_final, product_delta, product_source,
                 pairs_left, pass, product_at>>

Nowhere == -1
NothingStored == [p \in {} |-> 0]

(* The variables when product is called on A and B.                         *)
ProductCalled(A, B, c) ==
  /\ lhs = A /\ rhs = B /\ condition = c
  /\ product_storage = NothingStored /\ inverted = << >>
  /\ product_worklist = << >>
  /\ product_initial = {} /\ product_final = {} /\ product_delta = {}
  /\ product_source = Nowhere /\ pairs_left = {} /\ pass = "idle"
  /\ product_at = "called"

Trivial(A) == A.initial = {} \/ A.final = {}

(* An argument that accepts nothing: the other for Or, nothing for And.     *)
EarlyReturn ==
  /\ product_at = "called" /\ (Trivial(lhs) \/ Trivial(rhs))
  /\ product_at' = "done"
  /\ UNCHANGED <<lhs, rhs, condition, product_storage, inverted, product_worklist,
                 product_initial, product_final, product_delta, product_source,
                 pairs_left, pass>>

StartProduct ==
  /\ product_at = "called" /\ ~Trivial(lhs) /\ ~Trivial(rhs)
  /\ pairs_left' = {<<0, s, t>> : s \in lhs.initial, t \in rhs.initial}
  /\ product_at' = "initial"
  /\ UNCHANGED <<lhs, rhs, condition, product_storage, inverted, product_worklist,
                 product_initial, product_final, product_delta, product_source, pass>>

final_condition(s, t) ==
  IF condition = "Or" THEN s \in lhs.final \/ t \in rhs.final
                      ELSE s \in lhs.final /\ t \in rhs.final

(* product.add_state().                                                     *)
NewProductState == Len(inverted)

(* create_product_state: both directions of the map, worklist, final.       *)
Store(s, t) ==
  LET q == NewProductState
  IN /\ product_storage' = [p \in DOMAIN product_storage \cup {<<s, t>>} |->
                              IF p = <<s, t>> THEN q ELSE product_storage[p]]
     /\ inverted' = Append(inverted, <<s, t>>)
     /\ product_worklist' = Append(product_worklist, q)
     /\ product_final' = IF final_condition(s, t) THEN product_final \cup {q}
                                                  ELSE product_final

Unstored == UNCHANGED <<product_storage, inverted, product_worklist, product_final>>

(* The loop over the pairs of initial states, which come in any order.      *)
StoreInitial ==
  /\ product_at = "initial"
  /\ IF pairs_left = {} THEN product_at' = "loop" /\ Unstored
                             /\ UNCHANGED <<product_initial, pairs_left>>
     ELSE \E p \in pairs_left :
            /\ Store(p[2], p[3])
            /\ product_initial' = product_initial \cup {NewProductState}
            /\ pairs_left' = pairs_left \ {p}
            /\ UNCHANGED product_at
  /\ UNCHANGED <<lhs, rhs, condition, product_delta, product_source, pass>>

lhs_source == inverted[product_source + 1][1]
rhs_source == inverted[product_source + 1][2]

(* The universal iterator stops at equal symbols, before the epsilons.      *)
SymbolPairs(s, t) ==
  {<<mn[1][2], mn[1][3], mn[2][3]>> : mn \in
     {mn \in lhs.delta \X rhs.delta :
        /\ mn[1][1] = s /\ mn[2][1] = t
        /\ mn[1][2] = mn[2][2] /\ mn[1][2] < first_epsilon}}

LhsEpsilonPairs(s, t) ==
  {<<m[2], m[3], t>> : m \in {k \in lhs.delta : k[1] = s /\ k[2] >= first_epsilon}}

RhsEpsilonPairs(s, t) ==
  {<<m[2], s, m[3]>> : m \in {k \in rhs.delta : k[1] = t /\ k[2] >= first_epsilon}}

TakeProductState ==
  /\ product_at = "loop" /\ pass = "idle" /\ product_worklist # << >>
  /\ product_source' = Last(product_worklist)
  /\ product_worklist' = Front(product_worklist)
  /\ pairs_left' = SymbolPairs(inverted[product_source' + 1][1],
                                inverted[product_source' + 1][2])
  /\ pass' = "symbols"
  /\ UNCHANGED <<lhs, rhs, condition, product_storage, inverted, product_initial,
                 product_final, product_delta, product_at>>

(* By symbol, then by the target in lhs, then by the target in rhs.         *)
PairBefore(p, q) ==
  \/ p[1] < q[1]
  \/ p[1] = q[1] /\ (p[2] < q[2] \/ (p[2] = q[2] /\ p[3] < q[3]))
NextPair == CHOOSE p \in pairs_left : \A q \in pairs_left : p = q \/ PairBefore(p, q)

(* create_product_state_and_symbol_post, and the transition to the state.   *)
ConnectPair ==
  /\ product_at = "loop" /\ pairs_left # {}
  /\ LET p == NextPair
         to == <<p[2], p[3]>>
         known == to \in DOMAIN product_storage
     IN /\ IF known THEN Unstored ELSE Store(p[2], p[3])
        /\ product_delta' = product_delta \cup
             {<<product_source, p[1],
                IF known THEN product_storage[to] ELSE NewProductState>>}
        /\ pairs_left' = pairs_left \ {p}
  /\ UNCHANGED <<lhs, rhs, condition, product_initial, product_source, pass, product_at>>

LhsEpsilons ==
  /\ product_at = "loop" /\ pass = "symbols" /\ pairs_left = {}
  /\ pairs_left' = LhsEpsilonPairs(lhs_source, rhs_source)
  /\ pass' = "lhs epsilons"
  /\ UNCHANGED <<lhs, rhs, condition, product_storage, inverted, product_worklist,
                 product_initial, product_final, product_delta, product_source, product_at>>

RhsEpsilons ==
  /\ product_at = "loop" /\ pass = "lhs epsilons" /\ pairs_left = {}
  /\ pairs_left' = RhsEpsilonPairs(lhs_source, rhs_source)
  /\ pass' = "rhs epsilons"
  /\ UNCHANGED <<lhs, rhs, condition, product_storage, inverted, product_worklist,
                 product_initial, product_final, product_delta, product_source, product_at>>

LeaveProductState ==
  /\ product_at = "loop" /\ pass = "rhs epsilons" /\ pairs_left = {}
  /\ pass' = "idle"
  /\ UNCHANGED <<lhs, rhs, condition, product_storage, inverted, product_worklist,
                 product_initial, product_final, product_delta, product_source,
                 pairs_left, product_at>>

ReturnProduct ==
  /\ product_at = "loop" /\ pass = "idle" /\ product_worklist = << >>
  /\ product_at' = "done"
  /\ UNCHANGED <<lhs, rhs, condition, product_storage, inverted, product_worklist,
                 product_initial, product_final, product_delta, product_source,
                 pairs_left, pass>>

ProductNext ==
  \/ EarlyReturn \/ StartProduct \/ StoreInitial
  \/ TakeProductState \/ ConnectPair
  \/ LhsEpsilons \/ RhsEpsilons \/ LeaveProductState
  \/ ReturnProduct

(* What product returns.                                                    *)
ProductAutomaton ==
  IF condition = "Or" /\ Trivial(lhs) THEN rhs
  ELSE IF condition = "Or" /\ Trivial(rhs) THEN lhs
  ELSE [states |-> 0 .. Len(inverted) - 1, initial |-> product_initial,
        final |-> product_final, delta |-> product_delta]

------------------------------------------------------------------------------
PairOf(q) == inverted[q + 1]
Stored == 0 .. Len(inverted) - 1

(* The transitions of a pair in the product, by definition.                 *)
PairMoves(p) ==
  {m \in Letters \X lhs.states \X rhs.states :
     IF m[1] < first_epsilon
       THEN <<p[1], m[1], m[2]>> \in lhs.delta /\ <<p[2], m[1], m[3]>> \in rhs.delta
       ELSE \/ <<p[1], m[1], m[2]>> \in lhs.delta /\ m[3] = p[2]
            \/ <<p[2], m[1], m[3]>> \in rhs.delta /\ m[2] = p[1]}

MovesOf(q) == {<<m[2], PairOf(m[3])[1], PairOf(m[3])[2]>> :
                 m \in {k \in product_delta : k[1] = q}}

(* Both directions of the map agree and number the pairs without gaps; no   *)
(* pair waits twice or is expanded twice; a product state that is neither   *)
(* waiting nor in hand has just the transitions of its pair; final states   *)
(* are those of the condition.                                              *)
PairsExpandedOnce ==
  /\ \A q \in Stored : product_storage[PairOf(q)] = q
  /\ Cardinality(DOMAIN product_storage) = Len(inverted)
  /\ Cardinality(ToSet(product_worklist)) = Len(product_worklist)
  /\ \A q \in ToSet(product_worklist) : MovesOf(q) = {}
  /\ \A q \in Stored : MovesOf(q) \subseteq PairMoves(PairOf(q))
  /\ \A q \in Stored \ ToSet(product_worklist) :
       pass = "idle" \/ q # product_source => MovesOf(q) = PairMoves(PairOf(q))
  /\ product_final = {q \in Stored : final_condition(PairOf(q)[1], PairOf(q)[2])}
  /\ product_at \in {"loop", "done"} /\ inverted # << >> =>
       {PairOf(q) : q \in product_initial} = lhs.initial \X rhs.initial

==============================================================================
