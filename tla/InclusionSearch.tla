--------------------------- MODULE InclusionSearch ---------------------------
(***************************************************************************)
(* The antichain test of language inclusion without its data structures    *)
(* (src/nfa/inclusion.cc, is_included_antichains): a search through the    *)
(* pairs <<q, S>> of a state of the smaller automaton and the set of       *)
(* states the bigger one can be in after the same word.  Pairs are taken   *)
(* in any order, and a pair may be reported as hopeless as soon as a       *)
(* rejected word is bound to follow.  AntichainInclusion adds the order,   *)
(* the pruning test and the counterexample of the code, and implements     *)
(* this specification.                                                     *)
(***************************************************************************)
EXTENDS Automata

CONSTANTS
  Symbol,
  Inputs            \* the pairs <<smaller, bigger>> of automata to compare

ASSUME InputsAssumption ==
  \A in \in Inputs : IsAutomaton(in[1], Symbol) /\ IsAutomaton(in[2], Symbol)

VARIABLES
  smaller, bigger,  \* the arguments
  starts,           \* the initial states of smaller not looked at yet
  processed,        \* the antichain of pairs found so far
  waiting,          \* the pairs in the worklist
  todo,             \* moves <<pair, symbol, target>> of the pair in hand
  verdict           \* "none" until the search returns

searchvars == <<smaller, bigger, starts, processed, waiting, todo, verdict>>

Pair == smaller.states \X SUBSET bigger.states

(* (q, S) makes (q, T) superfluous when S is a subset of T.                 *)
Subsumes(p, d) == p[1] = d[1] /\ p[2] \subseteq d[2]

Covered(p, D) == \E d \in D : Subsumes(d, p)
Without(D, p) == {d \in D : ~Subsumes(p, d)}

(* smaller accepts here and bigger does not.                                *)
Rejecting(p) == p[1] \in smaller.final /\ p[2] \cap bigger.final = {}

Moves(p) == {<<p, m[2], m[3]>> : m \in {x \in smaller.delta : x[1] = p[1]}}
Successor(m) == <<m[3], Post(bigger, m[1][2], m[2])>>

(* A set of pairs with every pair that a common word leads to from it.      *)
Closed(X) == \A p \in X : \A m \in Moves(p) : Successor(m) \in X

(* Some word leads from the pair to a rejecting one.                        *)
Hopeless(p) == \A X \in SUBSET Pair :
                 p \in X /\ Closed(X) => \E r \in X : Rejecting(r)

InitialPairs == {<<q, bigger.initial>> : q \in smaller.initial}

(* Every word of smaller is a word of bigger: no word leads from an initial *)
(* pair to a rejecting one, that is, the initial pairs lie in a closed set  *)
(* that has none.                                                           *)
Included == \E X \in SUBSET Pair :
              InitialPairs \subseteq X /\ Closed(X) /\ \A p \in X : ~Rejecting(p)

------------------------------------------------------------------------------
Init ==
  /\ <<smaller, bigger>> \in Inputs
  /\ starts = smaller.initial
  /\ processed = {} /\ waiting = {} /\ todo = {}
  /\ verdict = "none"

(* An initial state that is not rejected waits with bigger's initial states.*)
EnterStart(q) ==
  /\ starts' = starts \ {q}
  /\ processed' = processed \cup {<<q, bigger.initial>>}
  /\ waiting' = waiting \cup {<<q, bigger.initial>>}
  /\ UNCHANGED <<smaller, bigger, todo, verdict>>

(* Take a pair in hand.                                                     *)
TakePair(p) ==
  /\ waiting' = waiting \ {p}
  /\ todo' = Moves(p)
  /\ UNCHANGED <<smaller, bigger, starts, processed, verdict>>

SkipMove(m) ==
  /\ todo' = todo \ {m}
  /\ UNCHANGED <<smaller, bigger, starts, processed, waiting, verdict>>

(* A new pair evicts what it makes superfluous and waits.                   *)
AddPair(m) ==
  /\ processed' = Without(processed, Successor(m)) \cup {Successor(m)}
  /\ waiting' = Without(waiting, Successor(m)) \cup {Successor(m)}
  /\ todo' = todo \ {m}
  /\ UNCHANGED <<smaller, bigger, starts, verdict>>

Answer(v) ==
  /\ verdict' = v
  /\ UNCHANGED <<smaller, bigger, starts, processed, waiting, todo>>

Running == verdict = "none"

Start(q) == Running /\ q \in starts /\ ~Rejecting(<<q, bigger.initial>>)
            /\ EnterStart(q)
Take(p) == Running /\ starts = {} /\ todo = {} /\ p \in waiting /\ TakePair(p)
Skip(m) == Running /\ m \in todo /\ Covered(Successor(m), processed)
           /\ ~Rejecting(Successor(m)) /\ SkipMove(m)
Add(m) == Running /\ m \in todo /\ ~Covered(Successor(m), processed)
          /\ ~Rejecting(Successor(m)) /\ AddPair(m)
Accept == Running /\ starts = {} /\ todo = {} /\ waiting = {}
          /\ Answer("included")
Refuse == /\ Running
          /\ \/ \E q \in starts : Rejecting(<<q, bigger.initial>>)
             \/ \E m \in todo : Hopeless(Successor(m))
          /\ Answer("not included")

Next ==
  \/ \E q \in starts : Start(q)
  \/ \E p \in waiting : Take(p)
  \/ \E m \in todo : Skip(m) \/ Add(m)
  \/ Accept
  \/ Refuse

Spec == Init /\ [][Next]_searchvars

------------------------------------------------------------------------------
(* Properties.                                                              *)

(* Type invariant.                                                          *)
TypeOK ==
  /\ <<smaller, bigger>> \in Inputs
  /\ starts \subseteq smaller.initial
  /\ processed \subseteq Pair
  /\ waiting \subseteq processed
  /\ \A m \in todo : m[1] \in Pair /\ m \in Moves(m[1])
  /\ verdict \in {"none", "included", "not included"}

(* Nothing is lost by the pruning: an initial pair or the successor of a    *)
(* processed pair is covered, unless it is still to be looked at.           *)
StartsCovered == \A q \in smaller.initial \ starts :
                   Covered(<<q, bigger.initial>>, processed)
MovesCovered == \A p \in processed \ waiting : \A m \in Moves(p) :
                  m \in todo \/ Covered(Successor(m), processed)

(* No processed pair is rejecting, and all of them are really reached: they *)
(* lie in every closed set around the initial pairs.                        *)
NoneRejecting == \A p \in processed : ~Rejecting(p)
AllReached == \A X \in SUBSET Pair :
                \/ processed \subseteq X /\ \A m \in todo : m[1] \in X
                \/ ~(InitialPairs \subseteq X)
                \/ ~Closed(X)

(* The pairs kept are an antichain.                                         *)
Antichain == \A p, d \in processed : Subsumes(p, d) => p = d

(* Inductive invariant.                                                     *)
SearchInv ==
  /\ Antichain
  /\ starts # {} => processed \subseteq InitialPairs /\ todo = {}
  /\ StartsCovered
  /\ MovesCovered
  /\ NoneRejecting
  /\ AllReached
  /\ verdict = "included" => starts = {} /\ todo = {} /\ waiting = {}
  /\ verdict = "not included" => ~Included

(* The answer is right although most pairs are pruned: "included" exactly   *)
(* when every word of the smaller automaton is a word of the bigger one.    *)
Correct == verdict # "none" => (verdict = "included" <=> Included)

==============================================================================
