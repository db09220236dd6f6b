------------------------------ MODULE MCResidual ------------------------------
(***************************************************************************)
(* Residual for TLC.  reduce_residual hands over reversed deterministic    *)
(* automata: every state leads to the only final one, and a symbol enters  *)
(* a state from one state at most.                                         *)
(*                                                                         *)
(* A fan lets symbol n lead from state 0 to the n-th of a sequence of sets *)
(* of states, so that the macrostates are just these sets, found in any    *)
(* order.  In the automata of three states macrostates lead to each other. *)
(***************************************************************************)
EXTENDS Residual, TLC

CONSTANTS MaxMovesThree, FanSize

Leaves == 1 .. 3
Subsets == SUBSET Leaves \ {{}}

(* The leaves have symbols of their own, by which they lead to a last state.*)
FanOf(leaves, sets) ==
  LET last == Cardinality(leaves) + 1
  IN [states |-> 0 .. last, initial |-> {0}, final |-> {last},
      delta |-> UNION {{<<0, n, q>> : q \in sets[n]} : n \in DOMAIN sets}
                \cup {<<q, 10 + q, last>> : q \in leaves}]
Fan(sets) == FanOf(Leaves, sets)

(* Up to renaming of leaves for the first set.  In the end the third set is *)
(* found again: it may be covered by then, and so may what covered it.      *)
Fans ==
  {Fan(Append(sets, sets[3])) :
     sets \in {s \in [1 .. FanSize -> Subsets] :
                 s[1] \in {{1}, {1, 2}, {1, 2, 3}} /\ IsInjective(s)}}

(* A covered state stays in the set that covers another one.                *)
NestedFan == FanOf(1 .. 4, <<{1, 2, 3}, {1, 2}, {1}, {2}, {4}, {1, 2, 3, 4}, {3}, {1, 2, 3, 4}>>)

(* The order is no matter to reduce_residual_after.                         *)
UnorderedFans == {Fan(SetToSeq(family)) : family \in kSubset(FanSize, Subsets)}

ReachedFrom(q, D) ==
  LET within[n \in 0 .. 3] ==
        IF n = 0 THEN {q}
        ELSE LET before == within[n - 1]
             IN before \cup {m[3] : m \in {k \in D : k[1] \in before}}
  IN within[3]

OfThree ==
  LET graphs == {D \in UNION {{{<<d[1], d[2], to[d]>> : d \in X} : to \in [X -> 0 .. 2]} :
                       X \in UNION {kSubset(n, (0 .. 2) \X {0, 1}) : n \in 2 .. MaxMovesThree}} :
                   ReachedFrom(0, D) = 0 .. 2}
  IN {[states |-> 0 .. 2, initial |-> I, final |-> {0},
       delta |-> {<<m[3], m[2], m[1]>> : m \in D}] :
        D \in graphs, I \in SUBSET (0 .. 2) \ {{}}}

MCJobs == [nfa : Fans \cup OfThree \cup {NestedFan}, type : {"with"}]
          \cup [nfa : UnorderedFans \cup OfThree, type : {"after"}]

==============================================================================
