------------------------------ MODULE MCHopcroft ------------------------------
(***************************************************************************)
(* Hopcroft for TLC: all trimmed automata of three states over two symbols *)
(* and some of four states, in which the initial and the only final state  *)
(* are fixed.                                                              *)
(***************************************************************************)
EXTENDS Hopcroft, TLC

CONSTANTS MaxMovesFour, FewestMovesFour

ClosedUnder(S, D) ==
  LET within[n \in 0 .. 4] ==
        IF n = 0 THEN S
        ELSE LET before == within[n - 1]
             IN before \cup {m[2] : m \in {k \in D : k[1] \in before}}
  IN within[4]

(* The transition relations whose domain is in Domains and by which all of  *)
(* Q can be reached from 0.                                                 *)
Deltas(Domains, Q) ==
  {D \in UNION {{{<<d[1], d[2], to[d]>> : d \in X} : to \in [X -> Q]} : X \in Domains} :
     ClosedUnder({0}, {<<m[1], m[3]>> : m \in D}) = Q}

(* With the sets of final states to which all of Q leads.                   *)
TrimmedDfas(Domains, Q, Finals) ==
  {A \in {[states |-> Q, initial |-> {0}, final |-> F, delta |-> D] :
            F \in Finals, D \in Deltas(Domains, Q)} :
     ClosedUnder(A.final, {<<m[3], m[1]>> : m \in A.delta}) = Q}

OfOne == {[states |-> {0}, initial |-> {0}, final |-> {0}, delta |-> {}]}
OfThree == TrimmedDfas(SUBSET ((0 .. 2) \X {0, 1}), 0 .. 2, SUBSET (0 .. 2))
OfFour == TrimmedDfas(UNION {kSubset(n, (0 .. 3) \X {0, 1}) :
                               n \in FewestMovesFour .. MaxMovesFour}, 0 .. 3, {{3}})

(* No states at all. *)
OfNone == {[states |-> {}, initial |-> {}, final |-> {}, delta |-> {}]}
MCDfas == OfNone \cup OfOne \cup OfThree \cup OfFour

==============================================================================
