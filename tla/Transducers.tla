------------------------------ MODULE Transducers ------------------------------
(***************************************************************************)
(* Nondeterministic finite transducers as values, shared by the modules    *)
(* about src/nft.  An Nft is an Nfa whose states have levels; a move from  *)
(* level i writes on tape i, and a move that skips levels (a jump) writes  *)
(* on the tapes it skips as the JumpMode says.                             *)
(*                                                                         *)
(* Relation is the reference the algorithms are compared with: the tuples  *)
(* of words that are accepted in a bounded number of rounds, a round being *)
(* a walk from level 0 to level 0.                                         *)
(***************************************************************************)
EXTENDS Reductions

CONSTANTS
  EPSILON,    \* the greatest symbol: silent
  DONT_CARE,  \* the symbol below it: any letter
  Letters     \* the symbols DONT_CARE stands for

JumpModes == {"RepeatSymbol", "AppendDontCares", "NoJump"}

IsTransducer(T) ==
  /\ IsAutomaton(T, Letters \cup {EPSILON, DONT_CARE})
  /\ T.num_of_levels \in Nat \ {0}
  /\ T.levels \in [T.states -> 0 .. T.num_of_levels - 1]
  /\ T.initial \cup T.final \subseteq {q \in T.states : T.levels[q] = 0}
  /\ \A m \in T.delta : T.levels[m[3]] = 0 \/ T.levels[m[1]] < T.levels[m[3]]

(* Level 0 as a target is the level behind the last one.                    *)
StopLevel(T, t) == IF T.levels[t] = 0 THEN T.num_of_levels ELSE T.levels[t]
TransLen(T, m) == StopLevel(T, m[3]) - T.levels[m[1]]

(* The symbol a move writes on the level-th of the tapes it passes.         *)
SymbolOnLevel(T, m, level, mode) ==
  IF mode # "AppendDontCares" \/ level = T.levels[m[1]] THEN m[2] ELSE DONT_CARE

(* What a symbol may put on a tape.                                         *)
Writes(a) == IF a = EPSILON THEN {<< >>}
             ELSE IF a = DONT_CARE THEN {<<x>> : x \in Letters} ELSE {<<a>>}

(* A configuration is a state and the tapes written so far.  A DONT_CARE    *)
(* that is repeated stands for a letter of its own on every tape.           *)
MoveOf(T, config, m, mode) ==
  LET from == T.levels[m[1]] + 1
      to == StopLevel(T, m[3])
      written == {w \in [from .. to -> Writes(m[2]) \cup Writes(DONT_CARE)] :
                    \A i \in from .. to : w[i] \in Writes(SymbolOnLevel(T, m, i - 1, mode))}
  IN {<<m[3], [i \in 1 .. T.num_of_levels |->
                 IF i \in from .. to THEN config[2][i] \o w[i] ELSE config[2][i]]>> :
        w \in written}

Moves(T, C, mode) ==
  UNION {UNION {MoveOf(T, c, m, mode) : m \in {k \in T.delta : k[1] = c[1]}} : c \in C}

(* One round: from level 0 over the levels to level 0.                      *)
Round(T, C, mode) ==
  LET after[n \in 0 .. T.num_of_levels] ==
        IF n = 0 THEN [open |-> C, closed |-> {}]
        ELSE LET before == after[n - 1]
                 next == Moves(T, before.open, mode)
             IN [open |-> {c \in next : T.levels[c[1]] # 0},
                 closed |-> before.closed \cup {c \in next : T.levels[c[1]] = 0}]
  IN after[T.num_of_levels].closed

NoWords(T) == [i \in 1 .. T.num_of_levels |-> << >>]

ConfigurationsFrom(T, S, mode, rounds) ==
  LET within[n \in 0 .. rounds] ==
        IF n = 0 THEN {<<q, NoWords(T)>> : q \in S}
        ELSE LET before == within[n - 1] IN before \cup Round(T, before, mode)
  IN within[rounds]

Relation(T, mode, rounds) ==
  {c[2] : c \in {k \in ConfigurationsFrom(T, T.initial, mode, rounds) : k[1] \in T.final}}

(* The tuples that are accepted in this many rounds, no more and no fewer.  *)
RelationIn(T, mode, rounds) ==
  LET after[n \in 0 .. rounds] ==
        IF n = 0 THEN {<<q, NoWords(T)>> : q \in T.initial}
        ELSE LET before == after[n - 1] IN Round(T, before, mode)
  IN {c[2] : c \in {k \in after[rounds] : k[1] \in T.final}}

==============================================================================
