------------------------- MODULE MCAntichainInclusion -------------------------
(***************************************************************************)
(* AntichainInclusion for TLC: all automata of two states over two symbols *)
(* with few transitions, one initial state in smaller and one or two in    *)
(* bigger; and all universality tests of an automaton like bigger.         *)
(***************************************************************************)
EXTENDS AntichainInclusion, TLC

CONSTANTS MaxMovesSmaller, MaxMovesBigger

MCSymbol == {0, 1}
MCStates == {0, 1}

Deltas(max) == UNION {kSubset(k, MCStates \X MCSymbol \X MCStates) : k \in 0 .. max}

SmallerAutomata ==
  {[states |-> MCStates, initial |-> {0}, final |-> F, delta |-> D] :
     F \in {{1}, {0, 1}}, D \in Deltas(MaxMovesSmaller)}

BiggerAutomata ==
  {[states |-> MCStates, initial |-> I, final |-> {1}, delta |-> D] :
     I \in {{0}, {0, 1}}, D \in Deltas(MaxMovesBigger)}

(* All words over an alphabet, which may lack a symbol of the automaton.    *)
AllWords(alphabet) ==
  [states |-> {0}, initial |-> {0}, final |-> {0},
   delta |-> {<<0, a, 0>> : a \in alphabet}]

MCUniversality ==
  {AllWords(alphabet) : alphabet \in {{0}, {0, 1}}} \X
  {[states |-> MCStates, initial |-> I, final |-> F, delta |-> D] :
     I \in {{0}, {0, 1}}, F \in {{0}, {1}}, D \in Deltas(MaxMovesBigger)}

MCInputs == (SmallerAutomata \X BiggerAutomata) \cup MCUniversality

FreshRun == {[word |-> << >>, path |-> << >>]}

==============================================================================
