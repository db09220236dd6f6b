------------------------------ MODULE MCTrim ------------------------------
(***************************************************************************)
(* Trim, with TarjanScc, for TLC: all graphs of NumStates states over one  *)
(* symbol, and all of two states over two symbols, where a move may have a *)
(* parallel one; no, one or two initial states, the two in either order.   *)
(***************************************************************************)
EXTENDS Trim, TLC

CONSTANT NumStates

MCSymbol == {0, 1}
MCStates == 0 .. NumStates - 1

Orders == {<< >>, <<0>>, <<0, 1>>, <<1, 0>>}

Automaton(Q, o, F, D) ==
  [aut |-> [states |-> Q, initial |-> ToSet(o), final |-> F, delta |-> D],
   order |-> o]

MCInputs ==
  {Automaton(MCStates, o, F, D) :
     o \in Orders, F \in {{NumStates - 1}, {0, 1}, {1}},
     D \in SUBSET (MCStates \X {0} \X MCStates)}
  \cup
  {Automaton({0, 1}, o, {1}, D) :
     o \in Orders, D \in SUBSET ({0, 1} \X MCSymbol \X {0, 1})}

MCClients == {"useful", "empty", "acyclic", "flat"}

==============================================================================
