------------------------------- MODULE Automata -------------------------------
(***************************************************************************)
(* Nondeterministic finite automata as values, shared by the modules about *)
(* the algorithms of src/nfa: an Nfa object (include/mata/nfa/nfa.hh) is   *)
(* its initial states, its final states and its transition relation.       *)
(* States and symbols are numbers, as in the code, because the order in    *)
(* which Delta stores them is the order in which the algorithms meet them. *)
(***************************************************************************)
EXTENDS Integers, Sequences

(* Nfa: states is 0 .. num_of_states() - 1.                                 *)
IsAutomaton(A, Symbol) ==
  /\ A.initial \subseteq A.states
  /\ A.final \subseteq A.states
  /\ A.delta \subseteq A.states \X Symbol \X A.states

(* The states are numbered from 0 on: the first is 0 and none is left out.  *)
Numbered(A) ==
  /\ A.states \subseteq Nat
  /\ A.states # {} => \E last \in A.states : A.states = 0 .. last

(* Nfa::post(states, symbol): one move on one symbol from a set of states.  *)
Post(A, S, a) == {t \in A.states : \E s \in S : <<s, a, t>> \in A.delta}

(* The states in which the automaton can be after each prefix of a word.    *)
Read(A, word) ==
  LET at[n \in 0 .. Len(word)] ==
        IF n = 0 THEN A.initial ELSE Post(A, at[n - 1], word[n])
  IN at[Len(word)]

(* Nfa::is_in_lang.                                                         *)
Accepts(A, word) == Read(A, word) \cap A.final # {}

(* A path is a run over the word: one transition per letter.                *)
IsRun(A, path, word) ==
  /\ Len(path) = Len(word) + 1
  /\ \A n \in 1 .. Len(word) : <<path[n], word[n], path[n + 1]>> \in A.delta

(* The words over Symbol that are at most n letters long.                   *)
WordsUpTo(Symbol, n) == UNION {[1 .. k -> Symbol] : k \in 0 .. n}

(* Nfa::distances_to_final: the length of a shortest word accepted from     *)
(* each state; a state that accepts nothing is farther than any other.      *)
Far(A) == 1 + IF A.states = {} THEN 0
              ELSE CHOOSE m \in A.states : \A s \in A.states : s <= m

DistanceToFinal(A) ==
  LET within[n \in 0 .. Far(A)] ==
        IF n = 0 THEN A.final
        ELSE LET before == within[n - 1]
             IN before \cup {m[1] : m \in {k \in A.delta : k[3] \in before}}
  IN [s \in A.states |->
       IF s \notin within[Far(A)] THEN Far(A)
       ELSE CHOOSE n \in 0 .. Far(A) :
              s \in within[n] /\ \A k \in 0 .. n - 1 : s \notin within[k]]

==============================================================================
