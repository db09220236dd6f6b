------------------------------- MODULE TarjanScc -------------------------------
(***************************************************************************)
(* Nfa::tarjan_scc_discover (src/nfa/nfa.cc): Tarjan's algorithm without   *)
(* recursion, and the four functions that give it callbacks:               *)
(* get_useful_states, is_lang_empty_scc, is_acyclic and is_flat.           *)
(*                                                                         *)
(* A step is one turn of the main loop up to the loop over the outgoing    *)
(* moves, one turn of that loop, or what follows it.  Instead of iterators *)
(* into Delta, moves_left[q] holds the moves of q from current_move on.    *)
(***************************************************************************)
EXTENDS Automata, FiniteSets, SequencesExt

CONSTANTS
  Symbol,
  Inputs,     \* records [aut, order]: an automaton and its initial states in
              \* the order in which the SparseSet holds them
  Clients     \* a subset of {"useful", "empty", "acyclic", "flat"}

(* An automaton in memory is finite, and a SparseSet holds no state that is *)
(* not one of the automaton.                                                *)
ASSUME InputsAssumption ==
  /\ Symbol \subseteq Nat
  /\ \A in \in Inputs :
       /\ IsAutomaton(in.aut, Symbol) /\ Numbered(in.aut) /\ IsFiniteSet(in.aut.delta)
       /\ in.order \in Seq(in.aut.states) /\ ToSet(in.order) = in.aut.initial

VARIABLES
  aut, order,      \* *this and initial_states
  client,          \* the function that was called
  program_stack, tarjan_stack, index_cnt,
  initialized, on_stack, index, lowlink, moves_left,    \* node_info
  phase,           \* "main", "moves" (the inner loop), "closing", "done"
  useful,          \* variable of get_useful_states
  answer,          \* accepting_state negated, acyclic, flat
  sccs             \* history: the components in the order of scc_discover

node_info == <<initialized, on_stack, index, lowlink, moves_left>>
input == <<aut, order, client>>
vars == <<aut, order, client, program_stack, tarjan_stack, index_cnt,
          initialized, on_stack, index, lowlink, moves_left, phase, useful,
          answer, sccs>>

AtLeast(x, y) == IF x < y THEN x ELSE y

act_state == Last(program_stack)
MovesFrom(q) == {m \in aut.delta : m[1] = q}

(* Moves are sorted by symbol, those of one symbol by target.               *)
Before(m, n) == m[2] < n[2] \/ (m[2] = n[2] /\ m[3] < n[3])
current_move(q) ==
  CHOOSE m \in moves_left[q] : \A n \in moves_left[q] : m = n \/ Before(m, n)

TarjanInit ==
  /\ \E in \in Inputs : aut = in.aut /\ order = in.order
  /\ client \in Clients
  /\ program_stack = order /\ tarjan_stack = << >> /\ index_cnt = 0
  /\ initialized = [q \in aut.states |-> FALSE]
  /\ on_stack = [q \in aut.states |-> FALSE]
  /\ index = [q \in aut.states |-> 0]
  /\ lowlink = [q \in aut.states |-> 0]
  /\ moves_left = [q \in aut.states |-> {}]
  /\ phase = "main"
  /\ useful = {} /\ answer = TRUE /\ sccs = << >>

(* Not the code: the next turn begins with the state still on the stack.    *)
SkipLeavesState ==
  /\ phase = "main" /\ program_stack # << >>
  /\ initialized[act_state] /\ ~on_stack[act_state]
  /\ UNCHANGED vars

(* An initial state that was reached from another one is only taken off.    *)
Skip ==
  /\ phase = "main" /\ program_stack # << >>
  /\ initialized[act_state] /\ ~on_stack[act_state]
  /\ program_stack' = Front(program_stack)
  /\ UNCHANGED <<input, tarjan_stack, index_cnt, node_info, phase, useful,
                 answer, sccs>>

(* The first visit; state_discover may end the search.                      *)
Discover ==
  /\ phase = "main" /\ program_stack # << >> /\ ~initialized[act_state]
  /\ initialized' = [initialized EXCEPT ![act_state] = TRUE]
  /\ on_stack' = [on_stack EXCEPT ![act_state] = TRUE]
  /\ index' = [index EXCEPT ![act_state] = index_cnt]
  /\ lowlink' = [lowlink EXCEPT ![act_state] = index_cnt]
  /\ moves_left' = [moves_left EXCEPT ![act_state] = MovesFrom(act_state)]
  /\ index_cnt' = index_cnt + 1
  /\ tarjan_stack' = Append(tarjan_stack, act_state)
  /\ IF client = "empty" /\ act_state \in aut.final
       THEN answer' = FALSE /\ phase' = "done"
       ELSE answer' = answer /\ phase' = "moves"
  /\ useful' = IF client = "useful" /\ act_state \in aut.final
                 THEN useful \cup {act_state} ELSE useful
  /\ UNCHANGED <<input, program_stack, sccs>>

(* Not the code: the return takes over nothing from the successor.          *)
ReturnForgetsLowlink ==
  /\ phase = "main" /\ program_stack # << >>
  /\ initialized[act_state] /\ on_stack[act_state]
  /\ moves_left' = [moves_left EXCEPT ![act_state] = @ \ {current_move(act_state)}]
  /\ phase' = "moves"
  /\ UNCHANGED <<input, program_stack, tarjan_stack, index_cnt, initialized,
                 on_stack, index, lowlink, useful, answer, sccs>>

(* Back from the recursive call for the target of current_move.             *)
Return ==
  /\ phase = "main" /\ program_stack # << >>
  /\ initialized[act_state] /\ on_stack[act_state]
  /\ lowlink' = [lowlink EXCEPT ![act_state] =
                   AtLeast(@, lowlink[current_move(act_state)[3]])]
  /\ moves_left' = [moves_left EXCEPT ![act_state] = @ \ {current_move(act_state)}]
  /\ phase' = "moves"
  /\ UNCHANGED <<input, program_stack, tarjan_stack, index_cnt, initialized,
                 on_stack, index, useful, answer, sccs>>

(* succ_state_discover: a state with a useful successor is useful.          *)
SuccDiscovered(succ) ==
  useful' = IF client = "useful" /\ succ \in useful
              THEN useful \cup {act_state} ELSE useful

(* The recursive call; current_move stays for Return.                       *)
Call ==
  /\ phase = "moves" /\ moves_left[act_state] # {}
  /\ LET succ == current_move(act_state)[3]
     IN /\ ~initialized[succ]
        /\ SuccDiscovered(succ)
        /\ program_stack' = Append(program_stack, succ)
  /\ phase' = "main"
  /\ UNCHANGED <<input, tarjan_stack, index_cnt, node_info, answer, sccs>>

PassMove ==
  /\ phase = "moves" /\ moves_left[act_state] # {}
  /\ LET succ == current_move(act_state)[3]
     IN /\ initialized[succ]
        /\ SuccDiscovered(succ)
        /\ lowlink' = IF on_stack[succ]
                        THEN [lowlink EXCEPT ![act_state] = AtLeast(@, index[succ])]
                        ELSE lowlink
  /\ moves_left' = [moves_left EXCEPT ![act_state] = @ \ {current_move(act_state)}]
  /\ UNCHANGED <<input, program_stack, tarjan_stack, index_cnt, initialized,
                 on_stack, index, phase, answer, sccs>>

EndOfMoves ==
  /\ phase = "moves" /\ moves_left[act_state] = {}
  /\ phase' = "closing"
  /\ UNCHANGED <<input, program_stack, tarjan_stack, index_cnt, node_info,
                 useful, answer, sccs>>

(* act_state is not the root of its component.                              *)
LeaveOpen ==
  /\ phase = "closing" /\ lowlink[act_state] # index[act_state]
  /\ program_stack' = Front(program_stack)
  /\ phase' = "main"
  /\ UNCHANGED <<input, tarjan_stack, index_cnt, node_info, useful,
                 answer, sccs>>

(* What is on tarjan_stack from act_state up, and what is below it.         *)
RootAt == CHOOSE n \in 1 .. Len(tarjan_stack) : tarjan_stack[n] = act_state

Component == {tarjan_stack[n] : n \in RootAt .. Len(tarjan_stack)}
Below == SubSeq(tarjan_stack, 1, RootAt - 1)

(* A useful state in the component (final_scc) marks all of it and, from    *)
(* the top of the stack, the states below until one is marked already.      *)
Marked(scc, below) ==
  IF scc \cap useful # {}
    THEN scc \cup {below[n] : n \in {k \in 1 .. Len(below) :
                     \A l \in k .. Len(below) : below[l] \notin useful}}
    ELSE {}

(* More than one state, or a self-loop.                                     *)
Cyclic(scc) == Cardinality(scc) > 1 \/ \E m \in aut.delta : m[1] \in scc /\ m[1] = m[3]

(* Not the code: moves to the same state are counted once.                  *)
BranchesByState(scc) ==
  \E q \in scc : Cardinality({m[3] : m \in MovesFrom(q)} \cap scc) > 1

(* one_input_visited: a second move that stays in the component.            *)
Branches(scc) == \E q \in scc : Cardinality({m \in MovesFrom(q) : m[3] \in scc}) > 1

Refutes(scc) == \/ client = "acyclic" /\ Cyclic(scc)
                \/ client = "flat" /\ Branches(scc)

(* Pop the component, then scc_discover, which may end the search.          *)
CloseComponent ==
  /\ phase = "closing" /\ lowlink[act_state] = index[act_state]
  /\ tarjan_stack' = Below
  /\ on_stack' = [q \in aut.states |-> on_stack[q] /\ q \notin Component]
  /\ sccs' = Append(sccs, Component)
  /\ useful' = IF client = "useful" THEN useful \cup Marked(Component, Below)
                                    ELSE useful
  /\ IF Refutes(Component)
       THEN answer' = FALSE /\ phase' = "done" /\ program_stack' = program_stack
       ELSE answer' = answer /\ phase' = "main"
            /\ program_stack' = Front(program_stack)
  /\ UNCHANGED <<input, index_cnt, initialized, index, lowlink, moves_left>>

Finish ==
  /\ phase = "main" /\ program_stack = << >>
  /\ phase' = "done"
  /\ UNCHANGED <<input, program_stack, tarjan_stack, index_cnt, node_info,
                 useful, answer, sccs>>

TarjanNext ==
  \/ Skip \/ Discover \/ Return
  \/ Call \/ PassMove \/ EndOfMoves
  \/ LeaveOpen \/ CloseComponent \/ Finish

TarjanSpec == TarjanInit /\ [][TarjanNext]_vars /\ WF_vars(TarjanNext)

------------------------------------------------------------------------------
(* Reference definitions, by paths of the transition graph.                 *)

(* The states that can be reached from S by at most as many moves as states.*)
ReachedFrom(S) ==
  LET within[n \in 0 .. Cardinality(aut.states)] ==
        IF n = 0 THEN S
        ELSE LET before == within[n - 1]
             IN before \cup {m[3] : m \in {k \in aut.delta : k[1] \in before}}
  IN within[Cardinality(aut.states)]

Reached == ReachedFrom(aut.initial)
Reaching(S) == {q \in aut.states : ReachedFrom({q}) \cap S # {}}
UsefulStates == Reached \cap Reaching(aut.final)
Strongly(q) == {r \in ReachedFrom({q}) : q \in ReachedFrom({r})}

(* The cycles through q that pass each state once, as sets of moves.        *)
SimpleCycles(q) ==
  {C \in SUBSET {m \in aut.delta : m[1] \in Strongly(q) /\ m[3] \in Strongly(q)} :
     /\ \E m \in C : m[1] = q
     /\ \A m \in C : Cardinality({n \in C : n[1] = m[1]}) = 1
                     /\ Cardinality({n \in C : n[3] = m[3]}) = 1
                     /\ \E n \in C : n[1] = m[3]
     /\ LET to == [r \in {m[1] : m \in C} |-> (CHOOSE m \in C : m[1] = r)[3]]
            walk[n \in 0 .. Cardinality(C)] == IF n = 0 THEN q ELSE to[walk[n - 1]]
        IN {walk[n] : n \in 1 .. Cardinality(C)} = DOMAIN to}

(* Properties.                                                              *)

(* Types, and the two stacks together: tarjan_stack holds the states that   *)
(* are on_stack, in the order of their index.                               *)
TarjanTypeOK ==
  /\ ToSet(program_stack) \subseteq aut.states
  /\ ToSet(tarjan_stack) = {q \in aut.states : on_stack[q]}
  /\ \A m, n \in 1 .. Len(tarjan_stack) :
       m < n => index[tarjan_stack[m]] < index[tarjan_stack[n]]
  /\ \A q \in aut.states : on_stack[q] =>
       initialized[q] /\ 0 <= lowlink[q] /\ lowlink[q] <= index[q] /\ index[q] < index_cnt
  /\ useful \subseteq aut.states /\ answer \in BOOLEAN
  /\ phase \in {"main", "moves", "closing", "done"}

(* What the callbacks are given are the strongly connected components, each *)
(* once and after those that can be reached from it; at the end all of them *)
(* that can be reached have been given.                                     *)
ComponentsInOrder ==
  /\ \A n \in 1 .. Len(sccs) :
       /\ \A q \in sccs[n] : sccs[n] = Strongly(q)
       /\ ReachedFrom(sccs[n]) = UNION {sccs[k] : k \in
            {l \in 1 .. n : sccs[l] \cap ReachedFrom(sccs[n]) # {}}}
       /\ \A k \in 1 .. n - 1 : sccs[k] \cap sccs[n] = {}
  /\ phase = "done" /\ answer => UNION ToSet(sccs) = Reached

(* No state is marked that is not useful, at no time, and what is useful of *)
(* a component is marked when the component is closed, although marking the *)
(* states below stops at the first that is marked.                          *)
UsefulSoFar ==
  client = "useful" =>
    /\ useful \subseteq UsefulStates
    /\ \A n \in 1 .. Len(sccs) : sccs[n] \cap UsefulStates \subseteq useful
    /\ phase = "done" => useful = UsefulStates

(* At every step the two stacks agree, the components that are closed are   *)
(* the right ones, and usefulness has been passed down as far as it goes.   *)
SearchIsRight == TarjanTypeOK /\ ComponentsInOrder /\ UsefulSoFar

(* The answers of the other clients, for what the initial states reach and  *)
(* with parallel moves as two: no word is accepted, no cycle can be reached *)
(* (what a finite language needs), no two cycles share a state that can be  *)
(* reached.  The documentation speaks of the whole graph and of successors; *)
(* see AnswersAsDocumented.                                                 *)
AnswerIsRight ==
  phase = "done" =>
    /\ client = "empty" => (answer <=> Reached \cap aut.final = {})
    /\ client = "acyclic" => (answer <=> \A q \in Reached : SimpleCycles(q) = {})
    /\ client = "flat" =>
         (answer <=> \A q \in Reached : Cardinality(SimpleCycles(q)) <= 1)

(* What nfa.hh says of is_acyclic and is_flat, and the code does not do: no *)
(* cycle in the graph of the automaton, reached or not; and no state with   *)
(* two successors within its component, however many moves lead to one.     *)
AnswersAsDocumented ==
  phase = "done" =>
    /\ client = "acyclic" => (answer <=> \A q \in aut.states : SimpleCycles(q) = {})
    /\ client = "flat" =>
         (answer <=> \A q \in aut.states :
                       Cardinality({m[3] : m \in MovesFrom(q)} \cap Strongly(q)) <= 1)

(* Liveness: every call ends.                                               *)
Terminates == <>(phase = "done")

==============================================================================
