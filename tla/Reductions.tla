------------------------------ MODULE Reductions ------------------------------
(***************************************************************************)
(* Operations that turn an automaton into another one of a language that   *)
(* is known: trim, two of the reversals, the reduction by simulation       *)
(* (src/nfa/operations.cc), unify_initial and unify_final (src/nfa/nfa.cc). *)
(* Before them the worklists and orders that are shared with the modules   *)
(* of words and of transducers, which search as operators too.             *)
(*                                                                         *)
(* Where the code pushes to the end of ordered vectors a state has its     *)
(* transitions in a sequence: symbol posts, each with targets in sequence. *)
(***************************************************************************)
EXTENDS Automata, FiniteSets

------------------------------------------------------------------------------
(* Searches and orders.                                                     *)

(* What a worklist reaches from S, whatever the order it is emptied in.     *)
Closed(S, step(_)) ==
  LET RECURSIVE grown(_, _)
      grown(C, new) ==
        IF new = {} THEN C
        ELSE LET next == (UNION {step(c) : c \in new}) \ C IN grown(C \cup next, next)
  IN grown(S, S)

(* The states from which, and to which, the moves lead.                     *)
ReachableIn(delta, S, n) ==
  LET within[k \in 0 .. n] ==
        IF k = 0 THEN S
        ELSE UNION {{q} \cup {m[3] : m \in {d \in delta : d[1] = q}} : q \in within[k - 1]}
  IN within[n]
Turned(delta) == {<<m[3], m[2], m[1]>> : m \in delta}

(* trim, without the renumbering: what lies on no accepting run goes.       *)
Trimmed(T) ==
  LET n == Cardinality(T.states)
      useful == ReachableIn(T.delta, T.initial, n)
                \cap ReachableIn(Turned(T.delta), T.final, n)
  IN [T EXCEPT !.initial = @ \cap useful, !.final = @ \cap useful,
               !.delta = {m \in @ : m[1] \in useful /\ m[3] \in useful}]

(* What simlib computes: <<p, q>> when q simulates p.                       *)
simulation(states, lts) ==
  LET RECURSIVE shrunk(_)
      shrunk(R) ==
        LET next == {x \in R : \A m \in {k \in lts : k[1] = x[1]} :
                       \E k \in lts : k[1] = x[2] /\ k[2] = m[2] /\ <<m[3], k[3]>> \in R}
        IN IF next = R THEN R ELSE shrunk(next)
  IN shrunk(states \X states)

(* A finite set as a sequence, ascending in a strict total order.           *)
Ascending(S, less(_, _)) ==
  LET from[R \in SUBSET S] ==
        IF R = {} THEN << >>
        ELSE LET least == CHOOSE x \in R : \A y \in R \ {x} : less(x, y)
             IN <<least>> \o from[R \ {least}]
  IN from[S]

(* The order of transitions in a Delta: by source, symbol, target.          *)
StoredBefore(m, k) ==
  \/ m[1] < k[1]
  \/ m[1] = k[1] /\ m[2] < k[2]
  \/ m[1] = k[1] /\ m[2] = k[2] /\ m[3] < k[3]

------------------------------------------------------------------------------
(* fragile_revert and simple_revert.                                        *)

(* One transition at the end of a state post.                               *)
PushedBack(post, symbol, target) ==
  LET open == IF post = << >> \/ post[Len(post)].symbol # symbol
              THEN Append(post, [symbol |-> symbol, targets |-> << >>]) ELSE post
  IN [open EXCEPT ![Len(open)].targets = Append(@, target)]

(* One transition in its place in a state post, as Delta::add puts it; the  *)
(* end of the post is looked at before it is searched for the symbol.       *)
PutInPlace(post, symbol, target) ==
  LET at_end == post = << >> \/ post[Len(post)].symbol < symbol
      found == {n \in DOMAIN post : post[n].symbol = symbol}
      below(v, x) == Cardinality({n \in DOMAIN v : v[n] < x})
      place == Cardinality({n \in DOMAIN post : post[n].symbol < symbol})
      new == [symbol |-> symbol, targets |-> <<target>>]
      with(v) == IF \E n \in DOMAIN v : v[n] = target THEN v
                 ELSE SubSeq(v, 1, below(v, target)) \o <<target>>
                        \o SubSeq(v, below(v, target) + 1, Len(v))
  IN IF at_end THEN Append(post, new)
     ELSE IF found # {} THEN [post EXCEPT ![CHOOSE n \in found : TRUE].targets = with(@)]
     ELSE SubSeq(post, 1, place) \o <<new>> \o SubSeq(post, place + 1, Len(post))

(* The posts after the moves have been put into them one by one.            *)
Filled(states, moves, put(_, _, _)) ==
  LET after[n \in 0 .. Len(moves)] ==
        IF n = 0 THEN [q \in states |-> << >>]
        ELSE LET before == after[n - 1]
             IN [before EXCEPT ![moves[n][1]] = put(@, moves[n][2], moves[n][3])]
  IN after[Len(moves)]
AgainstTheMoves(moves) == [n \in DOMAIN moves |-> <<moves[n][3], moves[n][2], moves[n][1]>>]

(* They are kept apart by symbol first, each symbol in the order of sources;*)
(* the epsilon, apart from the array, comes last as it would by its value.  *)
fragile_revert(A) ==
  LET moves == Ascending(A.delta, LAMBDA m, k : StoredBefore(<<m[2], m[1], m[3]>>, <<k[2], k[1], k[3]>>))
  IN Filled(A.states, AgainstTheMoves(moves), PushedBack)

(* The state posts as they should be, ordered and without repetition; not   *)
(* the code of fragile_revert or simple_revert, which are compared with it. *)
PostsOf(states, delta) ==
  [q \in states |->
     LET symbols == Ascending({m[2] : m \in {k \in delta : k[1] = q}}, <)
     IN [n \in DOMAIN symbols |->
           [symbol |-> symbols[n],
            targets |-> Ascending({m[3] : m \in {k \in delta : k[1] = q /\ k[2] = symbols[n]}}, <)]]]

(* Each transition is added in its place, in the order it is stored in.     *)
simple_revert(A) ==
  Filled(A.states, AgainstTheMoves(Ascending(A.delta, StoredBefore)), PutInPlace)

(* What a Delta of these posts holds.                                       *)
DeltaOf(posts) ==
  {<<q, posts[q][n].symbol, t>> :
     <<q, n, t>> \in UNION {UNION {{<<q, n, posts[q][n].targets[k]>> : k \in DOMAIN posts[q][n].targets} :
                               n \in DOMAIN posts[q]} : q \in DOMAIN posts}}

revert(A) ==
  [states |-> A.states, initial |-> A.final, final |-> A.initial,
   delta |-> DeltaOf(simple_revert(A))]

------------------------------------------------------------------------------
(* Reduction by simulation.                                                 *)

(* The least number that is not a symbol marks the final states.            *)
unused_symbol(A) ==
  LET used == {m[2] : m \in A.delta}
  IN CHOOSE a \in 0 .. Cardinality(used) : a \notin used /\ \A b \in 0 .. a - 1 : b \in used

compute_fw_direct_simulation(A) ==
  simulation(A.states, A.delta \cup {<<q, unused_symbol(A), q>> : q \in A.final})

(* Not the code: a target that another one is like is dropped as well, also *)
(* where both are like each other.                                          *)
IsLike(A, sim, m) ==
  \A t \in {k[3] : k \in {d \in A.delta : d[1] = m[1] /\ d[2] = m[2]}} :
     t = m[3] \/ <<m[3], t>> \notin sim

(* A target that another one simulates is not needed; targets that simulate *)
(* each other are one, by their representative.                             *)
is_state_important(A, sim, m) ==
  \A t \in {k[3] : k \in {d \in A.delta : d[1] = m[1] /\ d[2] = m[2]}} :
     <<t, m[3]>> \in sim \/ <<m[3], t>> \notin sim

(* A class has the transitions of its first state, which is also its name.  *)
reduce_simulation(A) ==
  LET sim == compute_fw_direct_simulation(A)
      class(q) == {p \in A.states : <<p, q>> \in sim /\ <<q, p>> \in sim}
      quot_proj == [q \in A.states |-> CHOOSE p \in class(q) : \A r \in class(q) : p <= r]
      representatives == {quot_proj[q] : q \in A.states}
  IN [states |-> representatives,
      initial |-> {quot_proj[q] : q \in A.initial},
      final |-> A.final \cap representatives,
      delta |-> {<<m[1], m[2], quot_proj[m[3]]>> :
                   m \in {k \in A.delta : k[1] \in representatives /\ is_state_important(A, sim, k)}}]

------------------------------------------------------------------------------
(* One initial state, one final state.                                      *)

unify_initial(A, force_new_state) ==
  LET new == Cardinality(A.states)
  IN IF ~ force_new_state /\ Cardinality(A.initial) <= 1 THEN A
     ELSE [states |-> A.states \cup {new}, initial |-> {new},
           final |-> A.final \cup (IF A.initial \cap A.final = {} THEN {} ELSE {new}),
           delta |-> A.delta \cup {<<new, m[2], m[3]>> : m \in {k \in A.delta : k[1] \in A.initial}}]

unify_final(A, force_new_state) ==
  LET new == Cardinality(A.states)
  IN IF ~ force_new_state /\ Cardinality(A.final) <= 1 THEN A
     ELSE [states |-> A.states \cup {new}, final |-> {new},
           initial |-> A.initial \cup (IF A.initial \cap A.final = {} THEN {} ELSE {new}),
           delta |-> A.delta \cup {<<m[1], m[2], new>> : m \in {k \in A.delta : k[3] \in A.final}}]

==============================================================================
