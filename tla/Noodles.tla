-------------------------------- MODULE Noodles --------------------------------
(***************************************************************************)
(* String equations (src/applications/strings): Segmentation               *)
(* (segmentation.cc) and the noodlifications (noodlification.cc), with the *)
(* concatenation over a delimiter (src/nfa/concatenation.cc) and the       *)
(* product with epsilons (src/nfa/product.cc) as values.                   *)
(*                                                                         *)
(* A segment automaton is a chain of automata joined by epsilons.  A       *)
(* noodle is a sequence of automata, one way through the chain; with       *)
(* several epsilons each has the numbers of epsilons before it.            *)
(***************************************************************************)
EXTENDS Reductions, FiniteSetsExt

EmptyNfa == [states |-> {}, initial |-> {}, final |-> {}, delta |-> {}]
is_lang_empty(A) == Trimmed(A).initial = {}

(* concatenate_eps that keeps the epsilons.                                 *)
concatenate_eps(lhs, rhs, delimiter) ==
  LET k == Cardinality(lhs.states)
      Up(S) == {q + k : q \in S}
  IN IF {} \in {lhs.initial, lhs.final, rhs.initial, rhs.final} THEN EmptyNfa
     ELSE [states |-> lhs.states \cup Up(rhs.states),
           initial |-> lhs.initial, final |-> Up(rhs.final),
           delta |-> lhs.delta \cup {<<m[1] + k, m[2], m[3] + k>> : m \in rhs.delta}
                     \cup (lhs.final \X {delimiter} \X Up(rhs.initial))]

concatenate_with(nfas, delimiter) ==
  LET joined[n \in 1 .. Len(nfas)] ==
        IF n = 1 THEN nfas[1] ELSE concatenate_eps(joined[n - 1], nfas[n], delimiter)
  IN joined[Len(nfas)]

(* Symbols from first_epsilon on move one side alone.  A pair has a number  *)
(* of its own, another one than in the code, and nothing depends on it.     *)
intersection(L, R, first_epsilon) ==
  LET width == Cardinality(R.states)
      Pair(p, q) == p * width + q
      from(D, q) == {m \in D : m[1] = q}
      moves(x) ==
        LET p == x \div width
            q == x % width
        IN {<<x, m[1][2], Pair(m[1][3], m[2][3])>> :
              m \in {k \in from(L.delta, p) \X from(R.delta, q) :
                       k[1][2] = k[2][2] /\ k[1][2] < first_epsilon}}
           \cup {<<x, m[2], Pair(m[3], q)>> : m \in {k \in from(L.delta, p) : k[2] >= first_epsilon}}
           \cup {<<x, m[2], Pair(p, m[3])>> : m \in {k \in from(R.delta, q) : k[2] >= first_epsilon}}
      initial == {Pair(p, q) : <<p, q>> \in L.initial \X R.initial}
      pairs == Closed(initial, LAMBDA x : {m[3] : m \in moves(x)})
  IN [states |-> pairs, initial |-> initial, delta |-> UNION {moves(x) : x \in pairs},
      final |-> {x \in pairs : x \div width \in L.final /\ x % width \in R.final}]

------------------------------------------------------------------------------
(* Segmentation: the depth of a state is the number of epsilons before it,  *)
(* by the way it is met first.  visited_eps is written whenever a state is  *)
(* put into the queue, also when it was met before.                         *)

StateDepthTuple(q, depth, eps) == [state |-> q, depth |-> depth, eps |-> eps]

(* Not the code: an epsilon does not go one deeper.                         *)
SameDepth(A, epsilons, t, m) ==
  IF m[2] \in epsilons
  THEN StateDepthTuple(m[3], t.depth, [t.eps EXCEPT ![m[2]] = @ + 1])
  ELSE StateDepthTuple(m[3], t.depth, t.eps)

Successor(A, epsilons, t, m) ==
  IF m[2] \in epsilons
  THEN StateDepthTuple(m[3], t.depth + 1, [t.eps EXCEPT ![m[2]] = @ + 1])
  ELSE StateDepthTuple(m[3], t.depth, t.eps)

compute_epsilon_depths(A, epsilons) ==
  LET moves == [q \in A.states |-> Ascending({m \in A.delta : m[1] = q}, StoredBefore)]
      roots == Ascending(A.initial, <)
      none == [e \in epsilons |-> 0]
      RECURSIVE search(_, _, _, _)
      search(queue, visited, depth_transitions, visited_eps) ==
        IF queue = << >> THEN [transitions |-> depth_transitions, visited_eps |-> visited_eps]
        ELSE LET t == Head(queue)
             IN IF t.state \in visited
                THEN search(Tail(queue), visited, depth_transitions, visited_eps)
                ELSE LET out == moves[t.state]
                         next == [n \in DOMAIN out |-> Successor(A, epsilons, t, out[n])]
                         last(q) == {n \in DOMAIN next : next[n].state = q}
                     IN search(Tail(queue) \o next, visited \cup {t.state},
                          depth_transitions \cup {<<t.depth, m>> :
                            m \in {k \in A.delta : k[1] = t.state /\ k[2] \in epsilons}},
                          [q \in A.states |-> IF last(q) = {} THEN visited_eps[q]
                                              ELSE next[CHOOSE n \in last(q) : \A k \in last(q) : n >= k].eps])
  IN search([n \in DOMAIN roots |-> StateDepthTuple(roots[n], 0, none)], {}, {},
            [q \in A.states |-> none])

(* A copy of the automaton for each depth, from after the epsilons of the   *)
(* depth before to before those of its own, which it loses.                 *)
split_aut_into_segments(A, transitions) ==
  LET count == Cardinality({d[1] : d \in transitions}) + 1
      at(depth) == {d[2] : d \in {e \in transitions : e[1] = depth}}
  IN [n \in 1 .. count |->
        [A EXCEPT !.initial = IF n = 1 THEN @ ELSE {m[3] : m \in at(n - 2)},
                  !.final = IF n = count THEN @ ELSE {m[1] : m \in at(n - 1)},
                  !.delta = @ \ at(n - 1)]]

(* The segments with one initial and one final state; the first and the     *)
(* last keep all of theirs, under the name of a state that is not used.     *)
Unused == -1
Segment(segment, I, F) == reduce_simulation(Trimmed([segment EXCEPT !.initial = I, !.final = F]))
segs_one_initial_final(segments, include_empty) ==
  LET last == Len(segments)
      Initials(n) == IF n = 1 THEN {Unused} ELSE segments[n].initial
      Finals(n) == IF n = last THEN {Unused} ELSE segments[n].final
      entry(n, i, f) ==
        <<i, f, Segment(segments[n], IF n = 1 THEN segments[n].initial ELSE {i},
                                     IF n = last THEN segments[n].final ELSE {f})>>
  IN {e \in UNION {{entry(n, i, f) : <<i, f>> \in Initials(n) \X Finals(n)} : n \in 1 .. last} :
        e[3].initial # {} \/ include_empty}

WholeSegment(segment, include_empty, as(_)) ==
  LET trimmed == Trimmed(segment)
  IN IF trimmed.initial # {} \/ include_empty THEN {<<as(trimmed)>>} ELSE {}

(* noodlify: one epsilon of each depth, and a segment between each two.     *)
noodlify(A, epsilon, include_empty) ==
  LET transitions == compute_epsilon_depths(A, {epsilon}).transitions
      segments == split_aut_into_segments(A, transitions)
      depths == Len(segments) - 1
      known == segs_one_initial_final(segments, include_empty)
      epsilon_noodles == {f \in [1 .. depths -> {d[2] : d \in transitions}] :
                            \A n \in 1 .. depths : <<n - 1, f[n]>> \in transitions}
      ends(f, n) == <<IF n = 1 THEN Unused ELSE f[n - 1][3],
                      IF n = depths + 1 THEN Unused ELSE f[n][1]>>
      Between(f, n) == {e \in known : <<e[1], e[2]>> = ends(f, n)}
  IN IF depths = 0 THEN WholeSegment(segments[1], include_empty, LAMBDA S : S)
     ELSE {[n \in 1 .. depths + 1 |-> (CHOOSE e \in Between(f, n) : TRUE)[3]] :
             f \in {g \in epsilon_noodles : \A n \in 1 .. depths + 1 : Between(g, n) # {}}}

(* noodlify_mult_eps: the chain is followed segment by segment; a segment   *)
(* that is but the empty word is left out.                                  *)
process_eps_map(eps) == LET keys == Ascending(DOMAIN eps, >) IN [n \in DOMAIN keys |-> eps[keys[n]]]
IsEmptyWord(S) == Cardinality(S.final) = 1 /\ S.delta = {}
noodlify_mult_eps(A, epsilons, include_empty) ==
  LET found == compute_epsilon_depths(A, epsilons)
      segments == split_aut_into_segments(A, found.transitions)
      known == segs_one_initial_final(segments, include_empty)
      Extended(noodle, S, eps) ==
        IF IsEmptyWord(S) THEN noodle ELSE Append(noodle, <<S, process_eps_map(eps)>>)
      none == [e \in epsilons |-> 0]
      after[n \in 1 .. Len(segments)] ==
        IF n = 1
        THEN {<<e[2], Extended(<< >>, e[3], none)>> : e \in {k \in known : k[1] = Unused}}
        ELSE UNION {{<<e[2], Extended(item[2], e[3], found.visited_eps[e[1]])>> :
                       e \in {k \in known : /\ k[1] \in {d[2][3] : d \in {t \in found.transitions :
                                                  t[1] = n - 2 /\ t[2][1] = item[1]}}
                                            /\ k[2] \in IF n = Len(segments) THEN {Unused}
                                                        ELSE segments[n].final}} :
                      item \in after[n - 1]}
  IN IF Len(segments) = 1
     THEN WholeSegment(segments[1], include_empty, LAMBDA S : <<S, process_eps_map(none)>>)
     ELSE {item[2] : item \in after[Len(segments)]}

------------------------------------------------------------------------------
(* noodlify_for_equation.                                                   *)

Unified(nfas) == [n \in DOMAIN nfas |-> unify_final(unify_initial(nfas[n], FALSE), FALSE)]

Reduced(A, reduce_value) ==
  LET forward == IF reduce_value \in {"forward", "bidirectional"} THEN reduce_simulation(A) ELSE A
  IN IF reduce_value \in {"backward", "bidirectional"}
     THEN revert(reduce_simulation(revert(forward))) ELSE forward

(* The left side is a sequence, the right side one automaton.  Of the two   *)
(* overloads the one for pointers unifies only before a reduction.          *)
noodlify_for_equation(lhs_automata, rhs_automaton, unify, include_empty, reduce_value, EPSILON) ==
  LET lhs == IF unify \/ reduce_value # "false" THEN Unified(lhs_automata) ELSE lhs_automata
      product == Trimmed(intersection(concatenate_with(lhs, EPSILON), rhs_automaton, EPSILON))
  IN IF lhs_automata = << >> \/ is_lang_empty(rhs_automaton) \/ is_lang_empty(product) THEN {}
     ELSE noodlify(Reduced(product, reduce_value), EPSILON, include_empty)

(* Both sides are sequences, each with an epsilon of its own.               *)
noodlify_for_equation_of_sequences(lhs_automata, rhs_automata, include_empty, reduce_value, EPSILON) ==
  LET lhs == concatenate_with(Unified(lhs_automata), EPSILON)
      rhs == concatenate_with(Unified(rhs_automata), EPSILON - 1)
      product == Trimmed(intersection(lhs, rhs, EPSILON - 1))
  IN IF << >> \in {lhs_automata, rhs_automata} THEN {}
     ELSE IF is_lang_empty(product) THEN {}
     ELSE noodlify_mult_eps(Reduced(product, reduce_value), {EPSILON, EPSILON - 1}, include_empty)

==============================================================================
