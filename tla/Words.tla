--------------------------------- MODULE Words ---------------------------------
(***************************************************************************)
(* The words of a language (src/nfa/operations.cc): get_words, get_word,   *)
(* get_shortest_word, get_word_from_complement, lang_difference and        *)
(* get_word_from_lang_difference; and those of                             *)
(* src/applications/strings/strings.cc: ShortestWordsMap, get_word_lengths,*)
(* get_accepted_symbols, is_lang_eps.                                      *)
(*                                                                         *)
(* An optional word is a set of at most one word.                          *)
(***************************************************************************)
EXTENDS Reductions

(* The transitions from a state as the iterators meet them.                 *)
InOrder(D) == Ascending(D, StoredBefore)
MovesFrom(A) == [q \in A.states |-> InOrder({m \in A.delta : m[1] = q})]
OnSymbols(A, S) == {m[2] : m \in {k \in A.delta : k[1] \in S}}
WithoutEpsilons(word, first_epsilon) ==
  LET kept[n \in 0 .. Len(word)] ==
        IF n = 0 THEN << >>
        ELSE LET before == kept[n - 1]
             IN IF word[n] < first_epsilon THEN Append(before, word[n]) ELSE before
  IN kept[Len(word)]

get_words(A, max_length) ==
  LET met[n \in 0 .. max_length] ==
        IF n = 0 THEN {<<q, << >>>> : q \in A.initial}
        ELSE LET before == met[n - 1]
             IN UNION {{<<m[3], Append(c[2], m[2])>> : m \in {k \in A.delta : k[1] = c[1]}} :
                         c \in before}
  IN {c[2] : c \in {k \in UNION {met[n] : n \in 0 .. max_length} : k[1] \in A.final}}

------------------------------------------------------------------------------
(* get_word: depth first, with a stack of iterators that stay on the        *)
(* transition by which the search went on.  An element of the stack is a    *)
(* state and the number of the transition its iterator is at.               *)

Top(stack) == stack[Len(stack)]
Popped(stack) == SubSeq(stack, 1, Len(stack) - 1)
NextOn(stack) ==
  IF stack = << >> THEN << >> ELSE [stack EXCEPT ![Len(stack)] = <<@[1], @[2] + 1>>]

DepthFirst(A, roots, moves) ==
  LET RECURSIVE search(_, _, _)
      search(stack, searched, left) ==
        IF stack = << >>
        THEN IF left = << >> THEN {}
             ELSE IF left[1] \in searched THEN search(stack, searched, Tail(left))
             ELSE search(<<<<left[1], 1>>>>, searched \cup {left[1]}, Tail(left))
        ELSE LET q == Top(stack)[1]
                 k == Top(stack)[2]
             IN IF k > Len(moves[q]) THEN search(NextOn(Popped(stack)), searched, left)
                ELSE LET target == moves[q][k][3]
                     IN IF target \in searched THEN search(NextOn(stack), searched, left)
                        ELSE IF target \in A.final
                        THEN {[n \in 1 .. Len(stack) |-> moves[stack[n][1]][stack[n][2]][2]]}
                        ELSE search(Append(stack, <<target, 1>>), searched \cup {target}, left)
  IN search(<< >>, {}, roots)

get_word(A, first_epsilon) ==
  IF A.initial \cap A.final # {} THEN {<< >>}
  ELSE {WithoutEpsilons(w, first_epsilon) :
          w \in DepthFirst(A, Ascending(A.initial, <), MovesFrom(A))}

------------------------------------------------------------------------------
(* get_shortest_word: breadth first.  dist and pred are the way by which a  *)
(* state was met first, kept with the state in the queue.                   *)

(* The targets of these transitions that are new, each by its first one.    *)
FirstMet(moves, met) ==
  SelectSeq([n \in 1 .. Len(moves) |-> <<n, moves[n]>>],
            LAMBDA e : /\ e[2][3] \notin met
                       /\ \A k \in 1 .. e[1] - 1 : moves[k][3] # e[2][3])

get_shortest_word(A, first_epsilon) ==
  LET moves == MovesFrom(A)
      RECURSIVE search(_, _)
      search(queue, met) ==
        IF queue = << >> THEN {}
        ELSE LET q == queue[1][1]
                 new == FirstMet(moves[q], met)
                 found == SelectSeq(new, LAMBDA e : e[2][3] \in A.final)
                 by(e) == Append(queue[1][2], e[2][2])
             IN IF found # << >> THEN {WithoutEpsilons(by(found[1]), first_epsilon)}
                ELSE search(Tail(queue) \o [n \in DOMAIN new |-> <<new[n][2][3], by(new[n])>>],
                            met \cup {new[n][2][3] : n \in DOMAIN new})
      roots == Ascending(A.initial, <)
  IN IF A.initial \cap A.final # {} THEN {<< >>}
     ELSE search([n \in DOMAIN roots |-> <<roots[n], << >>>>], A.initial)

------------------------------------------------------------------------------
(* Determinization on the fly, the last macrostate first.  If it is to stop *)
(* it does so where the first good macrostate is discovered.                *)
Lazily(init, symbols(_), target(_, _), good(_), stop) ==
  LET RECURSIVE search(_, _, _)
      search(stack, known, delta) ==
        LET enough == stop /\ \E T \in known : good(T)
        IN IF stack = << >> \/ enough
           THEN [states |-> known, initial |-> {init}, final |-> {T \in known : good(T)},
                 delta |-> delta]
           ELSE LET S == Top(stack)
                    order == Ascending(symbols(S), <)
                    to == [n \in DOMAIN order |-> target(S, order[n])]
                    ends == {n \in DOMAIN order : stop /\ good(to[n])}
                    last == IF ends = {} THEN Len(order)
                            ELSE CHOOSE n \in ends : \A k \in ends : n <= k
                    new == {n \in 1 .. last : /\ to[n] \notin known
                                              /\ \A k \in 1 .. n - 1 : to[k] # to[n]}
                    news == Ascending(new, <)
                IN search(Popped(stack) \o [n \in DOMAIN news |-> to[news[n]]],
                          known \cup {to[n] : n \in new},
                          delta \cup {<<S, order[n], to[n]>> : n \in 1 .. last})
  IN search(<<init>>, {init}, {})

(* The word of a deterministic automaton whose states are macrostates.      *)
WordOf(D, first_epsilon) ==
  IF D.initial \cap D.final # {} THEN {<< >>}
  ELSE {WithoutEpsilons(w, first_epsilon) :
          w \in DepthFirst(D, <<CHOOSE S \in D.initial : TRUE>>,
                           [S \in D.states |->
                              Ascending({m \in D.delta : m[1] = S}, LAMBDA m, k : m[2] < k[2])])}

(* A missing symbol leads to the sink.  The symbols are those of the        *)
(* automaton and possibly more: beyond them the code reads past their end.  *)
Sink == {-1}
get_word_from_complement(A, symbols, first_epsilon) ==
  IF A.initial \cap A.final = {} THEN {<< >>}
  ELSE WordOf(Lazily(A.initial, LAMBDA S : symbols,
                     LAMBDA S, a : IF a \in OnSymbols(A, S) THEN Post(A, S, a) ELSE Sink,
                     LAMBDA S : S \cap A.final = {}, TRUE),
              first_epsilon)

(* Not the code: the sink of the excluded automaton is not final.           *)
NoFinalSink(included, excluded, p) ==
  p[1] \cap included.final # {} /\ p[2] # {} /\ p[2] \cap excluded.final = {}

(* The empty set of the second part is the sink, final in the complement.   *)
FinalInDifference(included, excluded, p) ==
  p[1] \cap included.final # {} /\ p[2] \cap excluded.final = {}

lang_difference(included, excluded, stop) ==
  Lazily(<<included.initial, excluded.initial>>,
         LAMBDA p : OnSymbols(included, p[1]),
         LAMBDA p, a : <<Post(included, p[1], a), Post(excluded, p[2], a)>>,
         LAMBDA p : FinalInDifference(included, excluded, p), stop)

get_word_from_lang_difference(included, excluded, first_epsilon) ==
  WordOf(lang_difference(included, excluded, TRUE), first_epsilon)

------------------------------------------------------------------------------
(* strings.cc: the shortest words of every state, from the final ones back. *)
(* A state is processed when it leaves the queue; its words are then final. *)

Longer(a, words) == {<<a>> \o w : w \in words}

(* What a state has after the move by a from it to one with these words.    *)
update_current_words(words, a, known) ==
  IF known = {} \/ (\E w \in words, v \in known : Len(w) + 1 < Len(v))
  THEN Longer(a, words)
  ELSE IF \E w \in words, v \in known : Len(w) + 1 = Len(v)
  THEN known \cup Longer(a, words) ELSE known

ShortestWordsMap(A) ==
  LET into == [q \in A.states |->
                 Ascending({m \in A.delta : m[3] = q},
                           LAMBDA m, k : m[2] < k[2] \/ (m[2] = k[2] /\ m[1] < k[1]))]
      RECURSIVE through(_, _, _, _)
      through(map, moves, queue, processed) ==
        IF moves # << >>
        THEN LET q == moves[1][1]
                 next == [map EXCEPT ![q] = update_current_words(map[moves[1][3]], moves[1][2], @)]
             IN IF q \in processed THEN through(next, Tail(moves), queue, processed)
                ELSE through(next, Tail(moves), Append(queue, q), processed \cup {q})
        ELSE IF queue = << >> THEN map
        ELSE through(map, into[queue[1]], Tail(queue), processed)
  IN through([q \in A.states |-> IF q \in A.final THEN {<< >>} ELSE {}], << >>,
             Ascending(A.final, <), A.final)

get_shortest_words(A) ==
  LET of == ShortestWordsMap(A)
      words == UNION {of[q] : q \in A.initial}
  IN {w \in words : \A v \in words : Len(w) <= Len(v)}

(* get_word_lengths: the letters are forgotten, and what is left is         *)
(* determinized to a path that may end in a loop.  A pair is a length and   *)
(* the size of the loop it repeats by.                                      *)
get_word_lengths(A) ==
  LET within(S) == {m[3] : m \in {k \in A.delta : k[1] \in S}}
      RECURSIVE path(_)
      path(p) == LET next == within(Top(p))
                 IN IF next = {} \/ \E n \in DOMAIN p : p[n] = next THEN p
                    ELSE path(Append(p, next))
      walk == path(<<A.initial>>)
      back == within(Top(walk))
      fins == {n \in DOMAIN walk : walk[n] \cap A.final # {}}
      loop == {n \in DOMAIN walk : walk[n] = back /\ \E k \in fins : k >= n}
      loop_size(n) == IF loop # {} /\ \A k \in loop : n >= k
                      THEN Len(walk) + 1 - CHOOSE k \in loop : TRUE ELSE 0
  IN {<<n - 1, loop_size(n)>> : n \in fins}

get_accepted_symbols(A) ==
  {m[2] : m \in {k \in A.delta : k[1] \in A.initial /\ k[3] \in A.final}}

(* is_lang_eps, of the automaton without its useless states.                *)
is_lang_eps(A) ==
  LET trimmed == Trimmed(A)
  IN trimmed.initial # {} /\ \A q \in trimmed.initial :
       q \in trimmed.final /\ OnSymbols(trimmed, {q}) = {}

==============================================================================
