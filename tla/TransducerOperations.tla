-------------------------- MODULE TransducerOperations --------------------------
(***************************************************************************)
(* What src/nft does with one transducer: the operations of an Nft object  *)
(* that add to it and union, those that keep the relation and change the   *)
(* transducer, and those that read tapes.  The operations on the tapes of  *)
(* transducers and on two transducers are in TransducerTapes.              *)
(***************************************************************************)
EXTENDS Transducers

------------------------------------------------------------------------------
(* Building (src/nft/nft.cc, union: src/nft/operations.cc).  The states are *)
(* 0 .. num_of_states() - 1 and levels, a vector of its own, gives each of  *)
(* them a level.  Where the code returns a state, the result is a record of *)
(* the transducer and it.                                                   *)

num_of_states(T) == Cardinality(T.states)
next_level_after(T, l) == (l + 1) % T.num_of_levels

(* add_state_with_level, for the states behind the last.                    *)
AddStates(T, levels) ==
  LET n == num_of_states(T)
      states == 0 .. n + Len(levels) - 1
  IN [T EXCEPT !.states = states,
               !.levels = [q \in states |-> IF q < n THEN T.levels[q] ELSE levels[q - n + 1]]]
AddMoves(T, delta) == [T EXCEPT !.delta = @ \cup delta]

(* A chain of moves from source over new states to target; their levels     *)
(* follow that of source.                                                   *)
Chain(T, source, word, target) ==
  LET n == num_of_states(T)
      on(i) == IF i = 0 THEN source ELSE IF i = Len(word) THEN target ELSE n + i - 1
      levels == [i \in 1 .. Len(word) - 1 |-> (T.levels[source] + i) % T.num_of_levels]
  IN AddMoves(AddStates(T, levels), {<<on(i - 1), word[i], on(i)>> : i \in DOMAIN word})

(* add_state(state) sets the level of the state, also when it exists.       *)
EnsureState(T, q) == [T EXCEPT !.levels[q] = 0]

(* insert_word; it throws when the ends lie on different levels.            *)
insert_word(T, source, word, target) ==
  LET ensured == EnsureState(T, IF source > target THEN source ELSE target)
  IN IF ensured.levels[source] # ensured.levels[target]
     THEN [nft |-> ensured, returned |-> "invalid_argument"]
     ELSE [nft |-> Chain(ensured, source, word, target), returned |-> target]

insert_word_to_new(T, source, word) ==
  insert_word(AddStates(T, <<T.levels[source]>>), source, word, num_of_states(T))

(* Not the code: the symbols are taken from level 0 on.                     *)
FromLevelZero(T, source, words, target) ==
  LET n == T.num_of_levels
      rounds == CHOOSE k \in {Len(words[l]) : l \in 1 .. n} : \A l \in 1 .. n : Len(words[l]) <= k
      symbol(i) == LET word == words[((i - 1) % n) + 1]
                   IN IF (i - 1) \div n < Len(word) THEN word[(i - 1) \div n + 1] ELSE EPSILON
  IN [nft |-> Chain(T, source, [i \in 1 .. n * rounds |-> symbol(i)], target), returned |-> target]

(* insert_word_by_levels: in each round a symbol of every tape, or EPSILON  *)
(* behind its end.                                                          *)
insert_word_by_levels(T, source, words, target) ==
  LET n == T.num_of_levels
      rounds == CHOOSE k \in {Len(words[l]) : l \in 1 .. n} : \A l \in 1 .. n : Len(words[l]) <= k
      length == IF n * rounds > 2 THEN n * rounds ELSE 2
      level(i) == (T.levels[source] + i - 1) % n
      symbol(i) == LET round == (i - 1) \div n
                       word == words[level(i) + 1]
                   IN IF round < Len(word) THEN word[round + 1] ELSE EPSILON
  IN IF n = 1 THEN insert_word(T, source, words[1], target)
     ELSE [nft |-> Chain(T, source, [i \in 1 .. length |-> symbol(i)], target),
           returned |-> target]

(* add_transition_with_length.                                              *)
add_transition_with_length(T, source, symbol, length, mode) ==
  LET target == num_of_states(T)
      added == AddStates(T, <<(T.levels[source] + length) % T.num_of_levels>>)
  IN IF length = 0 THEN [nft |-> T, returned |-> source]
     ELSE [nft |-> IF length = 1 \/ mode = "RepeatSymbol"
                   THEN AddMoves(added, {<<source, symbol, target>>})
                   ELSE Chain(added, source, [i \in 1 .. length |-> symbol], target),
           returned |-> target]

(* add_transition_with_same_level_targets: the way to the last level is     *)
(* shared by the targets.                                                   *)
add_transition_with_same_level_targets(T, source, symbol, targets, mode) ==
  LET first == CHOOSE t \in targets : \A u \in targets : t <= u
      trans_len == TransLen(T, <<source, symbol, first>>)
      chained == Chain(T, source, [i \in 1 .. trans_len |-> symbol], first)
  IN IF trans_len = 1 \/ mode = "RepeatSymbol"
     THEN AddMoves(T, {source} \X {symbol} \X targets)
     ELSE AddMoves(chained, {num_of_states(chained) - 1} \X {symbol} \X targets)

(* insert_identity.                                                         *)
insert_identity(T, state, symbol) ==
  insert_word(T, state, [i \in 1 .. T.num_of_levels |-> symbol], state).nft

(* make_complete without sink states of the caller's.                       *)
make_complete(T, symbols) ==
  LET n == num_of_states(T)
      with_sinks == AddStates(T, [l \in 1 .. T.num_of_levels |-> l - 1])
      sink_behind(l) == n + next_level_after(T, l)
      missing(q) == symbols \ {m[2] : m \in {k \in T.delta : k[1] = q}}
      to_sinks == UNION {{<<q, a, sink_behind(T.levels[q])>> : a \in missing(q)} : q \in T.states}
      between_sinks == {<<n + l, a, sink_behind(l)>> : l \in 0 .. T.num_of_levels - 1, a \in symbols}
  IN IF n = 0 THEN [nft |-> T, returned |-> FALSE]
     ELSE IF to_sinks = {} THEN [nft |-> with_sinks, returned |-> FALSE]
     ELSE [nft |-> AddMoves(with_sinks, to_sinks \cup between_sinks), returned |-> TRUE]

(* unite_nondet_with: what Nfa::unite_nondet_with does, and the levels are  *)
(* appended to the vector of levels.                                        *)
unite_nondet_with(T, U) ==
  LET n == num_of_states(T)
      shifted(S) == {q + n : q \in S}
      trivial(A) == A.initial = {} \/ A.final = {}
      states == IF trivial(T) THEN U.states
                ELSE IF trivial(U) THEN T.states ELSE 0 .. n + num_of_states(U) - 1
      level(q) == IF q < n THEN T.levels[q] ELSE U.levels[q - n]
      united == IF trivial(T) THEN U
                ELSE IF trivial(U) THEN T
                ELSE [initial |-> T.initial \cup shifted(U.initial),
                      final |-> T.final \cup shifted(U.final),
                      delta |-> T.delta \cup {<<m[1] + n, m[2], m[3] + n>> : m \in U.delta}]
  IN [num_of_levels |-> T.num_of_levels, states |-> states,
      levels |-> [q \in states |-> level(q)],
      initial |-> united.initial, final |-> united.final, delta |-> united.delta]

------------------------------------------------------------------------------
(* Operations that keep the relation and change the transducer:             *)
(* remove_epsilon, determinize and the reduction by simulation              *)
(* (src/nft/operations.cc).                                                 *)

SymbolsFrom(T, q) == {m[2] : m \in {k \in T.delta : k[1] = q}}
SymbolsInto(T, q) == {m[2] : m \in {k \in T.delta : k[3] = q}}
TargetsOn(T, q, a) == {m[3] : m \in {k \in T.delta : k[1] = q /\ k[2] = a}}

------------------------------------------------------------------------------
(* remove_epsilon, for transducers without jumps.                           *)

(* Not the code: what else leads out of an inner state is not looked at.    *)
EpsilonRuns(T, epsilon) ==
  LET upto[level \in 0 .. T.num_of_levels] ==
        IF level = 0 THEN {<<q>> : q \in {s \in T.states : T.levels[s] = 0}}
        ELSE UNION {{Append(run, t) : t \in TargetsOn(T, run[Len(run)], epsilon)} : run \in upto[level - 1]}
  IN upto[T.num_of_levels]

(* Silent runs over all tapes whose inner states nothing else leads to and  *)
(* nothing else leads out of, as the code counts it: one symbol into and    *)
(* out of the state.                                                        *)
safe_epsilon_runs(T, epsilon) ==
  LET last == T.num_of_levels - 1
      extended(run, level) ==
        LET s == run[Len(run)]
            targets == TargetsOn(T, s, epsilon)
        IN IF level # 0 /\ SymbolsFrom(T, s) # {epsilon} THEN {}
           ELSE IF level = last THEN {Append(run, t) : t \in targets}
           ELSE IF Cardinality(targets) > 1 THEN {}
           ELSE {Append(run, t) : t \in {u \in targets : Cardinality(SymbolsInto(T, u)) = 1}}
      upto[level \in 0 .. T.num_of_levels] ==
        IF level = 0 THEN {<<q>> : q \in {s \in T.states : T.levels[s] = 0}}
        ELSE UNION {extended(run, level - 1) : run \in upto[level - 1]}
  IN upto[T.num_of_levels]

(* The closure, computed in place by going through the states once.         *)
closed_eps_delta(T, runs) ==
  LET of(q) == {r[Len(r)] : r \in {s \in runs : s[1] = q}}
      into(q) == {r[1] : r \in {s \in runs : s[Len(s)] = q}}
      through[k \in 0 .. Cardinality(T.states)] ==
        IF k = 0 THEN [delta |-> [q \in T.states |-> of(q)], inverse |-> [q \in T.states |-> into(q)]]
        ELSE LET eps == through[k - 1]
                 state == k - 1
                 after == eps.delta[state]
                 before == eps.inverse[state]
             IN [delta |-> [q \in T.states |->
                              eps.delta[q] \cup IF q \in before \ {state} THEN after ELSE {}],
                 inverse |-> [q \in T.states |->
                              eps.inverse[q] \cup IF q \in after \ {state} THEN before ELSE {}]]
  IN through[Cardinality(T.states)].delta

remove_epsilon(T, epsilon) ==
  LET runs == safe_epsilon_runs(T, epsilon)
      eps_delta == closed_eps_delta(T, runs)
      removed == UNION {{<<r[i], epsilon, r[i + 1]>> : i \in 1 .. Len(r) - 1} : r \in runs}
      left == T.delta \ removed
  IN [T EXCEPT
        !.final = @ \cup {q \in T.states : eps_delta[q] \cap @ # {}},
        !.delta = left \cup UNION {{<<q, m[2], m[3]>> : m \in {k \in left : k[1] \in eps_delta[q]}} :
                                     q \in T.states}]

------------------------------------------------------------------------------
(* determinize, for transducers without jumps: the targets of a macrostate  *)
(* are all on one level.                                                    *)
determinize(T) ==
  LET level(S) == T.levels[CHOOSE q \in S : TRUE]
      targets(S, a) == UNION {TargetsOn(T, q, a) : q \in S}
      moves(S) == {<<S, a, targets(S, a)>> : a \in UNION {SymbolsFrom(T, q) : q \in S}}
      macrostates == IF T.initial = {} THEN {}
                     ELSE Closed({T.initial}, LAMBDA S : {m[3] : m \in moves(S)})
  IN [num_of_levels |-> T.num_of_levels, states |-> macrostates,
      levels |-> [S \in macrostates |-> level(S)],
      initial |-> macrostates \cap {T.initial},
      final |-> {S \in macrostates : S \cap T.final # {} /\ level(S) = 0},
      delta |-> UNION {moves(S) : S \in macrostates}]

------------------------------------------------------------------------------
(* reduce by simulation.                                                    *)

(* Labels are symbols and wrap around as they do.                           *)
Wrapped(a) == a % (EPSILON + 1)
max_symbol(T) ==
  IF T.delta = {} THEN 0
  ELSE CHOOSE a \in {m[2] : m \in T.delta} : \A m \in T.delta : m[2] <= a

(* What simlib is given: a label for final states, a label for each level.  *)
lts_for_simulation(T) ==
  T.delta
  \cup {<<q, Wrapped(max_symbol(T) + 1), q>> : q \in T.final}
  \cup {<<q, Wrapped(max_symbol(T) + 2 + T.levels[q]), q>> : q \in T.states}

(* A state stands for those that simulate it and are simulated by it; of    *)
(* two targets of a move the simulated one is dropped.                      *)
reduce(T) ==
  LET sim == simulation(T.states, lts_for_simulation(T))
      class(q) == {p \in T.states : <<p, q>> \in sim /\ <<q, p>> \in sim}
      quot_proj(q) == CHOOSE p \in class(q) : \A r \in class(q) : p <= r
      representatives == {quot_proj(q) : q \in T.states}
      important(m) ==
        LET p == quot_proj(m[3])
            others == {quot_proj(t) : t \in TargetsOn(T, m[1], m[2])} \ {p}
        IN \A o \in others : <<p, o>> \notin sim
  IN [T EXCEPT
        !.states = representatives,
        !.levels = [q \in representatives |-> T.levels[q]],
        !.initial = {quot_proj(q) : q \in @},
        !.final = @ \cap representatives,
        !.delta = {<<m[1], m[2], quot_proj(m[3])>> :
                     m \in {k \in @ : k[1] \in representatives /\ important(k)}}]

------------------------------------------------------------------------------
(* How a transducer reads tapes: is_in_lang, is_in_lang_by_levels with its  *)
(* two searches, the functions post (src/nft/nft.cc), has_epsilon_cycle and *)
(* get_words (src/nft/operations.cc).                                       *)
(*                                                                          *)
(* A configuration is a state and the positions of the reading heads, of    *)
(* which tape l has the l+1-st.                                             *)

(* Not the code: a DONT_CARE reads everything.                              *)
EverythingMatches(a, b) == a = b \/ DONT_CARE \in {a, b}

symbols_match(a, b) ==
  IF EPSILON \in {a, b} THEN a = b ELSE a = b \/ DONT_CARE \in {a, b}

Tapes(T) == 0 .. T.num_of_levels - 1
Start(words) == [i \in DOMAIN words |-> 0]
End(words) == [i \in DOMAIN words |-> Len(words[i])]
Span(T, m) == T.levels[m[1]] .. StopLevel(T, m[3]) - 1

(* One symbol on each of these tapes.                                       *)
Advanced(pos, span) == [i \in DOMAIN pos |-> IF i - 1 \in span THEN pos[i] + 1 ELSE pos[i]]
CanRead(words, pos, l, a) ==
  pos[l + 1] < Len(words[l + 1]) /\ symbols_match(a, words[l + 1][pos[l + 1] + 1])

------------------------------------------------------------------------------
(* post over tapes, of which some are not used: the search for the          *)
(* configurations that can be reached.  An EPSILON may be taken without     *)
(* reading.                                                                 *)
StepsOf(T, c, words, use_tape, mode) ==
  UNION {LET span == {l \in Span(T, m) : use_tape[l]}
         IN (IF \A l \in span : CanRead(words, c[2], l, SymbolOnLevel(T, m, l, mode))
             THEN {<<m[3], Advanced(c[2], span)>>} ELSE {})
            \cup (IF m[2] = EPSILON THEN {<<m[3], c[2]>>} ELSE {}) :
           m \in {k \in T.delta : k[1] = c[1]}}

AtEnd(T, c, words) == T.levels[c[1]] = 0 /\ c[2] = End(words)

(* Where all is read the search stops, but for the epsilon closure.         *)
Reached(T, states, words, use_tape, closure_after, mode) ==
  Closed({<<q, Start(words)>> : q \in states},
         LAMBDA c : IF AtEnd(T, c, words) /\ ~ closure_after THEN {}
                    ELSE StepsOf(T, c, words, use_tape, mode))

post(T, states, words, use_tape, closure_after, mode) ==
  IF T.delta = {} THEN IF \A i \in DOMAIN words : words[i] = << >> THEN states ELSE {}
  ELSE {c[1] : c \in {k \in Reached(T, states, words, use_tape, closure_after, mode) :
                        AtEnd(T, k, words)}}

(* The zero-level states that are met on the way.                           *)
visited_zero_level_states(T, states, words, use_tape, closure_after, mode) ==
  IF T.delta = {} THEN states
  ELSE {c[1] : c \in {k \in Reached(T, states, words, use_tape, closure_after, mode) :
                        T.levels[k[1]] = 0}}

------------------------------------------------------------------------------
(* is_in_lang_by_levels.                                                    *)

(* is_in_lang_by_levels_repeat_symbol, which keeps no visited set.          *)
RepeatSteps(T, c, words) ==
  UNION {(IF m[2] = EPSILON THEN {<<m[3], c[2]>>} ELSE {})
         \cup (IF \A l \in Span(T, m) : CanRead(words, c[2], l, m[2])
               THEN {<<m[3], Advanced(c[2], Span(T, m))>>} ELSE {}) :
           m \in {k \in T.delta : k[1] = c[1]}}

is_in_lang_by_levels(T, words, match_prefix, mode, has_epsilon_cycles) ==
  LET start == {<<q, Start(words)>> : q \in T.initial}
      all_tapes == [l \in Tapes(T) |-> TRUE]
      reached == IF mode # "AppendDontCares" /\ ~ has_epsilon_cycles
                 THEN Closed(start, LAMBDA c : RepeatSteps(T, c, words))
                 ELSE Reached(T, T.initial, words, all_tapes, TRUE, mode)
  IN \E c \in reached : c[1] \in T.final /\ T.levels[c[1]] = 0
                        /\ (match_prefix \/ c[2] = End(words))

(* mk_level_word_from_word; it throws when no whole rounds are given.       *)
mk_level_word_from_word(T, word) ==
  [i \in 1 .. T.num_of_levels |->
     [k \in 1 .. Len(word) \div T.num_of_levels |-> word[(k - 1) * T.num_of_levels + i]]]

is_in_lang(T, word, match_prefix, mode, has_epsilon_cycles) ==
  is_in_lang_by_levels(T, mk_level_word_from_word(T, word), match_prefix, mode,
                       has_epsilon_cycles)

(* has_epsilon_cycle: states no epsilon leads to are peeled away, then      *)
(* those that only peeled ones lead to.                                     *)
has_epsilon_cycle(T) ==
  LET epsilons == {m \in T.delta : m[2] = EPSILON}
      on_epsilons == {m[1] : m \in epsilons} \cup {m[3] : m \in epsilons}
      RECURSIVE peeled(_)
      peeled(P) ==
        LET next == {q \in on_epsilons : \A m \in epsilons : m[3] = q => m[1] \in P}
        IN IF next = P THEN P ELSE peeled(next)
  IN peeled({}) # on_epsilons

------------------------------------------------------------------------------
(* post over one symbol on one tape.                                        *)

(* What is passed before the tape, on it and behind it.                     *)
Passes(T, m, symbol, symbol_level, mode) ==
  LET level == T.levels[m[1]]
  IN \/ level > symbol_level
     \/ level = symbol_level /\ symbols_match(m[2], symbol)
     \/ level < symbol_level /\ StopLevel(T, m[3]) <= symbol_level
     \/ /\ level < symbol_level /\ StopLevel(T, m[3]) > symbol_level
        /\ \/ mode = "AppendDontCares" /\ symbol # EPSILON
           \/ mode = "RepeatSymbol" /\ symbols_match(m[2], symbol)

PostOnLevel(T, states, symbol, symbol_level, mode) ==
  LET steps(q) == {m[3] : m \in {k \in T.delta : k[1] = q /\ Passes(T, k, symbol, symbol_level, mode)}}
      inner == Closed(UNION {steps(q) : q \in states},
                      LAMBDA q : IF T.levels[q] = 0 THEN {} ELSE steps(q))
  IN {q \in inner : T.levels[q] = 0}

post_on_level(T, states, symbol, symbol_level, epsilon_closure_opt, mode) ==
  LET closure(S) == Closed(S, LAMBDA q : PostOnLevel(T, {q}, EPSILON, symbol_level, mode))
      stay == IF symbol = EPSILON /\ epsilon_closure_opt # "None" THEN states ELSE {}
      from == IF epsilon_closure_opt = "Before" THEN closure(states) ELSE states
      result == stay \cup PostOnLevel(T, from, symbol, symbol_level, mode)
  IN IF T.delta = {} THEN stay
     ELSE IF epsilon_closure_opt = "After" THEN closure(result) ELSE result

------------------------------------------------------------------------------
(* get_words: the words of the accepting runs of at most max_length moves.  *)

LabelOf(T, m, mode) ==
  [i \in 1 .. TransLen(T, m) |-> SymbolOnLevel(T, m, T.levels[m[1]] + i - 1, mode)]

get_words(T, max_length, mode) ==
  LET worklist[n \in 0 .. max_length] ==
        IF n = 0 THEN {<<q, << >>>> : q \in T.initial}
        ELSE UNION {{<<m[3], c[2] \o LabelOf(T, m, mode)>> : m \in {k \in T.delta : k[1] = c[1]}} :
                      c \in worklist[n - 1]}
  IN {c[2] : c \in {k \in UNION {worklist[n] : n \in 0 .. max_length} : k[1] \in T.final}}

==============================================================================
