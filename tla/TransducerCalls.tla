------------------------------ MODULE TransducerCalls ------------------------------
(***************************************************************************)
(* Calls on transducers: an Nft object is built by a number of calls and   *)
(* then handed to one operation, whose result is compared with what the    *)
(* operation means for the relation of the transducer.                     *)
(*                                                                         *)
(* spelled is not in the code: the words that the calls have put between   *)
(* states, as <<source, word, target>>.                                    *)
(***************************************************************************)
EXTENDS TransducerTapes, TransducerOperations, SequencesExt

CONSTANTS
  Starts,     \* records [nft, mode, calls]; calls names what is asked of the transducer
  CallsOn(_), \* the calls that are made on it
  Words,      \* number of levels |-> the words that are inserted
  Parts,      \* number of levels |-> the words by levels that are inserted
  MaxBuilds   \* how many calls build

VARIABLES start, nft, spelled, builds, call, result
vars == <<start, nft, spelled, builds, call, result>>

NoCall == [op |-> "none"]
mode == start.mode

CallsInit ==
  /\ start \in Starts
  /\ nft = start.nft /\ spelled = {} /\ builds = 0
  /\ call = NoCall /\ result = "none"

------------------------------------------------------------------------------
(* Building: each call leaves what it has spelled.                          *)

Building == start.calls = "build" /\ builds < MaxBuilds
Build(T, words) ==
  /\ nft' = T /\ spelled' = spelled \cup words /\ builds' = builds + 1
  /\ UNCHANGED <<start, call, result>>

(* The states the caller knows of.                                          *)
Known == start.nft.states \cup UNION {{e[1], e[3]} : e \in spelled}
ZeroStates == {q \in Known : nft.levels[q] = 0}
Copies(a, length) == [i \in 1 .. length |-> a]

InsertWord ==
  /\ Building
  /\ \E source, target \in ZeroStates, w \in Words[nft.num_of_levels] :
       LET made == insert_word(nft, source, w, target)
       IN Build(made.nft, {<<source, w, made.returned>>})

InsertWordToNew ==
  /\ Building
  /\ \E source \in ZeroStates, w \in Words[nft.num_of_levels] :
       LET made == insert_word_to_new(nft, source, w)
       IN Build(made.nft, {<<source, w, made.returned>>})

InsertIdentity ==
  /\ Building
  /\ \E q \in ZeroStates, a \in Letters :
       Build(insert_identity(nft, q, a), {<<q, Copies(a, nft.num_of_levels), q>>})

(* What a word given by levels spells from a level on, padded with EPSILON. *)
Interleaved(words, level) ==
  LET n == Len(words)
      longest == Len(words[CHOOSE i \in 1 .. n : \A j \in 1 .. n : Len(words[j]) <= Len(words[i])])
      padded(i) == words[i] \o Copies(EPSILON, longest - Len(words[i]))
      turn(k) == [i \in 1 .. n |-> padded(((level + i - 1) % n) + 1)[k]]
  IN FlattenSeq([k \in 1 .. longest |-> turn(k)])

InsertWordByLevels ==
  /\ Building
  /\ \E source, target \in Known, words \in Parts[nft.num_of_levels] :
       /\ nft.levels[source] = nft.levels[target]
       /\ LET made == insert_word_by_levels(nft, source, words, target)
          IN Build(made.nft, {<<source, Interleaved(words, nft.levels[source]), made.returned>>})

AddTransitionWithLength ==
  /\ Building
  /\ \E source \in Known, a \in Letters \cup {DONT_CARE}, length \in 1 .. nft.num_of_levels :
       /\ nft.levels[source] + length <= nft.num_of_levels
       /\ LET made == add_transition_with_length(nft, source, a, length, mode)
          IN Build(made.nft, {<<source, Copies(a, length), made.returned>>})

AddTransitionWithSameLevelTargets ==
  /\ Building
  /\ \E source \in Known, a \in Letters, targets \in SUBSET Known :
       /\ targets # {}
       /\ \A t, u \in targets : nft.levels[t] = nft.levels[u]
       /\ \A t \in targets : nft.levels[t] = 0 \/ nft.levels[t] > nft.levels[source]
       /\ Build(add_transition_with_same_level_targets(nft, source, a, targets, mode),
                {<<source, Copies(a, TransLen(nft, <<source, a, t>>)), t>> : t \in targets})

SpelledBy(T) == {<<m[1], LabelOf(T, m, mode), m[3]>> : m \in T.delta}

UniteNondetWith ==
  /\ Building /\ nft.initial # {} /\ nft.final # {}
  /\ Build(unite_nondet_with(nft, nft),
           LET n == num_of_states(nft)
           IN {<<e[1] + n, e[2], e[3] + n>> : e \in spelled})

------------------------------------------------------------------------------
(* One call of an operation.                                                *)
Called(op) == {k \in IF call = NoCall THEN CallsOn(start) ELSE {} : k.op = op}
Return(k, value) ==
  /\ call' = k /\ result' = value
  /\ UNCHANGED <<start, nft, spelled, builds>>

InsertLevels ==
  \E k \in Called("insert_levels") : Return(k, insert_levels(nft, k.mask, mode))
InsertLevel ==
  \E k \in Called("insert_level") :
    Return(k, insert_levels(nft, mask_of_level(nft.num_of_levels, k.level), mode))
ProjectOut ==
  \E k \in Called("project_out") : Return(k, project_out(nft, k.levels, mode))
ProjectTo ==
  \E k \in Called("project_to") : Return(k, project_to(nft, k.levels, mode))
InvertLevels ==
  \E k \in Called("invert_levels") : Return(k, invert_levels(nft, mode))
UnwindJumps ==
  \E k \in Called("unwind_jumps") : Return(k, unwind_jumps(nft, k.symbols, mode))
Intersection ==
  \E k \in Called("intersection") : Return(k, intersection(nft, k.other, mode, {}, {}))
ComposeGeneral ==
  \E k \in Called("compose") :
    Return(k, compose_general(nft, k.other, k.lhs_sync, k.rhs_sync, k.project, mode))
OneLetterAut ==
  \E k \in Called("get_one_letter_aut") :
    Return(k, get_one_letter_aut(nft, k.levels, k.symbol))

RemoveEpsilon ==
  \E k \in Called("remove_epsilon") : Return(k, remove_epsilon(nft, EPSILON))
Determinize ==
  \E k \in Called("determinize") : Return(k, determinize(nft))
ReduceBySimulation ==
  \E k \in Called("reduce") : Return(k, reduce(nft))
MakeComplete ==
  \E k \in Called("make_complete") : Return(k, make_complete(nft, k.symbols))

IsInLang ==
  \E k \in Called("is_in_lang") :
    Return(k, is_in_lang_by_levels(nft, k.words, k.match_prefix, mode, has_epsilon_cycle(nft)))
PostOverTapes ==
  \E k \in Called("post") :
    Return(k, post(nft, k.states, k.words, k.use_tape, k.closure_after, mode))
PostOnOneLevel ==
  \E k \in Called("post_on_level") :
    Return(k, post_on_level(nft, k.states, k.symbol, k.level, k.epsilon_closure_opt, mode))
GetWords ==
  \E k \in Called("get_words") : Return(k, get_words(nft, k.max_length, mode))

Next ==
  \/ InsertWord \/ InsertWordToNew \/ InsertIdentity \/ InsertWordByLevels
  \/ AddTransitionWithLength \/ AddTransitionWithSameLevelTargets \/ UniteNondetWith
  \/ InsertLevels \/ InsertLevel \/ ProjectOut \/ ProjectTo \/ InvertLevels \/ UnwindJumps
  \/ Intersection \/ ComposeGeneral \/ OneLetterAut
  \/ RemoveEpsilon \/ Determinize \/ ReduceBySimulation \/ MakeComplete
  \/ IsInLang \/ PostOverTapes \/ PostOnOneLevel \/ GetWords

Spec == CallsInit /\ [][Next]_vars

------------------------------------------------------------------------------
(* What edges spell from a state, up to a length.                           *)
Spelled(edges, q, length) ==
  Closed({<<q, << >>>>},
         LAMBDA c : {<<e[3], c[2] \o e[2]>> :
                       e \in {e \in edges : e[1] = c[1] /\ Len(c[2]) + Len(e[2]) <= length}})

(* After any sequence of building calls the object is a transducer: each    *)
(* state has a level and moves go forward.  Between the states the caller   *)
(* knows of, it spells what the calls have put there and nothing else,      *)
(* although chains are laid over new states whose levels are kept in a      *)
(* vector apart, and jumps stand for several symbols.                       *)
BuiltAsAsked ==
  builds > 0 =>
    /\ IsTransducer(nft)
    /\ \A q \in Known :
         {c \in Spelled(SpelledBy(nft), q, 2 * nft.num_of_levels) : c[1] \in Known}
           = Spelled(spelled, q, 2 * nft.num_of_levels)

------------------------------------------------------------------------------
In(T, k) == RelationIn(T, mode, k)
Within(T, k) == Relation(T, mode, k)
LettersOfLength(k) == [1 .. k -> Letters]

(* The tapes where a mask has new levels, filled up in each round.          *)
Widened(R, mask, k) ==
  LET old == OldLevels(mask)
      nth(l) == Cardinality({j \in old : j < l}) + 1
      tape(w, l) == IF mask[l - 1] THEN LettersOfLength(k) ELSE {w[nth(l - 1)]}
      wide(w) == LET all == UNION {tape(w, l) : l \in 1 .. Cardinality(DOMAIN mask)}
                 IN {v \in [1 .. Cardinality(DOMAIN mask) -> all] :
                       \A l \in DOMAIN v : v[l] \in tape(w, l)}
  IN UNION {wide(w) : w \in R}

Narrowed(R, levels) ==
  {[i \in 1 .. Len(w) - Cardinality(levels) |->
      w[CHOOSE l \in DOMAIN w :
          l - 1 \notin levels /\ Cardinality({j \in 0 .. l - 1 : j \notin levels}) = i]] : w \in R}

(* What an operation makes of the tuples of k rounds.                       *)
Meant(R, k) ==
  LET n == nft.num_of_levels
  IN CASE call.op = "insert_levels" -> Widened(R, call.mask, k)
       [] call.op = "insert_level" -> Widened(R, mask_of_level(n, call.level), k)
       [] call.op = "project_out" -> Narrowed(R, call.levels)
       [] call.op = "project_to" -> Narrowed(R, (0 .. n - 1) \ call.levels)
       [] call.op = "invert_levels" -> {Reverse(w) : w \in R}
       [] call.op = "unwind_jumps" -> R
       [] call.op = "intersection" -> R \cap In(call.other, k)
       [] call.op = "get_one_letter_aut" ->
            {[i \in DOMAIN w |-> IF i - 1 \in call.levels THEN w[i]
                                 ELSE Copies(call.symbol, Len(w[i]))] : w \in R}

TapeOperations ==
  {"insert_levels", "insert_level", "project_out", "project_to", "invert_levels",
   "unwind_jumps", "intersection", "get_one_letter_aut"}

(* What the operations on tapes do to the relation, round by round, for     *)
(* both ways to read jumps; an unwound transducer has no jump and may be    *)
(* read in any mode.                                                        *)
TapesTransformed ==
  call.op \in TapeOperations =>
    /\ \A k \in 0 .. 2 : In(result, k) = Meant(In(nft, k), k)
    /\ call.op = "unwind_jumps" =>
         ~ contains_jump_transitions(result) /\ Relation(result, "NoJump", 2) = Within(nft, 2)

(* The synchronized tapes agree; a tuple of the composition has the tapes   *)
(* of the first, then those of the second, between two synchronized ones.   *)
Agree(l, r) == \A i \in DOMAIN call.lhs_sync : l[call.lhs_sync[i] + 1] = r[call.rhs_sync[i] + 1]
ComposedTapes(owners, l, r) ==
  LET nth(j, sides) == Cardinality({i \in 1 .. j : owners[i] \in sides})
      tape(j) == IF owners[j] = "rhs" THEN r[nth(j, {"rhs", "both"})]
                 ELSE l[nth(j, {"lhs", "both"})]
      kept == SelectSeq([j \in DOMAIN owners |-> j],
                        LAMBDA j : ~ (call.project /\ owners[j] = "both"))
  IN [i \in DOMAIN kept |-> tape(kept[i])]

(* Composition over any number of synchronized tapes is the composition of  *)
(* the relations, when no DONT_CARE is written on a synchronized tape: what *)
(* is related within some rounds of the result is related by the two, and   *)
(* rounds of the two that one after the other fit into as many are found.   *)
ComposedOverTapes ==
  call.op = "compose" =>
    LET owners == Owners(nonsync_levels_cnt(nft.num_of_levels, call.lhs_sync),
                         nonsync_levels_cnt(call.other.num_of_levels, call.rhs_sync))
        composed(L, R) ==
          {ComposedTapes(owners, w[1], w[2]) : w \in {w \in L \X R : Agree(w[1], w[2])}}
        all == Within(result, 3)
    IN /\ all \subseteq composed(Within(nft, 3), Within(call.other, 3))
       /\ \A k \in 0 .. 3 : composed(Within(nft, k), Within(call.other, 3 - k)) \subseteq all

------------------------------------------------------------------------------
Deterministic(T) ==
  /\ Cardinality(T.initial) <= 1
  /\ \A m, k \in T.delta : m[1] = k[1] /\ m[2] = k[2] => m = k
Lacking(T, symbols) ==
  {x \in T.states \X symbols : ~ \E m \in T.delta : m[1] = x[1] /\ m[2] = x[2]}

(* Operations that are said to keep the relation keep it.  A determinized   *)
(* transducer is deterministic, a completed one has a move for every symbol *)
(* on every level, a reduced one is no larger.  The runs that are removed   *)
(* with epsilons relate nothing, so fewer rounds suffice.                   *)
RelationKept ==
  /\ call.op = "determinize" =>
       /\ Deterministic(result) /\ \A k \in 0 .. 2 : In(result, k) = In(nft, k)
  /\ call.op = "reduce" => \A k \in 0 .. 2 : In(result, k) = In(nft, k)
  /\ call.op = "make_complete" =>
       /\ IsTransducer(result.nft) /\ Within(result.nft, 2) = Within(nft, 2)
       /\ result.returned = (Lacking(nft, call.symbols) # {})
       /\ result.returned => Lacking(result.nft, call.symbols) = {}
  /\ call.op = "remove_epsilon" =>
       /\ Within(nft, 2) \subseteq Within(result, 2)
       /\ Within(result, 2) \subseteq Within(nft, 6)
       /\ \A r \in safe_epsilon_runs(result, EPSILON) : FALSE

------------------------------------------------------------------------------
(* A tape that is asked for, in which a DONT_CARE is any letter.            *)
IsOn(asked, tape) ==
  Len(asked) = Len(tape) /\ \A i \in DOMAIN asked : asked[i] \in {tape[i], DONT_CARE}
StartsOn(asked, tape) ==
  Len(tape) <= Len(asked) /\ IsOn(SubSeq(asked, 1, Len(tape)), tape)

ManyRounds == 4
InRelation(words, prefix) ==
  \E w \in Within(nft, ManyRounds) :
    \A i \in DOMAIN w : IF prefix THEN StartsOn(words[i], w[i]) ELSE IsOn(words[i], w[i])

MetOn(states, words, use_tape, rounds) ==
  {c[1] : c \in {c \in ConfigurationsFrom(nft, states, mode, rounds) :
                   \A i \in DOMAIN words : use_tape[i - 1] => IsOn(words[i], c[2][i])}}

(* One round that puts a symbol, or nothing, on one tape.                   *)
OneRound(states, symbol, level) ==
  {c[1] : c \in {c \in Round(nft, {<<q, NoWords(nft)>> : q \in states}, mode) :
                   IsOn(IF symbol = EPSILON THEN << >> ELSE <<symbol>>, c[2][level + 1])}}
Silent(states, level) == Closed(states, LAMBDA q : OneRound({q}, EPSILON, level))

(* Reading tapes agrees with the relation: membership, also of a prefix and *)
(* also when the fast search without a visited set answers; the states      *)
(* behind tapes, of which some may be left out, with or without the silent  *)
(* moves behind them; the states behind one symbol of one tape; the words   *)
(* up to a length; and whether epsilons cycle.                              *)
ReadsTheRelation ==
  /\ call.op = "is_in_lang" => (result <=> InRelation(call.words, call.match_prefix))
  /\ call.op = "post" =>
       LET met == MetOn(call.states, call.words, call.use_tape, ManyRounds)
           nothing == [i \in DOMAIN call.words |-> << >>]
       IN IF call.closure_after THEN result = met
          ELSE result \subseteq met /\ MetOn(result, nothing, call.use_tape, ManyRounds) = met
  /\ call.op = "post_on_level" =>
       LET step(S) == OneRound(S, call.symbol, call.level)
           silent(S) == Silent(S, call.level)
           stay == IF call.symbol = EPSILON /\ call.epsilon_closure_opt # "None"
                   THEN call.states ELSE {}
       IN result = CASE call.epsilon_closure_opt = "None" -> step(call.states)
                     [] call.epsilon_closure_opt = "Before" -> stay \cup step(silent(call.states))
                     [] call.epsilon_closure_opt = "After" -> silent(stay \cup step(call.states))
  /\ call.op = "get_words" =>
       LET accepted(length) ==
             UNION {{c[2] : c \in {c \in Spelled(SpelledBy(nft), q, length) : c[1] \in nft.final}} :
                      q \in nft.initial}
       IN /\ accepted(call.max_length) \subseteq result
          /\ result \subseteq accepted(call.max_length * nft.num_of_levels)

==============================================================================
