---------------------------- MODULE AutomatonCalls ----------------------------
(***************************************************************************)
(* What a user does with an automaton once it is built: asks for words of  *)
(* its language (Words), turns it into another one (Reductions), solves an *)
(* equation with it (Noodles).  The automaton is the result of a job of    *)
(* Concatenation; the other object of the job is at hand as well.          *)
(***************************************************************************)
EXTENDS Concatenation, Words, Noodles

CONSTANTS
  CallsOn(_)  \* job |-> the calls made on its result: records with the name op

VARIABLES
  reply     \* the call that was made, and what it returned

callsvars == <<combinevars, reply>>
call == reply[1]
answer == reply[2]

NoCall == [op |-> "none"]
aut1 == objects["result"]
aut2 == objects["base"]
Given(names) == [z \in DOMAIN names |-> objects[names[z]]]

CallsInit == CombineInit /\ reply = <<NoCall, {}>>

Called(op) == {k \in IF at = "done" /\ call = NoCall THEN CallsOn(job) ELSE {} : k.op = op}
Answer(k, value) == reply' = <<k, value>> /\ UNCHANGED combinevars

Build == CombineNext /\ UNCHANGED reply

------------------------------------------------------------------------------
GetWords == \E k \in Called("get_words") : Answer(k, get_words(aut1, k.max_length))
GetWord == \E k \in Called("get_word") : Answer(k, get_word(aut1, k.first_epsilon))
GetShortestWord ==
  \E k \in Called("get_shortest_word") : Answer(k, get_shortest_word(aut1, k.first_epsilon))
GetWordFromComplement ==
  \E k \in Called("get_word_from_complement") :
    Answer(k, get_word_from_complement(aut1, k.symbols, EPSILON))
LangDifference ==
  \E k \in Called("lang_difference") : Answer(k, lang_difference(aut1, aut2, FALSE))
GetWordFromLangDifference ==
  \E k \in Called("get_word_from_lang_difference") :
    Answer(k, get_word_from_lang_difference(aut1, aut2, EPSILON))
GetShortestWords == \E k \in Called("get_shortest_words") : Answer(k, get_shortest_words(aut1))
GetWordLengths == \E k \in Called("get_word_lengths") : Answer(k, get_word_lengths(aut1))
GetAcceptedSymbols == \E k \in Called("get_accepted_symbols") : Answer(k, get_accepted_symbols(aut1))
IsLangEps == \E k \in Called("is_lang_eps") : Answer(k, is_lang_eps(aut1))

FragileRevert == \E k \in Called("fragile_revert") : Answer(k, fragile_revert(aut1))
SimpleRevert == \E k \in Called("simple_revert") : Answer(k, simple_revert(aut1))
ReduceSimulation == \E k \in Called("reduce_simulation") : Answer(k, reduce_simulation(aut1))
UnifyInitial == \E k \in Called("unify_initial") : Answer(k, unify_initial(aut1, k.force))
UnifyFinal == \E k \in Called("unify_final") : Answer(k, unify_final(aut1, k.force))

NoodlifyForEquation ==
  \E k \in Called("noodlify_for_equation") :
    Answer(k, noodlify_for_equation(Given(k.lhs), objects[k.rhs[1]], k.unify, FALSE, k.reduce, EPSILON))
NoodlifyForEquationOfSequences ==
  \E k \in Called("noodlify_for_equation of sequences") :
    Answer(k, noodlify_for_equation_of_sequences(Given(k.lhs), Given(k.rhs), FALSE, k.reduce, EPSILON))

CallsNext ==
  \/ Build
  \/ GetWords \/ GetWord \/ GetShortestWord \/ GetWordFromComplement
  \/ LangDifference \/ GetWordFromLangDifference
  \/ GetShortestWords \/ GetWordLengths \/ GetAcceptedSymbols \/ IsLangEps
  \/ FragileRevert \/ SimpleRevert \/ ReduceSimulation \/ UnifyInitial \/ UnifyFinal
  \/ NoodlifyForEquation \/ NoodlifyForEquationOfSequences

CallsSpec == CallsInit /\ [][CallsNext]_callsvars /\ WF_combinevars(Build)

------------------------------------------------------------------------------
Shortest(L) == {w \in L : \A v \in L : Len(w) <= Len(v)}
HasEpsilon(A) == \E m \in A.delta : m[2] >= EPSILON
UpToLength(A, z) == {w \in WordsUpTo({m[2] : m \in A.delta}, z) : Accepts(A, w)}

Empty(A) == Trimmed(A).initial = {}

(* The words that are returned are words of the language that was asked     *)
(* about, and if none is returned it has none: that of the automaton, of its*)
(* complement, of a difference.  A word that is to be a shortest one is, if *)
(* no epsilon lengthens the way to it; the lengths are those of the words.  *)
WordsAreRight ==
  LET L == Language(aut1)
      Other == Language(aut2)
  IN CASE call.op = "get_words" -> answer = UpToLength(aut1, call.max_length)
       [] call.op \in {"get_word", "get_shortest_word"} ->
            /\ answer = {} <=> Empty(aut1)
            /\ \A w \in answer : Accepts(Silenced(aut1), w)
            /\ (call.op = "get_shortest_word" /\ ~ HasEpsilon(aut1)) =>
                 answer \subseteq Shortest(L)
       [] call.op = "get_word_from_complement" ->
            /\ answer = {} <=> WordsUpTo(call.symbols, 4) = UpToLength(aut1, 4)
            /\ \A w \in answer : ~ Accepts(aut1, w) /\ \A z \in DOMAIN w : w[z] \in call.symbols
       [] call.op = "lang_difference" ->
            /\ {w \in Words : Accepts(answer, w)} = L \ Other
            /\ \A m, k \in answer.delta : m[1] = k[1] /\ m[2] = k[2] => m = k
       [] call.op = "get_word_from_lang_difference" ->
            /\ answer = {} <=> L \subseteq Other
            /\ \A w \in answer : Accepts(aut1, w) /\ ~ Accepts(aut2, w)
       [] call.op = "get_shortest_words" -> answer = Shortest(UpToLength(aut1, 4))
       [] call.op = "get_word_lengths" ->
            \A z \in 0 .. 6 :
              (\E w \in UpToLength(aut1, z) : Len(w) = z)
                <=> \E p \in answer : p[1] = z \/ (p[2] # 0 /\ z > p[1] /\ (z - p[1]) % p[2] = 0)
       [] call.op = "get_accepted_symbols" -> answer = {w[1] : w \in {v \in L : Len(v) = 1}}
       [] call.op = "is_lang_eps" -> answer = (L = {<< >>})
       [] OTHER -> TRUE

(* A reversed automaton has the reversed transitions in ordered vectors     *)
(* without repetition, whichever of the algorithms made it; a reduced or    *)
(* unified one has the language of the original, and one initial or final   *)
(* state if it was to have one.                                             *)
TurnedIntoAnother ==
  CASE call.op \in {"fragile_revert", "simple_revert"} ->
         answer = PostsOf(aut1.states, Turned(aut1.delta))
    [] call.op \in {"reduce_simulation", "unify_initial", "unify_final"} ->
         /\ {w \in Words : Accepts(answer, w)} = {w \in Words : Accepts(aut1, w)}
         /\ call.op = "unify_initial" => Cardinality(answer.initial) <= 1
         /\ call.op = "unify_final" => Cardinality(answer.final) <= 1
    [] OTHER -> TRUE

(* The ways to cut words of a noodle into those of the left and right side: *)
(* the words read in the segments that are numbered alike are put together. *)
LongestSide == 3
WordOfSegment(S) == {w \in WordsUpTo({m[2] : m \in S.delta}, LongestSide) : Accepts(S, w)}
Joined(words, chosen) ==
  LET upto[z \in 0 .. Len(words)] ==
        IF z = 0 THEN << >>
        ELSE IF z \in chosen THEN upto[z - 1] \o words[z] ELSE upto[z - 1]
  IN upto[Len(words)]

Readings(segments) ==
  LET upto[z \in 0 .. Len(segments)] ==
        IF z = 0 THEN {<< >>}
        ELSE LET before == upto[z - 1]
             IN {Append(p[1], p[2]) : p \in before \X WordOfSegment(segments[z])}
  IN {ws \in upto[Len(segments)] : Len(Joined(ws, DOMAIN ws)) <= LongestSide}

SidesOf(noodle) ==
  LET segments == [z \in DOMAIN noodle |-> noodle[z][1]]
      on(side, number) == {z \in DOMAIN noodle : noodle[z][2][side] = number}
  IN {<<[x \in DOMAIN call.lhs |-> Joined(ws, on(1, x - 1))],
        [y \in DOMAIN call.rhs |-> Joined(ws, on(2, y - 1))]>> : ws \in Readings(segments)}

SolutionsOf(lhs, rhs) ==
  LET all(side) == Readings(side)
  IN {p \in all(lhs) \X all(rhs) : Joined(p[1], DOMAIN p[1]) = Joined(p[2], DOMAIN p[2])}

(* The noodles of an equation are its solutions: words for the automata of  *)
(* the left side that together are read by the right side are read in the   *)
(* segments of some noodle, cut where the right side cuts them, and no      *)
(* others are.                                                              *)
EquationSolved ==
  CASE call.op = "noodlify_for_equation" ->
         UNION {Readings(noodle) : noodle \in answer}
           = {p[1] : p \in SolutionsOf(Given(call.lhs), Given(call.rhs))}
    [] call.op = "noodlify_for_equation of sequences" ->
         UNION {SidesOf(noodle) : noodle \in answer}
           = SolutionsOf(Given(call.lhs), Given(call.rhs))
    [] OTHER -> TRUE

==============================================================================
