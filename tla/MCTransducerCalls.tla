-------------------------- MODULE MCTransducerCalls --------------------------
(***************************************************************************)
(* TransducerCalls for TLC: transducers of two tapes with two states of    *)
(* level 0 and one of level 1, of three tapes where the order of the tapes *)
(* matters, with few moves each.  What the starts leave out are the inputs *)
(* the README lists as outside of what the operations keep.                *)
(***************************************************************************)
EXTENDS TransducerCalls

CONSTANT MaxMoves

MCLetters == {0, 1}
Modes == {"RepeatSymbol", "AppendDontCares"}

(* Moves of which none goes back to a lower level but 0.                    *)
Arcs(levels, S) ==
  {m \in (DOMAIN levels) \X S \X (DOMAIN levels) : levels[m[3]] = 0 \/ levels[m[1]] < levels[m[3]]}
Transducer(n, levels, F, D) ==
  [num_of_levels |-> n, states |-> DOMAIN levels, levels |-> levels,
   initial |-> {0}, final |-> F, delta |-> D]
UpTo3(S) == {{x[1], x[2], x[3]} : x \in S \X S \X S}
UpTo4(S) == {{x[1], x[2], x[3], x[4]} : x \in S \X S \X S \X S}
TransducersOf(n, levels, S, max) ==
  LET A == Arcs(levels, S)
  IN {Transducer(n, levels, {1}, D) :
        D \in IF max = 2 THEN {{x[1], x[2]} : x \in A \X A} ELSE IF max = 3 THEN UpTo3(A) ELSE UpTo4(A)}

Inner == [q \in 0 .. 2 |-> IF q = 2 THEN 1 ELSE 0]
Inner3 == [q \in 0 .. 3 |-> IF q < 2 THEN 0 ELSE q - 1]

(* The states that moves lead to can be left.                               *)
Lively(S) == {T \in S : Trimmed(T) = T}
JumpsOf(T) == {m \in T.delta : TransLen(T, m) > 1}
Loopless(S) == {T \in S : \A m \in T.delta : m[1] # m[3]}
OfOneSymbol(S) ==
  {T \in S : \A m \in JumpsOf(T), k \in T.delta : k[1] = m[1] => k[2] = m[2]}
SilentSteps(S) == {T \in S : \A m \in JumpsOf(T) : m[2] # EPSILON}
JumpFree(S) == {T \in S : JumpsOf(T) = {}}

Two(S, max) == Lively(TransducersOf(2, Inner, S, max))
Three(S, max) == Lively(TransducersOf(3, Inner3, S, max))

Asked(transducers, modes, calls) == [nft : transducers, mode : modes, calls : {calls}]

Blank(n, levels) == Transducer(n, levels, {1}, {})
Copier == Transducer(2, Inner, {1}, {<<0, 0, 2>>, <<2, 0, 1>>, <<1, 1, 1>>})

BuildStarts ==
  Asked({Blank(2, [q \in 0 .. 1 |-> 0]), Blank(2, Inner)}, Modes, "build")
  \cup Asked({Blank(3, [q \in 0 .. 2 |-> IF q = 2 THEN 2 ELSE 0])}, Modes, "build")

TapeStarts ==
  Asked(JumpFree(Two({0, DONT_CARE, EPSILON}, MaxMoves)), {"NoJump"}, "letters") \cup
  Asked(SilentSteps(Two({0, DONT_CARE, EPSILON}, MaxMoves)), Modes, "tapes")
  \cup Asked(Loopless(SilentSteps(Two({0, 1, EPSILON}, MaxMoves) \cup Three({0, 1}, MaxMoves))), Modes, "projected")

MeetStarts ==
  Asked(OfOneSymbol(Two({0, 1}, MaxMoves)), {"RepeatSymbol"}, "meet")
  \cup Asked(Two({0, DONT_CARE}, MaxMoves), {"AppendDontCares"}, "meet")
  \cup Asked(OfOneSymbol(Two({0, 1}, MaxMoves)), Modes, "compose")
  \cup Asked(SilentSteps(Two({0, EPSILON}, MaxMoves)), {"RepeatSymbol"}, "compose")

ReduceStarts ==
  Asked(JumpFree(Two({0, 1}, 4)), {"NoJump"}, "reduce")
  \cup Asked(Two({0, EPSILON}, MaxMoves), Modes, "complete")

(* Two ways over inner states of their own.                                 *)
Inner2 == [q \in 0 .. 3 |-> IF q < 2 THEN 0 ELSE 1]
OneEntry(T) ==
  \A m, k \in T.delta : m[2] = EPSILON /\ k[2] = EPSILON /\ m[3] = k[3] => m = k
SilentStarts ==
  Asked({T \in JumpFree(Lively(TransducersOf(2, Inner2, {0, EPSILON}, 4))) : OneEntry(T)},
        {"NoJump"}, "silent")

ReadStarts == Asked(SilentSteps(Two({0, DONT_CARE, EPSILON}, MaxMoves)), Modes, "read")

AllStarts ==
  BuildStarts \cup TapeStarts \cup MeetStarts \cup ReduceStarts \cup SilentStarts \cup ReadStarts
MCStarts == AllStarts

(* A state of level 1 that epsilons enter from two states: the run from the *)
(* second is cut out, and the first, which has another epsilon, needs it.   *)
EpsilonShared ==
  Asked({Transducer(2, [q \in 0 .. 4 |-> IF q <= 2 THEN 0 ELSE 1], {1},
                    {<<0, EPSILON, 3>>, <<0, EPSILON, 4>>, <<2, EPSILON, 3>>, <<3, EPSILON, 1>>})},
        {"NoJump"}, "silent")

------------------------------------------------------------------------------
Masks(n, old) == {mask \in [0 .. n - 1 -> BOOLEAN] : Cardinality(OldLevels(mask)) = old}

TapeCalls ==
  [op : {"insert_levels"}, mask : Masks(3, 2) \cup Masks(4, 2)]
  \cup [op : {"insert_level"}, level : 0 .. 3]
  \cup [op : {"invert_levels"}]
  \cup [op : {"unwind_jumps"}, symbols : {MCLetters}]
LetterCalls == [op : {"get_one_letter_aut"}, levels : SUBSET {0, 1}, symbol : {1}]
ProjectCalls(n) ==
  [op : {"project_out", "project_to"}, levels : (SUBSET (0 .. n - 1)) \ {{}, 0 .. n - 1}]

Others == {Copier, Transducer(2, Inner, {1}, {<<0, 0, 1>>, <<1, 0, 2>>, <<2, 1, 1>>})}
Copier3 == Transducer(3, Inner3, {1}, {<<0, 0, 2>>, <<2, 0, 3>>, <<2, 1, 3>>, <<3, 1, 1>>})
MeetCalls == [op : {"intersection"}, other : Others]

WritesDontCare(T, tapes, mode_of) ==
  \E m \in T.delta : \E l \in T.levels[m[1]] .. StopLevel(T, m[3]) - 1 :
    l \in tapes /\ SymbolOnLevel(T, m, l, mode_of) = DONT_CARE
ComposeCalls(s) ==
  {k \in [op : {"compose"}, other : Others, lhs_sync : {<<0>>, <<1>>}, rhs_sync : {<<0>>, <<1>>},
          project : BOOLEAN]
       \cup [op : {"compose"}, other : {Copier3}, lhs_sync : {<<1>>}, rhs_sync : {<<0>>, <<1>>},
             project : {TRUE}]
       \cup [op : {"compose"}, other : Others, lhs_sync : {<<0, 1>>}, rhs_sync : {<<0, 1>>},
             project : {FALSE}] :
     /\ ~ WritesDontCare(s.nft, ToSet(k.lhs_sync), s.mode)
     /\ ~ WritesDontCare(k.other, ToSet(k.rhs_sync), s.mode)}

Short == {<< >>, <<0>>, <<DONT_CARE>>, <<1>>}
Unread(k) == \A i \in DOMAIN k.words : ~ k.use_tape[i - 1] => k.words[i] = << >>
ReadCalls ==
  [op : {"is_in_lang"}, words : [1 .. 2 -> Short], match_prefix : BOOLEAN]
  \cup {k \in [op : {"post"}, states : {{0}}, words : [1 .. 2 -> Short],
               use_tape : [0 .. 1 -> BOOLEAN], closure_after : BOOLEAN] : Unread(k)}
  \cup [op : {"post_on_level"}, states : {{0}, {0, 1}}, symbol : {0, 1, EPSILON}, level : 0 .. 1,
        epsilon_closure_opt : {"None", "Before", "After"}]
  \cup [op : {"get_words"}, max_length : 0 .. 3]

MCCallsOn(s) ==
  CASE s.calls = "tapes" -> TapeCalls
    [] s.calls = "letters" -> LetterCalls
    [] s.calls = "projected" -> ProjectCalls(s.nft.num_of_levels)
    [] s.calls = "meet" -> MeetCalls
    [] s.calls = "compose" -> ComposeCalls(s)
    [] s.calls = "reduce" -> [op : {"determinize", "reduce"}]
    [] s.calls = "complete" -> [op : {"make_complete"}, symbols : {{0, 1}, {0}}]
    [] s.calls = "silent" -> [op : {"remove_epsilon"}]
    [] s.calls = "read" -> ReadCalls
    [] OTHER -> {}

MCWords == [n \in 2 .. 3 |-> {[i \in 1 .. n |-> 0], [i \in 1 .. n |-> i % 2]}
                             \cup IF n = 2 THEN {<<0, 1, 1, EPSILON>>} ELSE {}]
MCParts == [n \in 2 .. 3 |-> IF n = 2 THEN {<<<<0>>, <<1>>>>, <<<<0, 1>>, <<1>>>>, <<<< >>, <<1>>>>}
                             ELSE {<<<<0>>, <<1>>, << >>>>}]

==============================================================================
