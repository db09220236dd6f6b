----------------------------- MODULE TransducerTapes -----------------------------
(***************************************************************************)
(* The operations of src/nft/operations.cc and src/nft/nft.cc that change  *)
(* the tapes of a transducer: insert_levels, project_out, invert_levels    *)
(* and unwind_jumps; then products (src/nft/intersection.cc) and           *)
(* compose_general (src/nft/composition.cc), which inserts tapes until two *)
(* transducers have the same, lets each wait in loops, builds the product  *)
(* and projects the synchronized tapes out.                                *)
(* Each is an operator from transducers to transducers.                    *)
(*                                                                         *)
(* States of a result are sequences of numbers: <<q>> is the state q of    *)
(* the argument, longer ones are the states an operation adds, named for   *)
(* what they are added for.  A state that is shared has one name.  A state *)
(* of a product is the pair of states it stands for.                       *)
(***************************************************************************)
EXTENDS Transducers

LeastIn(S) == CHOOSE x \in S : \A y \in S : x <= y
(* The states of T under their names in a result.                           *)
Kept(S) == {<<q>> : q \in S}

(* A transducer of these moves, in which levels gives each state its level. *)
Built(n, initial, final, delta, added, levels(_)) ==
  LET states == initial \cup final \cup added \cup {m[1] : m \in delta} \cup {m[3] : m \in delta}
  IN [num_of_levels |-> n, states |-> states, levels |-> [q \in states |-> levels(q)],
      initial |-> initial, final |-> final, delta |-> delta]

Unchanged(T) ==
  Built(T.num_of_levels, Kept(T.initial), Kept(T.final),
        {<<<<m[1]>>, m[2], <<m[3]>>>> : m \in T.delta}, Kept(T.states), LAMBDA q : T.levels[q[1]])

------------------------------------------------------------------------------
(* insert_levels.  mask[l] says that level l of the result is new.          *)

OldLevels(mask) == {l \in DOMAIN mask : ~ mask[l]}

updated_level(mask, k) ==
  IF k = 0 THEN 0
  ELSE CHOOSE l \in OldLevels(mask) : Cardinality({j \in OldLevels(mask) : j < l}) = k

next_inner_level(mask, l, mode) ==
  IF ~ mask[l] /\ mode # "AppendDontCares" THEN l + 1
  ELSE LeastIn({j \in OldLevels(mask) : j > l} \cup {Cardinality(DOMAIN mask)})

(* The pieces of a move, one from each level in begins; next is the level   *)
(* the piece leads to.  A piece that begins before the first old level, but *)
(* not at the source, is shared by all moves of the source.                 *)
insert_levels(T, mask, mode) ==
  LET size == Cardinality(DOMAIN mask)
      next(l) == next_inner_level(mask, l, mode)
      level(q) == updated_level(mask, T.levels[q])
      stop(m) == IF level(m[3]) = 0 THEN size - 1 ELSE level(m[3]) - 1
      begins(m) == {level(m[1])} \cup {l \in {next(k) : k \in level(m[1]) .. stop(m)} :
                                         l < next(stop(m))}
      is_old_level_processed(m, l) == \E k \in begins(m) : k < l /\ ~ mask[k]
      before(m, l) == CHOOSE k \in begins(m) : next(k) = l
      inner(m, l) == IF l = level(m[1]) THEN <<m[1]>>
                     ELSE IF mask[before(m, l)] /\ ~ is_old_level_processed(m, before(m, l))
                          THEN <<m[1], l>> ELSE m \o <<l>>
      symbol(m, l) ==
        IF ~ mask[l] /\ (mode # "AppendDontCares" \/ ~ is_old_level_processed(m, l))
        THEN m[2] ELSE DONT_CARE
      pieces(m) ==
        {<<inner(m, l), symbol(m, l),
           IF next(l) < next(stop(m)) THEN inner(m, next(l)) ELSE <<m[3]>>>> : l \in begins(m)}
  IN IF size = T.num_of_levels THEN Unchanged(T)
     ELSE Built(size, Kept(T.initial), Kept(T.final), UNION {pieces(m) : m \in T.delta},
                Kept(T.states),
                LAMBDA q : IF Len(q) = 1 THEN level(q[1]) ELSE q[Len(q)])

(* insert_level; the mask it hands on.                                      *)
mask_of_level(n, at) ==
  [l \in 0 .. (IF at <= n THEN n ELSE at) |-> l = at \/ (at > n /\ l >= n)]

------------------------------------------------------------------------------
(* project_out.                                                             *)

(* Where the gaps that end in the last level begin.                         *)
seq_start(n, levels) == LeastIn({k \in 0 .. n : \A l \in k .. n - 1 : l \in levels})

new_level(n, levels, l) ==
  IF l >= seq_start(n, levels) THEN 0 ELSE l - Cardinality({k \in levels : k < l})

(* Not the code: what a move from a projected level jumps over is lost.     *)
FromProjectedLevel(T, levels, m) == T.levels[m[1]] \in levels

is_projected_along_path(T, levels, m) ==
  \A l \in T.levels[m[1]] .. StopLevel(T, m[3]) - 1 : l \in levels

(* A loop stays a loop, on the state that takes it over.                    *)
project_out(T, levels, mode) ==
  LET out == {q \in T.states : T.levels[q] \in levels}
      skipped == {m \in T.delta : is_projected_along_path(T, levels, m)}
      closure(s) == Closed({s}, LAMBDA q : {m[3] : m \in {k \in skipped : k[1] = q}})
      target(s, m) == IF m[3] = m[1] /\ m[1] \notin out THEN s ELSE m[3]
      symbol(m) == IF m[1] \in out /\ mode = "AppendDontCares" THEN DONT_CARE ELSE m[2]
      moves(s) == {<<s, symbol(m), target(s, m)>> :
                     m \in {k \in T.delta \ skipped : k[1] \in closure(s)}}
      projected ==
        [T EXCEPT
           !.delta = UNION {moves(s) : s \in T.states},
           !.final = @ \cup {s \in T.states : T.levels[s] >= seq_start(T.num_of_levels, levels)
                                              /\ closure(s) \cap T.final # {}}]
  IN [Trimmed(projected) EXCEPT
        !.num_of_levels = @ - Cardinality(levels),
        !.levels = [q \in T.states |-> new_level(T.num_of_levels, levels, @[q])]]

project_to(T, levels, mode) == project_out(T, (0 .. T.num_of_levels - 1) \ levels, mode)

------------------------------------------------------------------------------
(* invert_levels.                                                           *)

(* The paths from level 0 to level 0.                                       *)
Paths(T) ==
  LET longer(p) == IF Len(p) > 1 /\ T.levels[p[Len(p)]] = 0 THEN {}
                   ELSE {Append(p, m[3]) : m \in {k \in T.delta : k[1] = p[Len(p)]}}
  IN {p \in Closed({<<q>> : q \in {s \in T.states : T.levels[s] = 0}}, longer) :
        Len(p) > 1 /\ T.levels[p[Len(p)]] = 0}

(* Each path gets inner states of its own.  A move of the path is turned    *)
(* around, with its ends at level 0 exchanged; when the tapes it skips are  *)
(* filled with DONT_CAREs, these have to be read first, up to an auxiliary  *)
(* state.                                                                   *)
invert_levels(T, mode) ==
  LET n == T.num_of_levels
      renaming(p, q) == IF T.levels[q] = 0 THEN <<q>> ELSE p \o <<q, n - T.levels[q]>>
      inverted(p, m) ==
        LET from == renaming(p, IF m[3] = p[Len(p)] THEN p[1] ELSE m[3])
            to == renaming(p, IF m[1] = p[1] THEN p[Len(p)] ELSE m[1])
            aux == p \o <<m[1], m[3], n - T.levels[m[1]] - 1>>
        IN IF mode = "AppendDontCares" /\ TransLen(T, m) > 1
           THEN {<<from, DONT_CARE, aux>>, <<aux, m[2], to>>}
           ELSE {<<from, m[2], to>>}
      along(p) == UNION {{m \in T.delta : m[1] = p[i] /\ m[3] = p[i + 1]} : i \in 1 .. Len(p) - 1}
  IN Built(n, Kept(T.initial), Kept(T.final),
           UNION {UNION {inverted(p, m) : m \in along(p)} : p \in Paths(T)},
           Kept({q \in T.states : T.levels[q] = 0}),
           LAMBDA q : IF Len(q) = 1 THEN 0 ELSE q[Len(q)])

------------------------------------------------------------------------------
(* unwind_jumps; a state behind a jump is named for the jump and its level. *)
(* A DONT_CARE stands for the letters that are to replace it.               *)
unwind_jumps(T, dont_care_symbol_replacements, mode) ==
  LET level(q) == IF Len(q) = 1 THEN T.levels[q[1]] ELSE q[4]
      on(m, l) == IF l = T.levels[m[1]] THEN <<m[1]>>
                  ELSE IF l = StopLevel(T, m[3]) THEN <<m[3]>> ELSE m \o <<l>>
      symbols(m, l) ==
        LET a == SymbolOnLevel(T, m, l, mode)
        IN IF a = DONT_CARE THEN dont_care_symbol_replacements ELSE {a}
      steps(m) == UNION {{on(m, l)} \X symbols(m, l) \X {on(m, l + 1)} :
                           l \in T.levels[m[1]] .. StopLevel(T, m[3]) - 1}
  IN Built(T.num_of_levels, Kept(T.initial), Kept(T.final),
           UNION {steps(m) : m \in T.delta}, Kept(T.states), level)

(* contains_jump_transitions.                                               *)
contains_jump_transitions(T) ==
  T.num_of_levels # 1 /\ \E m \in T.delta : TransLen(T, m) # 1

(* get_one_letter_aut: the symbols of all but some levels become one.       *)
get_one_letter_aut(T, levels_to_keep, abstract_symbol) ==
  [T EXCEPT !.delta =
     {<<m[1], IF T.levels[m[1]] \in levels_to_keep \/ m[2] = EPSILON THEN m[2]
              ELSE abstract_symbol, m[3]>> : m \in @}]

Greater(a, b) == IF a >= b THEN a ELSE b
Smaller(a, b) == IF a <= b THEN a ELSE b

(* The symbols two moves are taken together on; DONT_CARE is any of them.   *)
SymbolsMeet(a, b) == a = b \/ a = DONT_CARE \/ b = DONT_CARE
MetSymbol(a, b) == IF a = DONT_CARE THEN b ELSE a

level_of_pair(L, R, p, mode) ==
  LET l == L.levels[p[1]]  r == R.levels[p[2]]
  IN IF mode # "AppendDontCares" \/ l = 0 \/ r = 0 THEN Greater(l, r) ELSE Smaller(l, r)

(* The pair two moves lead to.  The longer one is not taken yet, unless its *)
(* end is waited in; a move that ends where the other has been is passed.   *)
PairOfTargets(L, R, m, k, mode) ==
  LET to_l == StopLevel(L, m[3])  to_r == StopLevel(R, k[3])
  IN IF to_l <= R.levels[k[1]] \/ to_r <= L.levels[m[1]] THEN {}
     ELSE {<<IF mode = "AppendDontCares" \/ to_l <= to_r THEN m[3] ELSE m[1],
             IF mode = "AppendDontCares" \/ to_r <= to_l THEN k[3] ELSE k[1]>>}

(* The moves of the product from one pair.                                  *)
MovesTogether(L, R, p, mode) ==
  UNION {{<<p, MetSymbol(m[2], k[2]), t>> : t \in PairOfTargets(L, R, m, k, mode)} :
           <<m, k>> \in {x \in {m \in L.delta : m[1] = p[1]} \X {k \in R.delta : k[1] = p[2]} :
                           SymbolsMeet(x[1][2], x[2][2])}}

(* The deeper state waits.                                                  *)
MovesAlone(L, R, p) ==
  IF StopLevel(L, p[1]) < StopLevel(R, p[2])
  THEN {<<p, m[2], <<m[3], p[2]>>>> : m \in {m \in L.delta : m[1] = p[1]}}
  ELSE {<<p, k[2], <<p[1], k[3]>>>> : k \in {k \in R.delta : k[1] = p[2]}}

(* The states from first_aux_state on are auxiliary; no two of them meet.   *)
product(L, R, mode, l_aux, r_aux) ==
  LET moves(p) ==
        {m \in IF L.levels[p[1]] = R.levels[p[2]] \/ mode # "AppendDontCares"
               THEN MovesTogether(L, R, p, mode) ELSE MovesAlone(L, R, p) :
           ~ (m[3][1] \in l_aux /\ m[3][2] \in r_aux)}
      initial == L.initial \X R.initial
      pairs == Closed(initial, LAMBDA p : {m[3] : m \in moves(p)})
  IN Built(L.num_of_levels, initial, pairs \cap (L.final \X R.final),
           UNION {moves(p) : p \in pairs}, {},
           LAMBDA p : level_of_pair(L, R, p, mode))

NoTransducer == Built(2, {}, {}, {}, {}, LAMBDA q : 0)

intersection(L, R, mode, l_aux, r_aux) ==
  IF {} \in {L.initial, L.final, R.initial, R.final} THEN NoTransducer
  ELSE product(L, R, mode, l_aux, r_aux)

------------------------------------------------------------------------------
(* compose_general.                                                         *)

nonsync_levels_cnt(n, sync) ==
  [i \in 1 .. Len(sync) + 1 |->
     (IF i > Len(sync) THEN n ELSE sync[i]) - (IF i = 1 THEN 0 ELSE sync[i - 1] + 1)]

(* Whose the levels of the synchronized transducers are, block by block.    *)
Owners(lhs_cnt, rhs_cnt) ==
  LET block(i) == [j \in 1 .. lhs_cnt[i] |-> "lhs"] \o [j \in 1 .. rhs_cnt[i] |-> "rhs"]
      upto[i \in 0 .. Len(lhs_cnt)] ==
        IF i = 0 THEN << >>
        ELSE upto[i - 1] \o block(i) \o (IF i < Len(lhs_cnt) THEN <<"both">> ELSE << >>)
  IN upto[Len(lhs_cnt)]

new_levels_mask(owners, side) ==
  [l \in 0 .. Len(owners) - 1 |-> owners[l + 1] \notin {side, "both"}]

(* Not the code: the loops wait over the inserted tapes as well.            *)
SilentLoops(T, mask) ==
  LET at(q, l) == IF l \in {0, T.num_of_levels} THEN q ELSE q \o <<0, l>>
      zero == {s \in T.states : T.levels[s] = 0}
      inner == {q \o <<0, l>> : q \in zero, l \in 1 .. T.num_of_levels - 1}
      loops == UNION {{<<at(q, l), EPSILON, at(q, l + 1)>> : l \in 0 .. T.num_of_levels - 1} : q \in zero}
  IN [nft |-> Built(T.num_of_levels, T.initial, T.final, T.delta \cup loops, T.states \cup inner,
                    LAMBDA q : IF q \in inner THEN q[Len(q)] ELSE T.levels[q]),
      aux |-> inner]

(* A loop on each state of level 0: silent, but on the tapes of the other.  *)
insert_self_loops(T, mask) ==
  LET at(q, l) == IF l \in {0, T.num_of_levels} THEN q ELSE q \o <<0, l>>
      loop(q) == {<<at(q, l), IF mask[l] THEN DONT_CARE ELSE EPSILON, at(q, l + 1)>> :
                    l \in 0 .. T.num_of_levels - 1}
      inner == {q \o <<0, l>> : q \in {s \in T.states : T.levels[s] = 0},
                                l \in 1 .. T.num_of_levels - 1}
  IN [nft |-> Built(T.num_of_levels, T.initial, T.final,
                    T.delta \cup UNION {loop(q) : q \in {s \in T.states : T.levels[s] = 0}},
                    T.states \cup inner,
                    LAMBDA q : IF q \in inner THEN q[Len(q)] ELSE T.levels[q]),
      aux |-> inner]

compose_general(lhs, rhs, lhs_sync, rhs_sync, project, mode) ==
  LET owners == Owners(nonsync_levels_cnt(lhs.num_of_levels, lhs_sync),
                       nonsync_levels_cnt(rhs.num_of_levels, rhs_sync))
      synced(T, side) ==
        LET mask == new_levels_mask(owners, side)
        IN insert_self_loops(insert_levels(T, mask, mode), mask)
      l == synced(lhs, "lhs")
      r == synced(rhs, "rhs")
      result == intersection(l.nft, r.nft, mode, l.aux, r.aux)
  IN IF project
     THEN project_out(result, {i - 1 : i \in {j \in DOMAIN owners : owners[j] = "both"}}, mode)
     ELSE result

==============================================================================
