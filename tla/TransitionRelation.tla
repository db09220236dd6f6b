--------------------------- MODULE TransitionRelation ---------------------------
(***************************************************************************)
(* mata::nfa::Delta, StatePost and SymbolPost (include/mata/nfa/delta.hh,  *)
(* src/nfa/delta.cc).  A relation is a sequence of state posts, that of    *)
(* state q at position q + 1; a state post is a sequence of symbol posts   *)
(* in the order of their symbols, and the targets of a symbol post are an  *)
(* ordered vector: utils::OrdVector (include/mata/utils/ord-vector.hh), a  *)
(* set kept in an ascending sequence, comes first.                         *)
(***************************************************************************)
EXTENDS Integers, Sequences

is_sorted(v) == \A n \in 1 .. Len(v) - 1 : v[n] < v[n + 1]
ElementsOf(v) == {v[n] : n \in DOMAIN v}

(* std::lower_bound: the first position that does not hold less than key.   *)
lower_bound(v, key) ==
  CHOOSE n \in 1 .. Len(v) + 1 : /\ n = Len(v) + 1 \/ v[n] >= key
                                 /\ \A k \in 1 .. n - 1 : v[k] < key
IsAt(v, n, key) == n <= Len(v) /\ v[n] = key

InsertedAt(v, n, x) == SubSeq(v, 1, n - 1) \o <<x>> \o SubSeq(v, n, Len(v))
ErasedAt(v, n) == SubSeq(v, 1, n - 1) \o SubSeq(v, n + 1, Len(v))

insert(v, x) ==
  LET pos == lower_bound(v, x) IN IF IsAt(v, pos, x) THEN v ELSE InsertedAt(v, pos, x)
erase(v, x) ==
  LET pos == lower_bound(v, x) IN IF IsAt(v, pos, x) THEN ErasedAt(v, pos) ELSE v
contains(v, x) == IsAt(v, lower_bound(v, x), x)

(* The operations on two vectors walk through both; l and r are positions.  *)
Positions(v) == 1 .. Len(v) + 1
set_union(lhs, rhs) ==
  LET walk[l \in Positions(lhs), r \in Positions(rhs)] ==
        IF l > Len(lhs) THEN SubSeq(rhs, r, Len(rhs))
        ELSE IF r > Len(rhs) THEN SubSeq(lhs, l, Len(lhs))
        ELSE IF lhs[l] < rhs[r] THEN <<lhs[l]>> \o walk[l + 1, r]
        ELSE IF lhs[l] > rhs[r] THEN <<rhs[r]>> \o walk[l, r + 1]
        ELSE <<lhs[l]>> \o walk[l + 1, r + 1]
  IN walk[1, 1]

difference(lhs, rhs) ==
  LET walk[l \in Positions(lhs), r \in Positions(rhs)] ==
        IF l > Len(lhs) THEN << >>
        ELSE IF r > Len(rhs) THEN SubSeq(lhs, l, Len(lhs))
        ELSE IF lhs[l] = rhs[r] THEN walk[l + 1, r + 1]
        ELSE IF lhs[l] < rhs[r] THEN <<lhs[l]>> \o walk[l + 1, r]
        ELSE walk[l, r + 1]
  IN walk[1, 1]

intersection(lhs, rhs) ==
  LET walk[l \in Positions(lhs), r \in Positions(rhs)] ==
        IF l > Len(lhs) \/ r > Len(rhs) THEN << >>
        ELSE IF lhs[l] = rhs[r] THEN <<lhs[l]>> \o walk[l + 1, r + 1]
        ELSE IF lhs[l] < rhs[r] THEN walk[l + 1, r]
        ELSE walk[l, r + 1]
  IN walk[1, 1]

is_intersection_empty_with(lhs, rhs) ==
  LET walk[l \in Positions(lhs), r \in Positions(rhs)] ==
        \/ l > Len(lhs) \/ r > Len(rhs)
        \/ lhs[l] < rhs[r] /\ walk[l + 1, r]
        \/ lhs[l] > rhs[r] /\ walk[l, r + 1]
  IN walk[1, 1]

(* sort_and_rmdupl, of any sequence: its elements ascending, each once.     *)
sort_and_rmdupl(s) ==
  LET sorted[n \in 0 .. Len(s)] == IF n = 0 THEN << >> ELSE insert(sorted[n - 1], s[n])
  IN sorted[Len(s)]

(* unify_targets of the synchronized iterator: the least head of several    *)
(* vectors is taken from a priority queue, and kept unless it was just kept.*)
unify_targets(vectors) ==
  LET drawn[heads \in [DOMAIN vectors -> Nat], unified \in Seq(Nat)] ==
        LET open == {n \in DOMAIN vectors : heads[n] <= Len(vectors[n])}
            least == CHOOSE n \in open : \A k \in open : vectors[n][heads[n]] <= vectors[k][heads[k]]
            value == vectors[least][heads[least]]
        IN IF open = {} THEN unified
           ELSE drawn[[heads EXCEPT ![least] = @ + 1],
                      IF unified # << >> /\ unified[Len(unified)] = value THEN unified
                      ELSE Append(unified, value)]
  IN drawn[[n \in DOMAIN vectors |-> 1], << >>]

SymbolPost(a, ts) == [symbol |-> a, targets |-> ts]
SymbolsOf(post) == [n \in DOMAIN post |-> post[n].symbol]

(* Delta::state_post: no post of a state beyond the vector, an empty one.   *)
state_post(posts, q) == IF q < Len(posts) THEN posts[q + 1] ELSE << >>

(* StatePost::find; the position after the last one is end().               *)
find(post, symbol) ==
  LET pos == lower_bound(SymbolsOf(post), symbol)
  IN IF IsAt(SymbolsOf(post), pos, symbol) THEN pos ELSE Len(post) + 1
HasSymbol(post, symbol) == find(post, symbol) # Len(post) + 1

(* allocate and resize_for_states: state posts are added, never removed.    *)
allocate(posts, size) ==
  [n \in 1 .. (IF size > Len(posts) THEN size ELSE Len(posts)) |-> state_post(posts, n - 1)]

(* SymbolPost::insert of a set, one target after the other.                 *)
InsertAll(targets, more) ==
  LET inserted[n \in 0 .. Len(more)] ==
        IF n = 0 THEN targets ELSE insert(inserted[n - 1], more[n])
  IN inserted[Len(more)]

------------------------------------------------------------------------------
(* Delta::add of a vector of targets; of one target is of a vector of one.  *)
add(posts, source, symbol, targets) ==
  IF targets = << >> THEN posts
  ELSE LET last == targets[Len(targets)]
           grown == allocate(posts, 1 + (IF source > last THEN source ELSE last))
           post == grown[source + 1]
           pos == find(post, symbol)
       IN [grown EXCEPT ![source + 1] =
             IF HasSymbol(post, symbol)
             THEN [post EXCEPT ![pos].targets = InsertAll(@, targets)]
             ELSE InsertedAt(post, lower_bound(SymbolsOf(post), symbol), SymbolPost(symbol, targets))]

(* Delta::remove says what it does not find only when the state has a post  *)
(* and the post has no such symbol.                                         *)
RemoveThrows(posts, source, symbol) ==
  source < Len(posts) /\ ~ HasSymbol(posts[source + 1], symbol)

(* Not the code: a symbol post that has lost its last target stays.         *)
RemoveLeavesEmpty(posts, source, symbol, target) ==
  IF source >= Len(posts) \/ RemoveThrows(posts, source, symbol) THEN posts
  ELSE [posts EXCEPT ![source + 1][find(posts[source + 1], symbol)].targets = erase(@, target)]

remove(posts, source, symbol, target) ==
  IF source >= Len(posts) \/ RemoveThrows(posts, source, symbol) THEN posts
  ELSE LET post == posts[source + 1]
           pos == find(post, symbol)
           left == erase(post[pos].targets, target)
       IN [posts EXCEPT ![source + 1] =
             IF left = << >> THEN ErasedAt(post, pos) ELSE [post EXCEPT ![pos].targets = left]]

------------------------------------------------------------------------------
(* Questions about one state post.                                          *)
get_successors(post) ==
  LET united[n \in 0 .. Len(post)] ==
        IF n = 0 THEN << >> ELSE set_union(united[n - 1], post[n].targets)
  IN united[Len(post)]

SuccessorsBy(post, symbol) ==
  IF HasSymbol(post, symbol) THEN post[find(post, symbol)].targets ELSE << >>

(* Delta::epsilon_symbol_posts: EPSILON can only be the last symbol.        *)
epsilon_symbol_posts(post, epsilon, EPSILON) ==
  IF epsilon # EPSILON \/ post = << >> THEN find(post, epsilon)
  ELSE IF post[Len(post)].symbol = epsilon THEN Len(post) ELSE Len(post) + 1

(* Not the code: the search stops at the normal symbol itself.              *)
FirstEpsilonOffByOne(post, first_epsilon) ==
  LET back[it \in Positions(post)] ==
        IF it = 1 THEN 1
        ELSE IF post[it - 1].symbol < first_epsilon THEN it - 1
        ELSE back[it - 1]
  IN back[Len(post) + 1]

(* StatePost::first_epsilon_it looks for it from the end.                   *)
first_epsilon_it(post, first_epsilon) ==
  LET back[it \in Positions(post)] ==
        IF it = 1 THEN 1
        ELSE IF post[it - 1].symbol < first_epsilon THEN it
        ELSE back[it - 1]
  IN back[Len(post) + 1]

(* StatePost::Moves, from one symbol post up to another: an iterator is at  *)
(* a target of a symbol post and goes to the next symbol post after the     *)
(* last of them.                                                            *)
moves_of(post, from, end) ==
  LET at[here \in Positions(post) \X Nat] ==
        LET n == here[1]
            k == here[2]
        IN IF n >= end THEN << >>
           ELSE <<<<post[n].symbol, post[n].targets[k]>>>>
                \o at[IF k < Len(post[n].targets) THEN <<n, k + 1>> ELSE <<n + 1, 1>>]
  IN at[<<from, 1>>]

AllMoves(post) == moves_of(post, 1, Len(post) + 1)
moves_epsilons(post, first_epsilon) == moves_of(post, first_epsilon_it(post, first_epsilon), Len(post) + 1)
moves_symbols(post, last_symbol) == moves_of(post, 1, first_epsilon_it(post, last_symbol + 1))

num_of_moves(post) ==
  LET counted[n \in 0 .. Len(post)] ==
        IF n = 0 THEN 0 ELSE counted[n - 1] + Len(post[n].targets)
  IN counted[Len(post)]

------------------------------------------------------------------------------
(* Questions about the relation.                                            *)
Contains(posts, source, symbol, target) ==
  /\ source < Len(posts)
  /\ HasSymbol(posts[source + 1], symbol)
  /\ contains(SuccessorsBy(posts[source + 1], symbol), target)

num_of_transitions(posts) ==
  LET counted[n \in 0 .. Len(posts)] ==
        IF n = 0 THEN 0 ELSE counted[n - 1] + num_of_moves(posts[n])
  IN counted[Len(posts)]

IsEmpty(posts) == \A n \in DOMAIN posts : posts[n] = << >>

(* Delta::Transitions: the iterator starts at the first state that has a    *)
(* post, and after the last target of the last symbol skips to the next.    *)
transitions(posts) ==
  LET skip[q \in Positions(posts)] ==
        IF q > Len(posts) \/ posts[q] # << >> THEN q ELSE skip[q + 1]
      at[q \in Positions(posts), n \in Nat, k \in Nat] ==
        IF q > Len(posts) THEN << >>
        ELSE <<<<q - 1, posts[q][n].symbol, posts[q][n].targets[k]>>>>
             \o (IF k < Len(posts[q][n].targets) THEN at[q, n, k + 1]
                 ELSE IF n < Len(posts[q]) THEN at[q, n + 1, 1] ELSE at[skip[q + 1], 1, 1])
  IN at[skip[1], 1, 1]

(* Delta::operator==: two iterators go in step.                             *)
SameTransitions(posts, other) ==
  LET mine == transitions(posts)
      theirs == transitions(other)
  IN Len(mine) = Len(theirs) /\ \A n \in DOMAIN mine : mine[n] = theirs[n]

get_transitions_between(posts, source, target) ==
  LET post == state_post(posts, source)
      found[n \in 0 .. Len(post)] ==
        IF n = 0 THEN << >>
        ELSE IF contains(post[n].targets, target)
             THEN Append(found[n - 1], <<source, post[n].symbol, target>>)
             ELSE found[n - 1]
  IN found[Len(post)]

get_transitions_to(posts, target) ==
  LET found[q \in 0 .. Len(posts)] ==
        IF q = 0 THEN << >> ELSE found[q - 1] \o get_transitions_between(posts, q - 1, target)
  IN found[Len(posts)]

(* get_used_symbols, in the variant that collects them and then sorts; the  *)
(* variants over sets and bit vectors come to the same set.                 *)
get_used_symbols(posts) ==
  LET collected[n \in 0 .. Len(posts)] ==
        IF n = 0 THEN << >> ELSE collected[n - 1] \o SymbolsOf(posts[n])
  IN sort_and_rmdupl(collected[Len(posts)])

get_max_symbol(posts) ==
  LET used == get_used_symbols(posts) IN IF used = << >> THEN 0 ELSE used[Len(used)]

==============================================================================
