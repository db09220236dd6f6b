---------------------------- MODULE FastComposition ----------------------------
(***************************************************************************)
(* compose_fast_no_jump (src/nft/composition.cc): the composition of two   *)
(* transducers over one synchronization level each, without jumps but for  *)
(* fast epsilons.                                                          *)
(*                                                                         *)
(* The transducer under construction and the containers that go with it    *)
(* are one record, c, and what the lambdas of the function do to them are  *)
(* operators on it.  A step is one pair of the worklist, or one pair of    *)
(* the worklist of a waiting simulation.  The order in which the targets   *)
(* of one symbol get their numbers is the order of the pairs.              *)
(***************************************************************************)
EXTENDS SyncTypes

VARIABLES
  c,        \* the result, the storages and the worklists
  pair,     \* the pair taken from the worklist
  waiting,  \* the waiting simulation: which side runs, from where
  result

vars == <<job, at, typevars, c, pair, waiting, result>>

Nobody == [running |-> "none", root |-> 0, first |-> 0]
num_of_levels ==
  job.lhs.num_of_levels + job.rhs.num_of_levels - (IF job.project_out THEN 2 ELSE 1)
level(d, s) == d.levels[s + 1]
PairOf(s, first, second) == IF s = "lhs" THEN <<first, second>> ELSE <<second, first>>
StateOf(p, s) == IF s = "lhs" THEN p[1] ELSE p[2]
StopAt(l) == IF l = 0 THEN num_of_levels ELSE l
LexLess(p, q) == p[1] < q[1] \/ (p[1] = q[1] /\ p[2] < q[2])

(* result.add_state_with_level.                                             *)
AddState(d, l) == [d EXCEPT !.levels = Append(@, l)]
Link(d, source, symbol, targets) ==
  [d EXCEPT !.delta = @ \cup ({source} \X {symbol} \X targets)]

(* A chain of epsilons of the given length, and where it ends.              *)
create_epsilon_path(d, source, length) ==
  LET n == Len(d.levels)
  IN [d EXCEPT
        !.levels = @ \o [i \in 1 .. length |-> level(d, source) + i],
        !.delta = @ \cup {<<IF i = 1 THEN source ELSE n + i - 2, EPSILON, n + i - 1>> :
                            i \in 1 .. length}]
end_of_path(d, source, length) == IF length = 0 THEN source ELSE Len(d.levels) + length - 1

(* A pair is stored once, and is on one level (an assertion of the code).   *)
create_composition_state(d, p, l) ==
  IF p \in DOMAIN d.storage
  THEN IF level(d, d.storage[p]) = l THEN d ELSE [d EXCEPT !.failed = @ \cup {"level"}]
  ELSE LET s == Len(d.levels)
       IN [AddState(d, l) EXCEPT
             !.storage = @ @@ (p :> s),
             !.final = IF l = 0 /\ p[1] \in job.lhs.final /\ p[2] \in job.rhs.final
                       THEN @ \cup {s} ELSE @,
             !.worklist = Append(@, p)]

CreateAll(d, pairs, l) ==
  FoldLeft(LAMBDA e, p : create_composition_state(e, p, l), d, Ascending(pairs, LexLess))

(* combine_targets without vanishing: moves to the states of pairs.         *)
LinkPairs(d, source, symbol, pairs, l) ==
  LET e == CreateAll(d, pairs, l)
  IN Link(e, source, symbol, {e.storage[p] : p \in pairs})

------------------------------------------------------------------------------
(* The synchronizing moves of two states: on equal symbols, or on DONT_CARE *)
(* and a symbol, never on an epsilon.                                       *)
Synchronized(l, r) ==
  {<<IF w[1][2] = DONT_CARE THEN w[2][2] ELSE w[1][2], <<w[1][3], w[2][3]>>>> : w \in
     {w \in {x \in job.lhs.delta : x[1] = l} \X {y \in job.rhs.delta : y[1] = r} :
        /\ EPSILON \notin {w[1][2], w[2][2]}
        /\ w[1][2] = w[2][2] \/ DONT_CARE \in {w[1][2], w[2][2]}}}

(* The level vanishes: the moves after it take the place of the synchronized*)
(* ones, those of lhs when lhs has levels left.                             *)
Vanished(pairs) ==
  LET s == IF num_of_levels_after_sync("lhs") > 0 THEN "lhs" ELSE "rhs"
  IN UNION {{<<m[2], PairOf(s, m[3], StateOf(p, Other(s)))>> :
               m \in {k \in nft[s].delta : k[1] = StateOf(p, s)}} : p \in pairs}

synchronize(d, source, l, r, reconnect, symbol) ==
  LET moves == IF ~ reconnect /\ job.project_out
               THEN Vanished({w[2] : w \in Synchronized(l, r)})
               ELSE {<<IF reconnect THEN symbol ELSE w[1], w[2]>> : w \in Synchronized(l, r)}
      e == CreateAll(d, {w[2] : w \in moves}, (level(d, source) + 1) % num_of_levels)
  IN [e EXCEPT !.delta = @ \cup {<<source, w[1], e.storage[w[2]]>> : w \in moves}]

------------------------------------------------------------------------------
(* A state of a waiting simulation, which is found by the running state     *)
(* alone.                                                                   *)
WaitAt(d, source, symbol, t, l) ==
  LET e == IF t \in DOMAIN d.waiting_storage THEN d
           ELSE [AddState(d, l) EXCEPT !.waiting_storage = @ @@ (t :> Len(d.levels))]
      s == e.waiting_storage[t]
  IN [Link(e, source, symbol, {s}) EXCEPT
        !.waiting_worklist = Append(@, <<s, t>>)]

can_synchronize_in_the_future(s, t, other, waits) ==
  \/ nft[s].levels[t] = 0
  \/ waits /\ exist_epsilon(sync_types[s][t])
  \/ ~ waits /\ ( \/ exist_synchronization(sync_types[Other(s)][other], sync_types[s][t])
                  \/ UNDEFINED \in {sync_types[Other(s)][other], sync_types[s][t]} )

handle_synchronization_in_place(s, other, waits) ==
  /\ job.project_out
  /\ num_of_levels_after_sync("lhs") = 0 /\ num_of_levels_after_sync("rhs") = 0
  /\ s = "rhs" \/ sync_level["rhs"] = 0
  /\ waits \/ nft[Other(s)].levels[other] = sync_level[Other(s)]

(* One move m of side s, while the other side stays where it is.            *)
CopyMove(d, source, s, m, other, waits) ==
  LET t == m[3]
      l == (level(d, source) + TransLen(nft[s], m)) % num_of_levels
      epsilons == {k[3] : k \in {k \in nft[s].delta : k[1] = t /\ k[2] = EPSILON}}
  IN IF IsFast(nft[s], m) \/ ~ can_synchronize_in_the_future(s, t, other, waits) THEN d
     ELSE IF handle_synchronization_in_place(s, other, waits)
             /\ nft[s].levels[t] = sync_level[s]
     THEN IF ~ waits
          THEN synchronize(d, source, StateOf(PairOf(s, t, other), "lhs"),
                           StateOf(PairOf(s, t, other), "rhs"), TRUE, m[2])
          ELSE IF epsilons = {} THEN [d EXCEPT !.failed = @ \cup {"no epsilon"}]
          ELSE LinkPairs(d, source, m[2], {PairOf(s, k, other) : k \in epsilons}, 0)
     ELSE IF waits /\ l # 0 THEN WaitAt(d, source, m[2], t, l)
     ELSE LinkPairs(d, source, m[2], {PairOf(s, t, other)}, l)

copy_transition(d, source, s, state, other, waits) ==
  FoldLeft(LAMBDA e, m : CopyMove(e, source, s, m, other, waits), d,
           InOrder({m \in nft[s].delta : m[1] = state}))

------------------------------------------------------------------------------
(* process_fast_epsilon_transitions: either side may take a fast epsilon    *)
(* alone, or both do, over one chain of epsilons.                           *)
FastTargets(s, q) == {q} \cup {m[3] : m \in {k \in nft[s].delta : k[1] = q /\ IsFast(nft[s], k)}}

(* Not the code: fast epsilons are taken by both sides at once only.        *)
FastPairs(d, source, p) ==
  LET pairs == ((FastTargets("lhs", p[1]) \ {p[1]}) \X (FastTargets("rhs", p[2]) \ {p[2]}))
  IN IF pairs = {} THEN d
     ELSE LinkPairs(create_epsilon_path(d, source, num_of_levels - 1),
                    end_of_path(d, source, num_of_levels - 1), EPSILON, pairs, 0)

process_fast_epsilon_transitions(d, source, p) ==
  LET pairs == (FastTargets("lhs", p[1]) \X FastTargets("rhs", p[2])) \ {p}
  IN IF pairs = {} THEN d
     ELSE LinkPairs(create_epsilon_path(d, source, num_of_levels - 1),
                    end_of_path(d, source, num_of_levels - 1), EPSILON, pairs, 0)

NothingBuilt ==
  [levels |-> << >>, delta |-> {}, initial |-> {}, final |-> {}, storage |-> << >>,
   worklist |-> << >>, waiting_storage |-> << >>, waiting_worklist |-> << >>,
   failed |-> {}]

CompositionInit ==
  /\ SyncInit
  /\ c = NothingBuilt /\ pair = <<0, 0>> /\ waiting = Nobody /\ result = "none"

Types == SyncNext /\ UNCHANGED <<c, pair, waiting, result>>

CreateRoots ==
  /\ at = "roots"
  /\ LET d == CreateAll(c, job.lhs.initial \X job.rhs.initial, 0)
     IN c' = [d EXCEPT !.initial = {d.storage[p] : p \in job.lhs.initial \X job.rhs.initial}]
  /\ at' = "pairs"
  /\ UNCHANGED <<job, typevars, pair, waiting, result>>

types(p) == [lhs |-> sync_types["lhs"][p[1]], rhs |-> sync_types["rhs"][p[2]]]
BothAtZero(p) == job.lhs.levels[p[1]] = 0 /\ job.rhs.levels[p[2]] = 0
waits_on(p, s) == exist_intersection(types(p)[Other(s)], ONLY_ON_EPSILON)

(* The next pair; at level 0 on both sides the waiting comes first.         *)
TakePair ==
  /\ at = "pairs" /\ c.worklist # << >>
  /\ pair' = Head(c.worklist)
  /\ LET d == [c EXCEPT !.worklist = Tail(@)]
     IN c' = IF BothAtZero(pair')
             THEN process_fast_epsilon_transitions(d, d.storage[pair'], pair') ELSE d
  /\ at' = IF BothAtZero(pair') THEN "wait on lhs" ELSE "move"
  /\ UNCHANGED <<job, typevars, waiting, result>>

------------------------------------------------------------------------------
(* model_waiting: one side stays in its state of level 0, the other runs a  *)
(* round in which it synchronizes on epsilons only.                         *)
run == waiting.running
idle == Other(run)
waiting_root == StateOf(pair, idle)

epsilons_for_sync(s) ==
  (IF s = "rhs" THEN 0 ELSE sync_level["rhs"])
  + (IF s = "rhs" \/ num_of_levels_after_sync(s) = 0
     THEN num_of_levels_after_sync(Other(s)) ELSE 0)
  + (IF job.project_out THEN 0 ELSE 1)

(* Where control goes after the waiting of one side.                        *)
AfterWaiting(s) ==
  IF s = "lhs" THEN "wait on rhs"
  ELSE IF exist_synchronization(types(pair)["lhs"], types(pair)["rhs"]) THEN "move" ELSE "pairs"

NoWaiting(s) ==
  /\ at = "wait on " \o s /\ ~ waits_on(pair, s)
  /\ at' = AfterWaiting(s)
  /\ UNCHANGED <<job, typevars, c, pair, waiting, result>>

(* The running transducer has one level: an automaton that is applied.      *)
WaitForAutomaton(s) ==
  /\ at = "wait on " \o s /\ waits_on(pair, s) /\ nft[Other(s)].num_of_levels = 1
  /\ LET source == c.storage[pair]
         targets == {m[3] : m \in {k \in nft[Other(s)].delta :
                                      k[1] = StateOf(pair, Other(s)) /\ k[2] = EPSILON}}
         d == IF epsilons_for_sync(Other(s)) > 0 THEN c
              ELSE [c EXCEPT !.failed = @ \cup {"no epsilon to add"}]
     IN c' = LinkPairs(create_epsilon_path(d, source, num_of_levels - 1),
                       end_of_path(d, source, num_of_levels - 1), EPSILON,
                       {PairOf(s, StateOf(pair, s), t) : t \in targets}, 0)
  /\ at' = AfterWaiting(s)
  /\ UNCHANGED <<job, typevars, pair, waiting, result>>

StartWaiting(s) ==
  /\ at = "wait on " \o s /\ waits_on(pair, s) /\ nft[Other(s)].num_of_levels # 1
  /\ LET source == c.storage[pair]
         before == IF s = "lhs" THEN sync_level["lhs"] ELSE 0
         first == end_of_path(c, source, before)
         root_ == StateOf(pair, Other(s))
     IN /\ c' = [create_epsilon_path(c, source, before) EXCEPT
                   !.waiting_storage = << >>, !.waiting_worklist = <<<<first, root_>>>>]
        /\ waiting' = [running |-> Other(s), root |-> root_, first |-> first]
  /\ at' = "wait"
  /\ UNCHANGED <<job, typevars, pair, result>>

state == Head(c.waiting_worklist)[1]
running_state == Head(c.waiting_worklist)[2]
running_level == nft[run].levels[running_state]
first_transition == running_state = waiting.root /\ state = waiting.first
at_sync_level ==
  running_level = sync_level[run] /\ (running_level # 0 \/ first_transition)
Waiting == at = "wait" /\ c.waiting_worklist # << >>
Popped(d) == [d EXCEPT !.waiting_worklist = Tail(@)]

(* The epsilon synchronization becomes a chain whose last epsilon branches. *)
WaitAtSync ==
  /\ Waiting /\ at_sync_level
  /\ LET n == epsilons_for_sync(run)
         length == IF n > 1 THEN n - 1 ELSE 0
         source == end_of_path(Popped(c), state, length)
         d == create_epsilon_path(Popped(c), state, length)
         targets == {m[3] : m \in {k \in Slow(run, running_state) : k[2] = EPSILON}}
     IN c' = IF {m \in nft[run].delta : m[1] = running_state /\ m[2] = EPSILON} = {}
             THEN [d EXCEPT !.failed = @ \cup {"no epsilon"}]
             ELSE IF running_level = nft[run].num_of_levels - 1
             THEN LinkPairs(d, source, EPSILON, {PairOf(idle, waiting_root, t) : t \in targets}, 0)
             ELSE IF n = 0
             THEN [d EXCEPT !.waiting_worklist =
                     @ \o Ascending({source} \X targets, LexLess)]
             ELSE FoldLeft(LAMBDA e, t : WaitAt(e, source, EPSILON, t, level(d, source) + 1),
                           d, Ascending(targets, LAMBDA x, y : x < y))
  /\ UNCHANGED <<job, at, typevars, pair, waiting, result>>

(* The end of the round of the running side; the tapes of the other follow. *)
WaitAtLeaf ==
  /\ Waiting /\ ~ at_sync_level /\ running_level = 0 /\ ~ first_transition
  /\ LET p == PairOf(run, running_state, waiting_root)
         d == create_composition_state(Popped(c), p, 0)
         length == num_of_levels - level(d, state) - 1
     IN c' = Link(create_epsilon_path(d, state, length), end_of_path(d, state, length), EPSILON,
                  {d.storage[p]})
  /\ UNCHANGED <<job, at, typevars, pair, waiting, result>>

WaitInside ==
  /\ Waiting /\ ~ at_sync_level /\ (running_level # 0 \/ first_transition)
  /\ c' = copy_transition(Popped(c), state, run, running_state, waiting_root, TRUE)
  /\ UNCHANGED <<job, at, typevars, pair, waiting, result>>

StopWaiting ==
  /\ at = "wait" /\ c.waiting_worklist = << >>
  /\ at' = AfterWaiting(idle) /\ waiting' = Nobody
  /\ UNCHANGED <<job, typevars, c, pair, result>>

------------------------------------------------------------------------------
(* One step of lhs, of rhs, or of both over the synchronization levels.     *)
lhs_level == job.lhs.levels[pair[1]]
rhs_level == job.rhs.levels[pair[2]]
do_step_in_lhs == lhs_level # sync_level["lhs"] /\ (lhs_level # 0 \/ rhs_level = 0)
do_step_in_rhs == rhs_level # sync_level["rhs"]

Move ==
  /\ at = "move"
  /\ c' = IF do_step_in_lhs
          THEN copy_transition(c, c.storage[pair], "lhs", pair[1], pair[2], FALSE)
          ELSE IF do_step_in_rhs
          THEN copy_transition(c, c.storage[pair], "rhs", pair[2], pair[1], FALSE)
          ELSE synchronize(c, c.storage[pair], pair[1], pair[2], FALSE, EPSILON)
  /\ at' = "pairs"
  /\ UNCHANGED <<job, typevars, pair, waiting, result>>

Built(d) ==
  [num_of_levels |-> num_of_levels, states |-> 0 .. Len(d.levels) - 1,
   levels |-> [s \in 0 .. Len(d.levels) - 1 |-> level(d, s)],
   initial |-> d.initial, final |-> d.final, delta |-> d.delta]

Finish ==
  /\ at = "pairs" /\ c.worklist = << >>
  /\ result' = IF job.project_out THEN Trimmed(Built(c)) ELSE Built(c)
  /\ at' = "done"
  /\ UNCHANGED <<job, typevars, c, pair, waiting>>

Next ==
  \/ Types \/ CreateRoots \/ TakePair
  \/ (\E s \in Sides : NoWaiting(s) \/ WaitForAutomaton(s) \/ StartWaiting(s))
  \/ WaitAtSync \/ WaitAtLeaf \/ WaitInside \/ StopWaiting
  \/ Move \/ Finish

Spec == CompositionInit /\ [][Next]_vars /\ WF_vars(Next)

------------------------------------------------------------------------------
Joined(l, r) ==
  LET i == job.lhs_sync  j == job.rhs_sync
  IN SubSeq(l, 1, i) \o SubSeq(r, 1, j)
     \o (IF job.project_out THEN << >> ELSE <<l[i + 1]>>)
     \o SubSeq(l, i + 2, Len(l)) \o SubSeq(r, j + 2, Len(r))

Composed(L, R) ==
  {Joined(w[1], w[2]) : w \in {w \in L \X R : w[1][job.lhs_sync + 1] = w[2][job.rhs_sync + 1]}}

(* The result is the composition of the relations: what it relates within   *)
(* some rounds is related by the two over a common word on the              *)
(* synchronized tape, and what they relate is related by the result, as no  *)
(* more than all their rounds are ever needed.                              *)
ComposesRelations ==
  at = "done" =>
    LET within == 0 .. job.rounds
        Of(A) == [n \in within |-> Relation(A, "NoJump", n)]
        lhs == Of(job.lhs)
        rhs == Of(job.rhs)
        all == Relation(result, "NoJump", job.rounds)
    IN /\ all \subseteq Composed(lhs[job.rounds], rhs[job.rounds])
       /\ \A i \in within : Composed(lhs[i], rhs[job.rounds - i]) \subseteq all

(* A pair of states is always met on the same level of the result, although *)
(* it is stored without a level and both the main loop and the waiting      *)
(* simulations come to it; and a state of a trimmed transducer that a       *)
(* waiting simulation follows because of its type has the epsilon the type  *)
(* promises.                                                                *)
PairsKeepTheirLevel == c.failed \cap {"level", "no epsilon"} = {}

(* What is built on the way is sound, and the whole is the composition.     *)
CompositionIsRight == PairsKeepTheirLevel /\ ComposesRelations

(* Every composition ends.                                                  *)
CompositionEnds == <>(at = "done")
==============================================================================
