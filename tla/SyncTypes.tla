------------------------------- MODULE SyncTypes -------------------------------
(***************************************************************************)
(* SynchronizationProperties of src/nft/composition.cc: for each state of  *)
(* the two transducers of a composition, whether a synchronization on a    *)
(* symbol, on an epsilon, or on both lies ahead.  The computation walks    *)
(* over the levels with a stack of its own; one step is one pop.           *)
(***************************************************************************)
EXTENDS Transducers, SequencesExt

CONSTANT Jobs   \* records [lhs, rhs, lhs_sync, rhs_sync, project_out]

VARIABLES
  job, at,
  side,         \* the transducer looked at
  root, stack,
  sync_types    \* side |-> state |-> type

typevars == <<side, root, stack, sync_types>>

Sides == {"lhs", "rhs"}
Other(s) == IF s = "lhs" THEN "rhs" ELSE "lhs"
nft == [lhs |-> job.lhs, rhs |-> job.rhs]
sync_level == [lhs |-> job.lhs_sync, rhs |-> job.rhs_sync]
num_of_levels_after_sync(s) == nft[s].num_of_levels - sync_level[s] - 1

(* A type is a set of bits.                                                 *)
UNDEFINED == {}
ONLY_ON_SYMBOL == {"symbol"}
ONLY_ON_EPSILON == {"epsilon"}
UNDER_COMPUTATION == {"computing"}

exist_intersection(l, r) == l \cap r # {}
exist_synchronization(l, r) == l # ONLY_ON_EPSILON /\ r # ONLY_ON_EPSILON
exist_epsilon(t) == t # ONLY_ON_SYMBOL

(* A fast epsilon goes from level 0 to level 0 and passes all tapes.        *)
IsFast(T, m) == m[2] = EPSILON /\ T.num_of_levels # 1 /\ T.levels[m[3]] = 0
                /\ T.levels[m[1]] = 0

SyncInit ==
  /\ job \in Jobs
  /\ at = "types" /\ side = "lhs" /\ root = 0 /\ stack = << >>
  /\ sync_types = [s \in Sides |-> [q \in nft[s].states |-> UNDEFINED]]

popped == stack[Len(stack)]
rest == SubSeq(stack, 1, Len(stack) - 1)
type == sync_types[side][popped]
T == nft[side]
Slow(s, q) == {m \in nft[s].delta : m[1] = q /\ ~ IsFast(nft[s], m)}
InOrder(S) == Ascending(S, StoredBefore)

NextRoot ==
  /\ at = "types" /\ stack = << >>
  /\ IF root \in T.states
     THEN /\ stack' = IF T.levels[root] = 0 THEN <<root>> ELSE << >>
          /\ root' = root + 1 /\ UNCHANGED <<side, at>>
     ELSE /\ root' = 0 /\ stack' = << >> /\ side' = "rhs"
          /\ at' = IF side = "lhs" THEN "types" ELSE "roots"
  /\ UNCHANGED <<job, sync_types>>

(* Not the code: a duplicate is left on the stack.                          *)
KeepComputed ==
  /\ at = "types" /\ stack # << >> /\ type \notin {UNDEFINED, UNDER_COMPUTATION}
  /\ stack' = stack
  /\ UNCHANGED <<job, at, side, root, sync_types>>

(* A duplicate on the stack, of a state whose type is known.                *)
SkipComputed ==
  /\ at = "types" /\ stack # << >> /\ type \notin {UNDEFINED, UNDER_COMPUTATION}
  /\ stack' = rest
  /\ UNCHANGED <<job, at, side, root, sync_types>>

(* Not the code: only the last of the children counts.                      *)
LastChild ==
  /\ at = "types" /\ stack # << >> /\ type = UNDER_COMPUTATION
  /\ sync_types' = [sync_types EXCEPT ![side][popped] =
       IF Slow(side, popped) = {} THEN {}
       ELSE sync_types[side][InOrder(Slow(side, popped))[Cardinality(Slow(side, popped))][3]]]
  /\ stack' = rest
  /\ UNCHANGED <<job, at, side, root>>

CombineChildren ==
  /\ at = "types" /\ stack # << >> /\ type = UNDER_COMPUTATION
  /\ sync_types' = [sync_types EXCEPT ![side][popped] =
       UNION {sync_types[side][m[3]] : m \in Slow(side, popped)}]
  /\ stack' = rest
  /\ UNCHANGED <<job, at, side, root>>

TypeAtSync(q) ==
  {"epsilon" : m \in {k \in Slow(side, q) : k[2] = EPSILON}}
  \cup {"symbol" : m \in {k \in T.delta : k[1] = q /\ k[2] # EPSILON}}

AtSyncLevel ==
  /\ at = "types" /\ stack # << >> /\ type = UNDEFINED
  /\ T.levels[popped] = sync_level[side]
  /\ sync_types' = [sync_types EXCEPT ![side][popped] = TypeAtSync(popped)]
  /\ stack' = rest
  /\ UNCHANGED <<job, at, side, root>>

Unseen == InOrder({m \in Slow(side, popped) : sync_types[side][m[3]] = UNDEFINED})

(* Children without a type are pushed; so is the state, below them.         *)
VisitChildren ==
  /\ at = "types" /\ stack # << >> /\ type = UNDEFINED
  /\ T.levels[popped] # sync_level[side]
  /\ sync_types' = [sync_types EXCEPT ![side][popped] = UNDER_COMPUTATION]
  /\ stack' = Append(rest, popped) \o [n \in DOMAIN Unseen |-> Unseen[n][3]]
  /\ UNCHANGED <<job, at, side, root>>

SyncNext == NextRoot \/ SkipComputed \/ CombineChildren \/ AtSyncLevel \/ VisitChildren

(* The states that lie ahead in the same round, the state itself included.  *)
Ahead(A, q) ==
  ReachableIn({m \in A.delta : A.levels[m[3]] # 0}, {q}, A.num_of_levels)

TypeByDefinition(s, q) ==
  LET at_sync == {k \in Ahead(nft[s], q) : nft[s].levels[k] = sync_level[s]}
      moves == {m \in nft[s].delta : m[1] \in at_sync /\ ~ IsFast(nft[s], m)}
  IN {IF m[2] = EPSILON THEN "epsilon" ELSE "symbol" : m \in moves}

(* When the walk is over, the type of every state that can be met from     *)
(* level 0 says which synchronizations lie ahead of it in its round, and   *)
(* nothing is left under computation, although states are pushed several   *)
(* times and popped when their type is already known.                      *)
SyncTypesExact ==
  at # "types" =>
    \A s \in Sides : \A q \in nft[s].states :
      (\E z \in nft[s].states : nft[s].levels[z] = 0 /\ q \in Ahead(nft[s], z))
        => sync_types[s][q] = TypeByDefinition(s, q)
==============================================================================
