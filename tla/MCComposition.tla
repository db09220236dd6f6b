------------------------------ MODULE MCComposition ------------------------------
(***************************************************************************)
(* Compositions of small transducers of one, two and three levels, over    *)
(* every pair of synchronization levels, with and without projection.      *)
(***************************************************************************)
EXTENDS FastComposition

MCLetters == {0, 1}

OfLevels(s) == [q \in 0 .. Len(s) - 1 |-> s[q + 1]]
Shape(n, levels, final, delta) ==
  [num_of_levels |-> n, states |-> DOMAIN levels, levels |-> levels,
   initial |-> {0}, final |-> {final}, delta |-> delta]
Trim(n, levels, final, deltas) ==
  {A \in {Shape(n, levels, final, d) : d \in deltas} : Trimmed(A) = A}

One ==
  Trim(1, OfLevels(<<0, 0>>), 1,
       UNION {kSubset(k, {<<0, 0, 1>>, <<0, DONT_CARE, 1>>, <<0, EPSILON, 1>>, <<1, 1, 1>>,
                          <<0, EPSILON, 0>>}) : k \in 1 .. 2})

(* Two levels: states of level 0 first and last, others between.            *)
FastMove == <<0, EPSILON, 3>>
Two(k, first, between, second) ==
  Trim(2, OfLevels(<<0, 1, 1, 0>>), 3,
       kSubset(k, ({0} \X first \X between) \cup (between \X second \X {0, 3}) \cup {FastMove}))

(* The symbols of the synchronized tape, and those of the others.           *)
Mixed == {0, 1, DONT_CARE, EPSILON}
Few == {0, EPSILON}
Plain == <<Two(2, Mixed, {1}, Few), Two(2, Few, {1}, Mixed)>>
Silent(sync) == {A \in Plain[sync + 1] : \E m \in A.delta : m[2] = EPSILON}

(* A fast epsilon beside; two moves to the same state, one of them an       *)
(* epsilon; two branches, of which only one comes to an epsilon.            *)
Fast == {A \in Two(3, Few, {1}, Few) : FastMove \in A.delta}
Doubled == {A \in Two(3, Few, {1}, Mixed) : {<<0, 0, 1>>, <<0, EPSILON, 1>>} \subseteq A.delta}
Branching ==
  {A \in Two(4, Few, {1, 2}, Few) :
     {m[1] : m \in A.delta} = {0, 1, 2} /\ {m[3] : m \in A.delta} = {1, 2, 3}
     /\ {m[2] : m \in A.delta} = {0, EPSILON}}

(* Three levels: a fork, with epsilons on the synchronized tape, that joins *)
(* again or does not.                                                       *)
Three(sync, thirds) ==
  LET On(tape) == IF tape = sync THEN Few ELSE {tape % 2}
      pool == ({0} \X On(0) \X {1, 2}) \cup ({1, 2} \X On(1) \X thirds) \cup (thirds \X On(2) \X {5})
  IN Trim(3, OfLevels(<<0, 1, 1, 2, 2, 0>>), 5, kSubset(3, pool) \cup kSubset(4, pool))
Fork == <<Three(0, {3}), Three(1, {3}), Three(2, {3})>>
Forks == <<Three(0, {3, 4}), Three(1, {3, 4}), Three(2, {3, 4})>>

Composed2(As, i, Bs, j) ==
  {[lhs |-> A, rhs |-> B, lhs_sync |-> i, rhs_sync |-> j, project_out |-> p, rounds |-> 2] :
     A \in As, B \in Bs, p \in BOOLEAN}

(* Transducers of n levels for the synchronization on one of them.          *)
OnLevel == <<<<One>>, <<Plain[1] \cup Fast, Plain[2] \cup Fast \cup Doubled>>, Fork>>
EveryPairOfLevels ==
  UNION {Composed2(OnLevel[w[1]][w[2]], w[2] - 1, OnLevel[w[3]][w[4]], w[4] - 1) :
           w \in {v \in (1 .. 3) \X (1 .. 3) \X (1 .. 3) \X (1 .. 3) :
                    v[2] <= v[1] /\ v[4] <= v[3]}}

(* Branches on either side, and nothing behind the synchronization.         *)
Branches ==
  Composed2(Branching, 1, Plain[1] \cup Fast, 0) \cup Composed2(Silent(0), 0, Branching, 1)
  \cup Composed2(Branching, 1, Branching, 1)
  \cup Composed2(One, 0, Branching, 1) \cup Composed2(Branching, 1, One, 0)
  \cup UNION {Composed2(Forks[i + 1], i, Silent(j), j) \cup Composed2(Silent(j), j, Forks[i + 1], i) :
                i \in 0 .. 2, j \in 0 .. 1}

(* The code asserts that the result has a level left.                       *)
MCJobs ==
  {j \in EveryPairOfLevels \cup Branches :
     j.lhs.num_of_levels + j.rhs.num_of_levels > 2 \/ ~ j.project_out}

==============================================================================
