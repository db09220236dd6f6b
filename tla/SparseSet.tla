------------------------------ MODULE SparseSet ------------------------------
(***************************************************************************)
(* utils::SparseSet (include/mata/utils/sparse-set.hh), the container      *)
(* behind Nfa::initial and Nfa::final: the elements are the first `size`   *)
(* entries of the vector dense, and sparse maps a number to its place in   *)
(* dense.  Entries of dense from `size` on, and entries of sparse of       *)
(* numbers outside the set, are left-overs of earlier calls that the code  *)
(* never clears; they stay in the model, because contains() reads them.    *)
(*                                                                         *)
(* Every public mutator is an action.  complement(), filter() and rename() *)
(* are loops over a structure that they change while they walk it; each    *)
(* iteration is a step, so the loop invariants can be stated and proved.   *)
(***************************************************************************)
EXTENDS Integers

CONSTANT Bound      \* one more than the largest number ever stored

ASSUME BoundAssumption == Bound \in Nat

VARIABLES
  dense,            \* dense_, a function on 0 .. len - 1
  sparse,           \* sparse_, a function on 0 .. len - 1
  len,              \* dense_.size(), always equal to sparse_.size()
  size,             \* size_
  domain_size,      \* domain_size_
  op,               \* the loop being executed, or "none" between calls
  i,                \* the index of that loop
  limit,            \* new_domain_size of complement()
  old_domain_size,  \* the local of that name in complement()
  keep,             \* the numbers is_staying accepts in filter()
  ren,              \* the renaming given to rename()
  pre               \* history: the elements when the loop started, in order

data == <<dense, sparse, len, size, domain_size>>
loop == <<op, i, limit, old_domain_size, keep, ren, pre>>
vars == <<dense, sparse, len, size, domain_size,
          op, i, limit, old_domain_size, keep, ren, pre>>

Number == 0 .. Bound - 1
NoRenaming == [v \in {} |-> v]

Elements == {dense[j] : j \in 0 .. size - 1}
Before == {pre[j] : j \in DOMAIN pre}

------------------------------------------------------------------------------
(* Reading the structure.                                                   *)

contains(v) == /\ v < domain_size
               /\ sparse[v] < size
               /\ dense[sparse[v]] = v

(* std::vector::resize(u, 0), which also shrinks a vector longer than u.    *)
Resize(vec, u) == [j \in 0 .. u - 1 |-> IF j < len THEN vec[j] ELSE 0]

(* Not the code: truncate() down to max(), which is one too small.          *)
IsTooTight(n) == /\ \A v \in Elements : v <= n
                 /\ n = 0 \/ n \in Elements

(* max() + 1, or 0 for an empty set: what truncate() makes of domain_size.  *)
IsTight(n) == /\ \A v \in Elements : v < n
              /\ n = 0 \/ (n - 1) \in Elements

------------------------------------------------------------------------------
(* The mutators that are single steps.                                      *)

Reserve(u) ==
  IF u > domain_size
    THEN /\ dense' = Resize(dense, u)
         /\ sparse' = Resize(sparse, u)
         /\ len' = u
         /\ domain_size' = u
    ELSE UNCHANGED <<dense, sparse, len, domain_size>>

DoInsert(v) ==
  IF contains(v)
    THEN UNCHANGED data
    ELSE LET grow == v >= domain_size
             d == IF grow THEN Resize(dense, v + 1) ELSE dense
             s == IF grow THEN Resize(sparse, v + 1) ELSE sparse
         IN /\ dense' = [d EXCEPT ![size] = v]
            /\ sparse' = [s EXCEPT ![v] = size]
            /\ len' = IF grow THEN v + 1 ELSE len
            /\ domain_size' = IF grow THEN v + 1 ELSE domain_size
            /\ size' = size + 1

(* Not the code: the moved element keeps its old place in sparse.           *)
EraseWithoutRelink(v) ==
  /\ dense' = [dense EXCEPT ![sparse[v]] = dense[size - 1]]
  /\ size' = size - 1
  /\ UNCHANGED <<sparse, len, domain_size>>

EraseNoCheck(v) ==
  /\ dense' = [dense EXCEPT ![sparse[v]] = dense[size - 1]]
  /\ sparse' = [sparse EXCEPT ![dense[size - 1]] = sparse[v]]
  /\ size' = size - 1
  /\ UNCHANGED <<len, domain_size>>

DoErase(v) == IF contains(v) THEN EraseNoCheck(v) ELSE UNCHANGED data

Idle == op = "none"

insert(v) == Idle /\ DoInsert(v) /\ UNCHANGED loop
erase(v) == Idle /\ DoErase(v) /\ UNCHANGED loop
reserve(u) == Idle /\ Reserve(u) /\ UNCHANGED size /\ UNCHANGED loop

clear == /\ Idle
         /\ size' = 0
         /\ UNCHANGED <<dense, sparse, len, domain_size>>
         /\ UNCHANGED loop

truncate ==
  /\ Idle
  /\ \E n \in 0 .. Bound : IsTight(n) /\ domain_size' = n
  /\ UNCHANGED <<dense, sparse, len, size>>
  /\ UNCHANGED loop

(* A set that was moved from: the vectors are gone, sizes are reset.        *)
moved_from ==
  /\ Idle
  /\ dense' = [j \in {} |-> 0] /\ sparse' = [j \in {} |-> 0] /\ len' = 0
  /\ size' = 0 /\ domain_size' = 0
  /\ UNCHANGED loop

(* std::sort orders the prefix, then sparse is rebuilt for the elements.    *)
sort ==
  /\ Idle
  /\ \E d \in [0 .. len - 1 -> Number] :
       /\ \A j, k \in 0 .. size - 1 : j < k => d[j] < d[k]
       /\ {d[j] : j \in 0 .. size - 1} = Elements
       /\ \A j \in size .. len - 1 : d[j] = dense[j]
       /\ dense' = d
       /\ sparse' = [v \in 0 .. len - 1 |->
                       IF v \in Elements
                         THEN CHOOSE j \in 0 .. size - 1 : d[j] = v
                         ELSE sparse[v]]
  /\ UNCHANGED <<len, size, domain_size>>
  /\ UNCHANGED loop

------------------------------------------------------------------------------
(* The mutators that are loops.                                             *)

Enter(name) ==
  /\ Idle
  /\ op' = name
  /\ i' = 0
  /\ pre' = [j \in 0 .. size - 1 |-> dense[j]]
  /\ UNCHANGED data

Leave(name) ==
  /\ op = name
  /\ op' = "none" /\ i' = 0 /\ limit' = 0 /\ old_domain_size' = 0
  /\ keep' = {} /\ ren' = NoRenaming /\ pre' = NoRenaming
  /\ UNCHANGED data

(* complement(n): toggle every number below n, then drop those from n on.   *)
complement(n) ==
  /\ Enter("complement")
  /\ limit' = n
  /\ old_domain_size' = domain_size
  /\ UNCHANGED <<keep, ren>>

ComplementToggle ==
  /\ op = "complement" /\ i < limit
  /\ IF contains(i) THEN EraseNoCheck(i) ELSE DoInsert(i)
  /\ i' = i + 1
  /\ UNCHANGED <<op, limit, old_domain_size, keep, ren, pre>>

(* Not the code: numbers from the new domain size on are left in the set.   *)
ComplementKeepsRest ==
  /\ op = "complement" /\ i >= limit /\ i < old_domain_size
  /\ i' = i + 1
  /\ UNCHANGED data
  /\ UNCHANGED <<op, limit, old_domain_size, keep, ren, pre>>

ComplementDrop ==
  /\ op = "complement" /\ i >= limit /\ i < old_domain_size
  /\ DoErase(i)
  /\ i' = i + 1
  /\ UNCHANGED <<op, limit, old_domain_size, keep, ren, pre>>

ComplementReturn == i >= limit /\ i >= old_domain_size /\ Leave("complement")

(* filter(is_staying): the last element moves into the hole an erased one   *)
(* leaves, so the index advances only past an element that stays.           *)
filter(K) ==
  /\ Enter("filter")
  /\ keep' = K
  /\ UNCHANGED <<limit, old_domain_size, ren>>

(* Not the code: a loop that advances past the hole it has just filled.     *)
FilterSkip ==
  /\ op = "filter" /\ i < size /\ dense[i] \notin keep
  /\ DoErase(dense[i])
  /\ i' = i + 1
  /\ UNCHANGED <<op, limit, old_domain_size, keep, ren, pre>>

(* Not the code: a loop whose test is the wrong way round never gets on.    *)
FilterStuck ==
  /\ op = "filter" /\ i < size /\ dense[i] \notin keep
  /\ UNCHANGED vars

FilterErase ==
  /\ op = "filter" /\ i < size /\ dense[i] \notin keep
  /\ DoErase(dense[i])
  /\ UNCHANGED loop

FilterAdvance ==
  /\ op = "filter" /\ i < size /\ dense[i] \in keep
  /\ i' = i + 1
  /\ UNCHANGED data
  /\ UNCHANGED <<op, limit, old_domain_size, keep, ren, pre>>

FilterReturn == i >= size /\ Leave("filter")

(* rename(f): in place, so until the loop ends dense may hold a new name    *)
(* that is equal to an old one that was not renamed yet.                    *)
rename(f) ==
  /\ \A u, v \in Elements : f[u] = f[v] => u = v
  /\ Enter("rename")
  /\ ren' = f
  /\ UNCHANGED <<limit, old_domain_size, keep>>

RenameStep ==
  /\ op = "rename" /\ i < size
  /\ LET new == ren[dense[i]]
         grow == new >= domain_size
         d == [dense EXCEPT ![i] = new]
     IN IF dense[i] = new
          THEN UNCHANGED data
          ELSE /\ dense' = IF grow THEN Resize(d, new + 1) ELSE d
               /\ sparse' = [(IF grow THEN Resize(sparse, new + 1) ELSE sparse)
                               EXCEPT ![new] = i]
               /\ len' = IF grow THEN new + 1 ELSE len
               /\ domain_size' = IF grow THEN new + 1 ELSE domain_size
               /\ UNCHANGED size
  /\ i' = i + 1
  /\ UNCHANGED <<op, limit, old_domain_size, keep, ren, pre>>

RenameReturn == i >= size /\ Leave("rename")

------------------------------------------------------------------------------
(* SparseSet() and SparseSet(domain_size).                                  *)
Init ==
  /\ \E n \in 0 .. Bound :
       /\ len = n /\ domain_size = n
       /\ dense = [j \in 0 .. n - 1 |-> 0]
       /\ sparse = [j \in 0 .. n - 1 |-> 0]
  /\ size = 0
  /\ op = "none" /\ i = 0 /\ limit = 0 /\ old_domain_size = 0
  /\ keep = {} /\ ren = NoRenaming /\ pre = NoRenaming

Call ==
  \/ \E v \in Number : insert(v) \/ erase(v)
  \/ \E u \in 0 .. Bound : reserve(u)
  \/ clear
  \/ truncate
  \/ moved_from
  \/ sort
  \/ \E n \in 0 .. Bound : complement(n)
  \/ \E K \in SUBSET Number : filter(K)
  \/ \E f \in [Number -> Number] : rename(f)

LoopStep ==
  \/ ComplementToggle \/ ComplementDrop \/ ComplementReturn
  \/ FilterErase \/ FilterAdvance \/ FilterReturn
  \/ RenameStep \/ RenameReturn

Next == Call \/ LoopStep

(* The loops run on one thread and nothing interrupts them; calls may stop. *)
Spec == Init /\ [][Next]_vars /\ WF_vars(LoopStep)

------------------------------------------------------------------------------
(* Properties.                                                              *)

(* Type invariant.                                                          *)
DataOK ==
  /\ len \in 0 .. Bound
  /\ dense \in [0 .. len - 1 -> Number]
  /\ sparse \in [0 .. len - 1 -> Number]
  /\ domain_size \in 0 .. len
  /\ size \in 0 .. domain_size

LoopOK ==
  /\ op \in {"none", "complement", "filter", "rename"}
  /\ i \in 0 .. Bound
  /\ limit \in 0 .. Bound
  /\ old_domain_size \in 0 .. Bound
  /\ keep \subseteq Number
  /\ ren \in [Number -> Number] \cup {NoRenaming}
  /\ Before \subseteq Number

TypeOK == DataOK /\ LoopOK

(* The assertion consistent() of the code: whatever the calls before, no    *)
(* element reaches the domain size and both vectors are long enough for it. *)
Consistent ==
  /\ domain_size >= size
  /\ \A v \in Elements : v < domain_size
  /\ len >= domain_size

(* The first size entries of dense and their places in sparse agree.        *)
Linked == \A j \in 0 .. size - 1 : /\ dense[j] < domain_size
                                   /\ sparse[dense[j]] = j

(* contains() answers for the elements and for nothing else, although it    *)
(* reads left-overs of earlier calls, and no number is stored twice.        *)
MembershipExact ==
  Idle => /\ \A v \in Number : contains(v) <=> v \in Elements
          /\ \A j, k \in 0 .. size - 1 : dense[j] = dense[k] => j = k

(* What is true of a renaming between two iterations: the first i elements  *)
(* have new names that sparse finds, the others their old names, and an old *)
(* name that will stay is still found although new names overwrote others.  *)
RenameLoop ==
  /\ ren \in [Number -> Number]
  /\ pre \in [0 .. size - 1 -> Number]
  /\ i <= size
  /\ \A j, k \in 0 .. size - 1 : ren[pre[j]] = ren[pre[k]] => j = k
  /\ \A j \in 0 .. size - 1 : dense[j] < domain_size
  /\ \A j \in 0 .. i - 1 : dense[j] = ren[pre[j]] /\ sparse[dense[j]] = j
  /\ \A j \in i .. size - 1 : /\ dense[j] = pre[j]
                              /\ ren[pre[j]] = pre[j] => sparse[pre[j]] = j

(* What is true of a complement between two iterations: below i membership  *)
(* is settled, from i on it is what it was before.                          *)
ComplementLoop ==
  /\ \A v \in Before : v < old_domain_size
  /\ \A v \in Number :
       v \in Elements <=> IF v < i THEN v < limit /\ v \notin Before
                                  ELSE v \in Before

(* What is true of a filter between two iterations: the elements before the *)
(* index stay, and none that stays has been lost.                           *)
FilterLoop ==
  /\ i <= size
  /\ \A j \in 0 .. i - 1 : dense[j] \in keep
  /\ Elements \subseteq Before
  /\ Before \cap keep \subseteq Elements

(* Inductive invariant: what each loop keeps true of the half-done work.    *)
LoopInv ==
  /\ op # "rename" => Linked
  /\ op = "rename" => RenameLoop
  /\ op = "complement" => ComplementLoop
  /\ op = "filter" => FilterLoop

(* Refinement: every mutator, whatever it leaves in the vectors, does to    *)
(* the set what its name says; a loop takes effect when it returns.         *)
Abs == INSTANCE NumberSet WITH set <- IF op = "none" THEN Elements ELSE Before
ImplementsSet == Abs!Spec

(* Liveness: each of the three loops, which change what they walk, ends.    *)
LoopsEnd == (op # "none") ~> (op = "none")

==============================================================================
