------------------------------ MODULE NumberSet ------------------------------
(***************************************************************************)
(* What utils::SparseSet promises to its users (class comment of           *)
(* include/mata/utils/sparse-set.hh): a set of non-negative numbers with   *)
(* the usual set operations.  The vectors, their lengths and the order of  *)
(* the elements are not part of the promise.  A bulk operation is a call   *)
(* and a return, and takes effect at once when it returns.  SparseSet      *)
(* implements this specification under the mapping stated there.           *)
(***************************************************************************)
EXTENDS Integers

CONSTANT Bound      \* one more than the largest number ever stored

VARIABLES
  set,              \* the numbers in the set
  op,               \* the bulk operation being executed, or "none"
  limit,            \* the argument of complement
  keep,             \* the argument of filter
  ren               \* the argument of rename

args == <<limit, keep, ren>>
vars == <<set, op, limit, keep, ren>>

Number == 0 .. Bound - 1
NoRenaming == [v \in {} |-> v]

(***************************************************************************)
(* A renaming may be applied only to a set on which it is injective: the   *)
(* callers (Nfa::trim) rename the surviving states one to one.             *)
(***************************************************************************)
OneToOneOn(f, S) == \A u, v \in S : f[u] = f[v] => u = v

Init == set = {} /\ op = "none" /\ limit = 0 /\ keep = {} /\ ren = NoRenaming

Idle == op = "none" /\ UNCHANGED <<op, args>>

Insert(v) == Idle /\ set' = set \cup {v}
Erase(v) == Idle /\ set' = set \ {v}
Clear == Idle /\ set' = {}

Begin(name) == op = "none" /\ op' = name /\ UNCHANGED set

Complement(n) == Begin("complement") /\ limit' = n /\ UNCHANGED <<keep, ren>>
Filter(K) == Begin("filter") /\ keep' = K /\ UNCHANGED <<limit, ren>>
Rename(f) == OneToOneOn(f, set) /\ Begin("rename") /\ ren' = f
             /\ UNCHANGED <<limit, keep>>

Return ==
  /\ \/ op = "complement" /\ set' = (0 .. limit - 1) \ set
     \/ op = "filter" /\ set' = set \cap keep
     \/ op = "rename" /\ set' = {ren[v] : v \in set}
  /\ op' = "none" /\ limit' = 0 /\ keep' = {} /\ ren' = NoRenaming

Next ==
  \/ \E v \in Number : Insert(v) \/ Erase(v)
  \/ Clear
  \/ \E n \in 0 .. Bound : Complement(n)
  \/ \E K \in SUBSET Number : Filter(K)
  \/ \E f \in [Number -> Number] : Rename(f)
  \/ Return

Spec == Init /\ [][Next]_vars

TypeOK == set \subseteq Number

==============================================================================
