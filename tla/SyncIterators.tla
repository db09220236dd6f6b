----------------------------- MODULE SyncIterators -----------------------------
(***************************************************************************)
(* SynchronizedUniversalIterator and SynchronizedExistentialIterator       *)
(* (include/mata/utils/synchronized-iterator.hh): several ordered vectors  *)
(* are walked together, the universal iterator stopping at the values all  *)
(* of them hold, the existential one at the values any of them holds.      *)
(* The caller pushes all vectors, calls advance until it returns false,    *)
(* and may call it again.                                                  *)
(*                                                                         *)
(* A step is one test or one increment.  An iterator into a vector is its  *)
(* index, Len + 1 the end.  The universal iterator compares two iterators  *)
(* of different vectors with >; what that yields depends on where the      *)
(* vectors lie in memory.                                                  *)
(***************************************************************************)
EXTENDS Integers, Sequences, FiniteSets, SequencesExt

CONSTANTS
  Inputs,         \* records [kind, vectors, memory, sought]
  SpareCalls      \* how often advance is called again after it returned false

Ascends(v) == \A m, n \in 1 .. Len(v) : m < n => v[m] < v[n]

(* The vectors are ordered, the values are asked for in order.  With more   *)
(* than two positions the universal iterator depends on where the vectors   *)
(* lie (the library gives it two).                                          *)
ASSUME InputsAssumption ==
  \A in \in Inputs :
    /\ in.kind \in {"universal", "existential", "synchronize_with"}
    /\ in.vectors \in Seq(Seq(Nat))
    /\ \A k \in 1 .. Len(in.vectors) : Ascends(in.vectors[k])
    /\ in.kind = "universal" => Len(in.vectors) <= 2 \/ in.memory = "above"
    /\ in.sought \in Seq(Nat)
    /\ \A m, n \in 1 .. Len(in.sought) : m <= n => in.sought[m] <= in.sought[n]

VARIABLES
  input,          \* kind: "universal", "existential", "synchronize_with";
                  \* vectors: the vectors in the order in which they are pushed;
                  \* memory: "above", "below", "same": the first against the second;
                  \* sought: the values given to synchronize_with, ascending
  pushed,         \* how many of them push_back was called for
  vectors,        \* those still in positions and ends
  position,       \* an index into each of them
  synchronized,   \* synchronized_at_current_minimum
  next_minimum, current_minimum,   \* the values the iterators point to
  currently_synchronized,          \* what the existential iterator returns:
                                   \* the vectors that hold the value
  i,
  at,             \* where in advance; "idle" between calls
  result,         \* what the last call returned
  found,          \* history: where the calls that returned true stopped
  spare, sought,
  answers         \* what synchronize_with returned

vars == <<input, pushed, vectors, position, synchronized, next_minimum, current_minimum,
          currently_synchronized, i, at, result, found, spare, sought,
          answers>>

kind == input.kind
Ended(k) == position[k] > Len(vectors[k])
Value(k) == vectors[k][position[k]]
ValueAfter(k) == vectors[k][position[k] + 1]

None == -1

Init ==
  /\ input \in Inputs
  /\ pushed = 0 /\ vectors = << >> /\ position = << >>
  /\ synchronized = FALSE
  /\ next_minimum = None /\ current_minimum = None /\ currently_synchronized = << >>
  /\ i = 0 /\ at = "idle" /\ result = TRUE /\ found = << >> /\ spare = 0
  /\ sought = input.sought /\ answers = << >>

AsBefore == UNCHANGED <<input, pushed, sought, answers>>

Return(value) == at' = "idle" /\ result' = value

------------------------------------------------------------------------------
(* The calls of the client.                                                 *)

AllPushed == pushed = Len(input.vectors)

(* push_back: the existential iterator leaves out a vector that is empty    *)
(* and keeps the least of the first values.                                 *)
Push ==
  /\ ~AllPushed
  /\ pushed' = pushed + 1
  /\ LET v == input.vectors[pushed + 1]
     IN IF kind # "universal" /\ v = << >>
          THEN UNCHANGED <<vectors, position, next_minimum>>
          ELSE /\ vectors' = Append(vectors, v) /\ position' = Append(position, 1)
               /\ next_minimum' = IF /\ kind # "universal"
                                     /\ vectors = << >> \/ next_minimum > Head(v)
                                   THEN Head(v) ELSE next_minimum
  /\ UNCHANGED <<input, synchronized, current_minimum, currently_synchronized, i,
                 at, result, found, spare, sought, answers>>

(* Not the code: an iterator that stands on the value is advanced.          *)
BehindOrThere ==
  /\ sought # << >> /\ result
  /\ currently_synchronized = << >> \/ current_minimum <= Head(sought)

(* synchronize_with advances while the iterator stands before the value.    *)
Behind == /\ sought # << >> /\ result
          /\ currently_synchronized = << >> \/ current_minimum < Head(sought)

MayCall ==
  /\ at = "idle" /\ AllPushed
  /\ IF kind = "synchronize_with" THEN Behind /\ spare' = spare
     ELSE /\ result \/ spare < SpareCalls
          /\ spare' = IF result THEN spare ELSE spare + 1

(* synchronize_with is done with one value: reached, passed or not there.   *)
Answer ==
  /\ kind = "synchronize_with" /\ at = "idle" /\ sought # << >> /\ ~Behind
  /\ answers' = Append(answers, currently_synchronized # << >>
                                /\ current_minimum = Head(sought))
  /\ sought' = Tail(sought)
  /\ result' = TRUE
  /\ UNCHANGED <<input, pushed, vectors, position, synchronized, next_minimum,
                 current_minimum, currently_synchronized, i, at, found, spare>>

------------------------------------------------------------------------------
(* SynchronizedUniversalIterator::advance.                                  *)

BeginUniversal ==
  /\ kind = "universal" /\ MayCall
  /\ IF vectors = << >>
       THEN Return(FALSE) /\ UNCHANGED <<position, synchronized, i>>
       ELSE LET first == IF synchronized THEN position[1] + 1 ELSE position[1]
            IN /\ position' = [position EXCEPT ![1] = first]
               /\ synchronized' = FALSE
               /\ IF first > Len(vectors[1])
                    THEN Return(FALSE) /\ UNCHANGED i
                    ELSE at' = "for" /\ i' = 2 /\ UNCHANGED result
  /\ AsBefore
  /\ UNCHANGED <<vectors, next_minimum, current_minimum, currently_synchronized, found>>

(* The head of the for loop, and the end of it.                             *)
NextVector ==
  /\ at = "for"
  /\ IF i > Len(vectors)
       THEN /\ synchronized' = TRUE /\ Return(TRUE)
            /\ found' = Append(found, Value(1))
       ELSE /\ IF Ended(i) THEN Return(FALSE) ELSE at' = "while" /\ UNCHANGED result
            /\ UNCHANGED <<synchronized, found>>
  /\ AsBefore
  /\ UNCHANGED <<vectors, position, next_minimum, current_minimum,
                 currently_synchronized, i, spare>>

Reached ==
  /\ at = "while" /\ Value(i) = Value(1)
  /\ i' = i + 1 /\ at' = "for"
  /\ AsBefore
  /\ UNCHANGED <<vectors, position, synchronized, next_minimum, current_minimum,
                 currently_synchronized, result, found, spare>>

(* positions[0] > positions[1].                                             *)
IteratorAbove(p) ==
  input.memory = "above" \/ (input.memory = "same" /\ p[1] > p[2])

(* One increment of k, behind the other until then.  The walk ends with k;  *)
(* when both loops are through, it may start again with the second vector.  *)
Increment(k, loops_done) ==
  LET to == position[k] + 1
  IN /\ position' = [position EXCEPT ![k] = to]
     /\ IF to > Len(vectors[k]) THEN Return(FALSE) /\ UNCHANGED i
        ELSE IF loops_done /\ IteratorAbove(position')
          THEN at' = "for" /\ i' = 2 /\ UNCHANGED result
          ELSE UNCHANGED <<at, i, result>>
     /\ AsBefore
     /\ UNCHANGED <<vectors, synchronized, next_minimum, current_minimum,
                    currently_synchronized, found, spare>>

(* positions[i] follows; if it goes past, positions[0] takes the lead.      *)
Follow == /\ at = "while" /\ Value(i) < Value(1)
          /\ Increment(i, ValueAfter(i) = Value(1))

Lead == /\ at = "while" /\ Value(i) > Value(1)
        /\ Increment(1, ValueAfter(1) >= Value(i))

------------------------------------------------------------------------------
(* SynchronizedExistentialIterator::advance.                                *)

BeginExistential ==
  /\ kind # "universal"
  /\ MayCall
  /\ current_minimum' = next_minimum
  /\ currently_synchronized' = << >>
  /\ i' = 1 /\ at' = "scan"
  /\ AsBefore
  /\ UNCHANGED <<vectors, position, synchronized, next_minimum, result, found>>

(* A vector that has come to its end is replaced by the last one.           *)
WithoutVector(s) == Front(IF i = Len(s) THEN s ELSE [s EXCEPT ![i] = Last(s)])

Drop ==
  /\ at = "scan" /\ i <= Len(vectors) /\ Ended(i)
  /\ vectors' = WithoutVector(vectors) /\ position' = WithoutVector(position)
  /\ AsBefore
  /\ UNCHANGED <<synchronized, next_minimum, current_minimum,
                 currently_synchronized, i, at, result, found, spare>>

(* At the current minimum: collect the position and look at the next value. *)
Collect ==
  /\ at = "scan" /\ i <= Len(vectors) /\ ~Ended(i)
  /\ Value(i) = current_minimum
  /\ currently_synchronized' = Append(currently_synchronized, vectors[i])
  /\ position' = [position EXCEPT ![i] = @ + 1]
  /\ AsBefore
  /\ UNCHANGED <<vectors, synchronized, next_minimum, current_minimum, i, at,
                 result, found, spare>>

(* Not the code: a minimum that is not above the current one is kept.       *)
KeepsOldMinimum == next_minimum > Value(i)

Lower == next_minimum > Value(i) \/ next_minimum = current_minimum

(* Not the code: i is not incremented.                                      *)
PassStays ==
  /\ at = "scan" /\ i <= Len(vectors) /\ ~Ended(i)
  /\ Value(i) # current_minimum
  /\ next_minimum' = IF Lower THEN Value(i) ELSE next_minimum
  /\ AsBefore
  /\ UNCHANGED <<vectors, position, synchronized, current_minimum, i,
                 currently_synchronized, at, result, found, spare>>

Pass ==
  /\ at = "scan" /\ i <= Len(vectors) /\ ~Ended(i)
  /\ Value(i) # current_minimum
  /\ next_minimum' = IF Lower THEN Value(i) ELSE next_minimum
  /\ i' = i + 1
  /\ AsBefore
  /\ UNCHANGED <<vectors, position, synchronized, current_minimum,
                 currently_synchronized, at, result, found, spare>>

EndOfScan ==
  /\ at = "scan" /\ i > Len(vectors)
  /\ Return(currently_synchronized # << >>)
  /\ found' = IF currently_synchronized # << >> THEN Append(found, current_minimum)
                                               ELSE found
  /\ AsBefore
  /\ UNCHANGED <<vectors, position, synchronized, next_minimum, current_minimum,
                 currently_synchronized, i, spare>>

Next ==
  \/ Push
  \/ BeginUniversal \/ NextVector \/ Reached \/ Follow \/ Lead
  \/ Answer
  \/ BeginExistential \/ Drop \/ Collect \/ Pass \/ EndOfScan

Spec == Init /\ [][Next]_vars /\ WF_vars(Next)

------------------------------------------------------------------------------
Held(k) == ToSet(input.vectors[k])
Indices == 1 .. Len(input.vectors)
InAny == UNION {Held(k) : k \in Indices}
InAll == {v \in InAny : \A k \in Indices : v \in Held(k)}
Wanted == IF kind = "universal" THEN InAll ELSE InAny

(* The values of a set that are not above the last of s, in ascending order.*)
IsBeginning(s, S) ==
  /\ \A n \in 1 .. Len(s) - 1 : s[n] < s[n + 1]
  /\ ToSet(s) \subseteq S
  /\ s # << >> => \A v \in S : v <= Last(s) => v \in ToSet(s)

(* When the universal iterator says so, all its positions are synchronized. *)
PositionsSynchronized ==
  synchronized => \A k \in 1 .. Len(vectors) : ~Ended(k) /\ Value(k) = Value(1)

(* The iterators stop at every value they should, once, in ascending order, *)
(* whichever vectors end first; and advance returns false when there is no  *)
(* further value, not before.                                               *)
StopsAtEveryValue ==
  /\ IsBeginning(found, Wanted)
  /\ at = "idle" /\ ~result => ToSet(found) = Wanted

(* Where the existential iterator stops, it returns the positions of all    *)
(* the vectors that hold the value, those that have moved included.         *)
ReturnsAllHolders ==
  kind # "universal" /\ at = "idle" /\ currently_synchronized # << >> =>
    /\ Len(currently_synchronized) =
         Cardinality({k \in Indices : Last(found) \in Held(k)})
    /\ \A v \in ToSet(currently_synchronized) : Last(found) \in ToSet(v)

(* Wherever an iterator stops it has all the vectors that hold the value,   *)
(* synchronized, and it has stopped at all values before it.                *)
EveryValueWithItsHolders ==
  PositionsSynchronized /\ StopsAtEveryValue /\ ReturnsAllHolders

(* synchronize_with finds a value if and only if some vector holds it, when *)
(* it is asked for values in ascending order, the same more than once.      *)
FindsWhatIsThere ==
  \A n \in 1 .. Len(answers) : answers[n] <=> input.sought[n] \in InAny

(* Liveness: every call returns, and the client comes to the end.           *)
Ends == <>(at = "idle" /\ (IF kind = "synchronize_with" THEN sought = << >> ELSE ~result))

==============================================================================
