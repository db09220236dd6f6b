----------------------------- MODULE Concatenation -----------------------------
(***************************************************************************)
(* Nfa::concatenate, concatenate_nth_power and algorithms::concatenate_eps *)
(* (src/nfa/concatenation.cc), remove_epsilon (src/nfa/operations.cc) and  *)
(* Nfa::unite_nondet_with (src/nfa/nfa.cc).                                *)
(*                                                                         *)
(* concatenate changes an object in place, and its argument may be that    *)
(* object; therefore objects are named, and a call has the names of two.   *)
(* A step is one round of an outer loop.                                   *)
(***************************************************************************)
EXTENDS Automata, FiniteSets

CONSTANTS
  Jobs,       \* records [op, lhs, rhs, power]
  EPSILON,    \* the symbol that is silent
  epsilon     \* the parameter of that name of concatenate_eps

VARIABLES
  job,
  objects,            \* object |-> automaton; the answer is in "result"
  this, aut,          \* the objects of a call of concatenate
  n, aut_initial, aut_final, new_fin,   \* its locals
  left,               \* initial states of aut still to be connected
  power,
  epsilon_closure, closing, changed,
  at, return_to

callvars == <<this, aut, n, aut_initial, aut_final, new_fin, left, return_to>>
closurevars == <<epsilon_closure, closing, changed>>
combinevars == <<job, objects, callvars, power, closurevars, at>>

num_of_states(A) == Cardinality(A.states)
EmptyString == [states |-> {0}, initial |-> {0}, final |-> {0}, delta |-> {}]
NoAutomaton == [states |-> {}, initial |-> {}, final |-> {}, delta |-> {}]
Shifted(S, k) == {q + k : q \in S}
Renumbered(D, k) == {<<m[1] + k, m[2], m[3] + k>> : m \in D}
Trivial(A) == A.initial = {} \/ A.final = {}

(* What a job may be: automata as the code has them.  The caller of         *)
(* concatenate_eps that has epsilons removed, nfa::concatenate, joins the   *)
(* parts with the symbol that is removed.                                   *)
IsNfa(A) ==
  /\ A = [states |-> A.states, initial |-> A.initial, final |-> A.final, delta |-> A.delta]
  /\ IsFiniteSet(A.states) /\ A.states = 0 .. num_of_states(A) - 1
  /\ IsAutomaton(A, Nat)

Operations == {"concatenate", "concatenate itself", "power", "concatenate_eps",
               "remove_epsilon", "unite", "unite itself", "given"}

ASSUME JobsAssumption ==
  /\ EPSILON \in Nat
  /\ \A j \in Jobs : /\ j.op \in Operations /\ j.power \in Nat
                     /\ IsNfa(j.lhs) /\ IsNfa(j.rhs)
                     /\ j.op = "concatenate_eps" => epsilon = EPSILON

(* concatenate_eps up to the removal of epsilons.                           *)
JoinedByEpsilon(lhs, rhs) ==
  LET k == num_of_states(lhs)
  IN [states |-> 0 .. k + num_of_states(rhs) - 1,
      initial |-> lhs.initial, final |-> Shifted(rhs.final, k),
      delta |-> lhs.delta \cup Renumbered(rhs.delta, k)
                \cup (lhs.final \X {epsilon} \X Shifted(rhs.initial, k))]

(* unite_nondet_with, for two objects.                                      *)
United(lhs, rhs) ==
  LET k == num_of_states(lhs)
  IN IF Trivial(lhs) THEN rhs
     ELSE IF Trivial(rhs) THEN lhs
     ELSE [states |-> 0 .. k + num_of_states(rhs) - 1,
           initial |-> lhs.initial \cup Shifted(rhs.initial, k),
           final |-> lhs.final \cup Shifted(rhs.final, k),
           delta |-> lhs.delta \cup Renumbered(rhs.delta, k)]

Begin == CASE job.op \in {"concatenate", "concatenate itself"} -> "append"
           [] job.op = "power" -> IF job.power = 0 THEN "done" ELSE "multiply"
           [] job.op = "concatenate_eps" ->
                IF Trivial(job.lhs) \/ Trivial(job.rhs) THEN "done" ELSE "remove epsilon"
           [] job.op = "remove_epsilon" -> "remove epsilon"
           [] job.op \in {"unite", "unite itself", "given"} -> "done"

CombineInit ==
  /\ job \in Jobs
  /\ objects = [result |-> CASE job.op = "power" -> EmptyString
                             [] job.op = "concatenate_eps" ->
                                  IF Trivial(job.lhs) \/ Trivial(job.rhs) THEN NoAutomaton
                                  ELSE JoinedByEpsilon(job.lhs, job.rhs)
                             [] job.op = "unite" -> United(job.lhs, job.rhs)
                             [] OTHER -> job.lhs,
                base |-> IF job.op = "power" THEN job.lhs ELSE job.rhs]
  /\ this = "result" /\ aut = IF job.op = "concatenate itself" THEN "result" ELSE "base"
  /\ n = 0 /\ aut_initial = {} /\ aut_final = {} /\ new_fin = {} /\ left = {}
  /\ power = job.power
  /\ epsilon_closure = << >> /\ closing = 0 /\ changed = FALSE
  /\ at = Begin /\ return_to = "done"

------------------------------------------------------------------------------
(* Nfa::concatenate: *this, followed by *aut.                               *)

(* The transitions of aut, which may be those of this, are appended.        *)
AppendDelta ==
  /\ at = "append"
  /\ n' = num_of_states(objects[this])
  /\ aut_initial' = objects[aut].initial /\ aut_final' = objects[aut].final
  /\ objects' = [objects EXCEPT
       ![this].states = 0 .. n' + num_of_states(objects[aut]) - 1,
       ![this].delta = @ \cup Renumbered(objects[aut].delta, n')]
  /\ new_fin' = Shifted(aut_final', n') /\ left' = aut_initial'
  /\ at' = "connect"
  /\ UNCHANGED <<job, this, aut, return_to, power, closurevars>>

(* Not the code: an initial state that is final is not looked at.           *)
ConnectNoEmptyWord(ini) ==
  /\ at = "connect" /\ ini \in left
  /\ objects' = [objects EXCEPT ![this].delta = @ \cup
       UNION {objects[this].final \X {m[2]} \X {m[3]} : m \in {k \in @ : k[1] = ini + n}}]
  /\ left' = left \ {ini}
  /\ UNCHANGED <<job, this, aut, n, aut_initial, aut_final, new_fin, return_to, power,
                 closurevars, at>>

(* The final states of this get the moves of an initial state of aut.       *)
Connect(ini) ==
  /\ at = "connect" /\ ini \in left
  /\ objects' = [objects EXCEPT ![this].delta = @ \cup
       UNION {objects[this].final \X {m[2]} \X {m[3]} : m \in {k \in @ : k[1] = ini + n}}]
  /\ new_fin' = new_fin \cup IF ini \in aut_final THEN objects[this].final ELSE {}
  /\ left' = left \ {ini}
  /\ UNCHANGED <<job, this, aut, n, aut_initial, aut_final, return_to, power, closurevars,
                 at>>

Return ==
  /\ at = "connect" /\ left = {}
  /\ objects' = [objects EXCEPT ![this].final = new_fin]
  /\ at' = return_to
  /\ UNCHANGED <<job, callvars, power, closurevars>>

------------------------------------------------------------------------------
(* concatenate_nth_power, by squaring.                                      *)

Multiply ==
  /\ at = "multiply" /\ power # 0
  /\ this' = "result" /\ aut' = "base" /\ return_to' = "square"
  /\ at' = IF power % 2 = 1 THEN "append" ELSE "square"
  /\ UNCHANGED <<job, objects, n, aut_initial, aut_final, new_fin, left, power, closurevars>>

Square ==
  /\ at = "square"
  /\ power' = power \div 2
  /\ this' = "base" /\ aut' = "base" /\ return_to' = "multiply"
  /\ at' = IF power' # 0 THEN "append" ELSE "done"
  /\ UNCHANGED <<job, objects, n, aut_initial, aut_final, new_fin, left, closurevars>>

------------------------------------------------------------------------------
(* remove_epsilon.                                                          *)

nfa == objects["result"]
EpsilonTargets(q) == {m[3] : m \in {k \in nfa.delta : k[1] = q /\ k[2] = EPSILON}}

(* A state without moves has no entry; it is found empty if it is asked for.*)
StartClosure ==
  /\ at = "remove epsilon"
  /\ epsilon_closure' = [q \in nfa.states |->
       IF \E m \in nfa.delta : m[1] = q THEN {q} \cup EpsilonTargets(q) ELSE {}]
  /\ closing' = 0 /\ changed' = FALSE
  /\ at' = "close"
  /\ UNCHANGED <<job, objects, callvars, power>>

(* Not the code: every state with an epsilon counts as a change.            *)
CloseAlwaysChanged ==
  /\ at = "close" /\ closing \in nfa.states
  /\ epsilon_closure' = [epsilon_closure EXCEPT
       ![closing] = @ \cup UNION {epsilon_closure[t] : t \in EpsilonTargets(closing)}]
  /\ changed' = (changed \/ EpsilonTargets(closing) # {})
  /\ closing' = closing + 1
  /\ UNCHANGED <<job, objects, callvars, power, at>>

(* The closures are iterated in place.                                      *)
Close ==
  /\ at = "close" /\ closing \in nfa.states
  /\ epsilon_closure' = [epsilon_closure EXCEPT
       ![closing] = @ \cup UNION {epsilon_closure[t] : t \in EpsilonTargets(closing)}]
  /\ changed' = (changed \/ epsilon_closure' # epsilon_closure)
  /\ closing' = closing + 1
  /\ UNCHANGED <<job, objects, callvars, power, at>>

EndOfPass ==
  /\ at = "close" /\ closing \notin nfa.states
  /\ closing' = 0 /\ changed' = FALSE
  /\ at' = IF changed THEN "close" ELSE "rebuild"
  /\ UNCHANGED <<job, objects, callvars, power, epsilon_closure>>

Rebuild ==
  /\ at = "rebuild"
  /\ objects' = [objects EXCEPT
       !["result"].final = @ \cup {q \in nfa.states : epsilon_closure[q] \cap @ # {}},
       !["result"].delta =
          {<<p[1], p[2][2], p[2][3]>> : p \in {c \in nfa.states \X @ :
             c[2][1] \in epsilon_closure[c[1]] /\ c[2][2] # EPSILON}}]
  /\ at' = "done"
  /\ UNCHANGED <<job, callvars, power, closurevars>>

CombineNext ==
  \/ AppendDelta \/ (\E ini \in left : Connect(ini)) \/ Return
  \/ Multiply \/ Square
  \/ StartClosure \/ Close \/ EndOfPass \/ Rebuild

CombineSpec == CombineInit /\ [][CombineNext]_combinevars /\ WF_combinevars(CombineNext)

------------------------------------------------------------------------------
Symbols == {m[2] : m \in job.lhs.delta \cup job.rhs.delta} \ {EPSILON}
Words == WordsUpTo(Symbols, 4)

Silently(A, S) ==
  LET closed[k \in 0 .. Cardinality(A.states)] ==
        IF k = 0 THEN S
        ELSE LET before == closed[k - 1] IN before \cup Post(A, before, EPSILON)
  IN closed[Cardinality(A.states)]

(* The words a word can be read as: epsilons are silent.                    *)
Silenced(A) ==
  [A EXCEPT !.initial = Silently(A, @),
            !.delta = UNION {{<<m[1], m[2], t>> : t \in Silently(A, {m[3]})} :
                               m \in {k \in A.delta : k[2] # EPSILON}}]
Language(A) == LET B == Silenced(A) IN {word \in Words : Accepts(B, word)}

Concatenated(L, M) == {p[1] \o p[2] : p \in {c \in L \X M : Len(c[1]) + Len(c[2]) <= 4}}

Power(L) ==
  LET times[k \in 0 .. job.power] ==
        IF k = 0 THEN {<< >>} ELSE LET before == times[k - 1] IN Concatenated(before, L)
  IN times[job.power]

(* The language of the result is the one the name of the operation says, as *)
(* long as that of its arguments, which may be the object it changes; and   *)
(* when epsilons are to be removed, none is left.                           *)
CombinedLanguage ==
  at = "done" =>
    LET L == Language(job.lhs)
        M == Language(job.rhs)
    IN /\ Language(objects["result"]) =
            CASE job.op \in {"concatenate", "concatenate_eps"} -> Concatenated(L, M)
              [] job.op = "concatenate itself" -> Concatenated(L, L)
              [] job.op = "power" -> Power(L)
              [] job.op \in {"remove_epsilon", "given"} -> L
              [] job.op = "unite" -> L \cup M
              [] job.op = "unite itself" -> L
       /\ job.op \in {"concatenate_eps", "remove_epsilon"} =>
            \A m \in objects["result"].delta : m[2] # EPSILON

(* Every operation ends: the squaring, and the iteration of the closures.   *)
CombinationEnds == <>(at = "done")

==============================================================================
