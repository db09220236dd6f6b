---------------------------------- MODULE Trim ----------------------------------
(***************************************************************************)
(* Nfa::trim and mata::nfa::trim (src/nfa/nfa.cc) with Delta::defragment   *)
(* (src/nfa/delta.cc): after get_useful_states, the search of TarjanScc,   *)
(* the useful states are numbered from 0 and everything else is dropped.   *)
(* Delta::defragment moves the state posts down in the vector it reads.    *)
(***************************************************************************)
EXTENDS TarjanScc

VARIABLES
  stage,         \* "search", "renaming", "delta", "sets", "trimmed"
  renaming,      \* by original state; 0 where the code has not written
  state_posts,   \* the vector of Delta: state |-> set of <<symbol, target>>
  source_orig, source_new,
  initial, final \* of the trimmed automaton

trimvars == <<stage, renaming, state_posts, source_orig, source_new, initial, final>>
allvars == <<vars, trimvars>>

num_of_states == Cardinality(aut.states)

Init ==
  /\ TarjanInit
  /\ stage = "search"
  /\ renaming = [q \in aut.states |-> 0]
  /\ state_posts = [q \in aut.states |-> {<<m[2], m[3]>> : m \in MovesFrom(q)}]
  /\ source_orig = 0 /\ source_new = 0
  /\ initial = aut.initial /\ final = aut.final

Search == stage = "search" /\ TarjanNext /\ UNCHANGED trimvars

(* The call of get_useful_states returns to trim.                           *)
TakeUseful ==
  /\ stage = "search" /\ phase = "done" /\ client = "useful"
  /\ stage' = "renaming"
  /\ UNCHANGED <<vars, renaming, state_posts, source_orig, source_new, initial, final>>

(* Not the code: a state is numbered by itself.                             *)
NumberAfter(q) == Cardinality({r \in useful : r <= q})

NumberOf(q) == Cardinality({r \in useful : r < q})

NumberStates ==
  /\ stage = "renaming"
  /\ renaming' = [q \in aut.states |-> IF q \in useful THEN NumberOf(q) ELSE 0]
  /\ stage' = "delta"
  /\ UNCHANGED <<vars, state_posts, source_orig, source_new, initial, final>>

DropSource ==
  /\ stage = "delta" /\ source_orig < num_of_states /\ source_orig \notin useful
  /\ source_orig' = source_orig + 1
  /\ UNCHANGED <<vars, stage, renaming, state_posts, source_new, initial, final>>

(* targets.erase_if, targets.rename.                                        *)
Kept(post) == {<<p[1], renaming[p[2]]>> : p \in {r \in post : r[2] \in useful}}

(* The post is rebuilt, then moved down, which empties the place it was in. *)
KeepSource ==
  /\ stage = "delta" /\ source_orig < num_of_states /\ source_orig \in useful
  /\ LET post == Kept(state_posts[source_orig])
     IN state_posts' = [state_posts EXCEPT ![source_orig] = {}, ![source_new] = post]
  /\ source_orig' = source_orig + 1 /\ source_new' = source_new + 1
  /\ UNCHANGED <<vars, stage, renaming, initial, final>>

(* state_posts_.resize(source_new).                                         *)
CutDelta ==
  /\ stage = "delta" /\ source_orig = num_of_states
  /\ state_posts' = [q \in 0 .. source_new - 1 |-> state_posts[q]]
  /\ stage' = "sets"
  /\ UNCHANGED <<vars, renaming, source_orig, source_new, initial, final>>

(* filter, rename and truncate of both sets.                                *)
RenameSets ==
  /\ stage = "sets"
  /\ initial' = {renaming[q] : q \in initial \cap useful}
  /\ final' = {renaming[q] : q \in final \cap useful}
  /\ stage' = "trimmed"
  /\ UNCHANGED <<vars, renaming, state_posts, source_orig, source_new>>

Next ==
  \/ Search \/ TakeUseful \/ NumberStates
  \/ DropSource \/ KeepSource \/ CutDelta \/ RenameSets

Spec == Init /\ [][Next]_allvars /\ WF_allvars(Next)

------------------------------------------------------------------------------
Trimmed ==
  [states |-> DOMAIN state_posts, initial |-> initial, final |-> final,
   delta |-> {m \in (DOMAIN state_posts) \X Symbol \X aut.states :
                <<m[2], m[3]>> \in state_posts[m[1]]}]

(* While Delta is read and written in one pass, no post that is still to be *)
(* read has been written over: the posts from source_orig on are the old    *)
(* ones, and those below source_new are the renamed ones.                   *)
DefragmentInPlace ==
  stage = "delta" =>
    /\ source_new = NumberOf(source_orig)
    /\ \A q \in source_orig .. num_of_states - 1 :
         state_posts[q] = {<<m[2], m[3]>> : m \in MovesFrom(q)}
    /\ \A q \in useful : q < source_orig =>
         state_posts[NumberOf(q)] =
           {<<m[2], NumberOf(m[3])>> : m \in {n \in MovesFrom(q) : n[3] \in useful}}

(* The result is an automaton without gaps whose states are all useful and  *)
(* that accepts what the original accepts; a second trim would change       *)
(* nothing.                                                                 *)
TrimKeepsLanguage ==
  stage = "trimmed" =>
    /\ IsAutomaton(Trimmed, Symbol)
    /\ Trimmed.states = 0 .. Cardinality(UsefulStates) - 1
    /\ \A word \in WordsUpTo(Symbol, num_of_states) :
         Accepts(Trimmed, word) <=> Accepts(aut, word)

(* Compaction in place loses nothing that the language needs.               *)
TrimIsRight == DefragmentInPlace /\ TrimKeepsLanguage

(* Liveness: trim ends.                                                     *)
TrimEnds == <>(phase = "done" /\ (client = "useful" => stage = "trimmed"))

==============================================================================
