# Mata in TLA+

TLA+ modules, TLC configurations and TLAPS proofs for Mata, a C++ library of
algorithms on finite automata and transducers (`src/` below is the repository).
The library is sequential: there are no threads, no files and no messages in its
core.  What makes it hard is of another kind: algorithms on the fly that forget
most of what they have seen and must still be right, containers that are changed
by the loop that walks them, stale entries that are read again, objects that are
argument and result at once, orders of exploration nobody chose (hash maps, the
history of a set), levels and jumps that change what a transition means, and
preconditions that only a chain of calls establishes.  Loops with such hazards
are sequences of steps, with the state they have half-way; algorithms that read
one value and return another are operators.

Paths in this file are relative to the repository's `src/` directory or, where
only a file name is given, to `src/nfa` and `src/nft`.

## 1. Inventory

| component | state | operations | hard parts | correct when |
|---|---|---|---|---|
| `utils::SparseSet` (`include/mata/utils/sparse-set.hh`), the type of `Nfa::initial` and `Nfa::final` | vectors `dense_`, `sparse_`, `size_`, `domain_size_`; entries outside the set are never cleared | insert, erase, reserve, clear, truncate, complement, filter, rename, sort, move | `contains` reads left-overs; bulk operations walk the vectors they rearrange; the domain shrinks | it is the set its calls describe |
| `OrdVector`, `Delta`, `StatePost`, `SymbolPost` | ascending vectors inside vectors | add, remove, find, iteration, set operations | a symbol post must never be empty, `lower_bound` needs order after any calls | ordered, and every question answered by the set of transitions |
| `Nfa` object | `delta`, `initial`, `final`; the number of states is the largest of three lengths | add_state, insert_word, unify, swap, clear, move, queries | lengths that grow apart and are partly kept by `clear` | to its users a set of transitions and two sets of states |
| antichain inclusion and universality (`inclusion.cc`, `universal.cc`) | processed pairs, worklist, paths, the caller's `Run` | one call, a depth-first search | pairs are pruned and evicted while others are half explored; refusal by distances only; a counterexample from evicted pairs | the answer and the counterexample are right |
| strongly connected components and their four clients (`nfa.cc`), trim, `Delta::defragment` | two stacks, node infos with saved iterators, callbacks; Delta compacted in place | get_useful_states, is_lang_empty_scc, is_acyclic, is_flat, trim | recursion resumed from iterators, early end by callbacks, marking that stops half-way down the stack | components in order, answers by definition, same language |
| synchronized iterators (`include/mata/utils/synchronized-iterator.hh`, `delta.cc`) | positions and ends, current and next minimum | push_back, advance, synchronize_with, reset | positions vanish during the scan; repeated calls; comparison of iterators of different vectors | stops at each value once with all its holders |
| determinization, product, complement, Brzozowski, emptiness with a run, naive inclusion | maps of macrostates and pairs with worklists | one call each, chained | early returns and callbacks, epsilon moves added after the others, maps that stay empty, sinks numbered by a count that changes | each construction by its definition, the chain decides inclusion with a right run |
| Hopcroft minimization (`operations.cc`) | two refinable partitions as permuted vectors, three stacks | one call | marking and splitting in place, splitters split while waiting or used up, partial transition functions | minimal and equivalent |
| residual reduction (`operations.cc`) | maps of covered and not covered macrostates, what covers what | with and after determinization | a macrostate becomes covered while it is being expanded, coverings become covered, order of hash maps | same language, the macrostates that are no union of others |
| concatenation, powers, union, removal of epsilons | objects changed in place, closures iterated in place | concatenate, concatenate_eps, concatenate_nth_power, unite_nondet_with, remove_epsilon | an object that is its own argument; two epsilons; the empty word | the language the name says |
| words of a language, difference, reversal, simulation (`operations.cc`) | worklists, stacks of iterators | get_word, get_shortest_word, get_word_from_complement, lang_difference, get_words, revert, reduce | iterators that are gone back to, partial determinization, an order of pushing that keeps vectors sorted | a word is returned exactly if there is one, the reversed moves in order, same language |
| string equations (`applications/strings`) | depths, segments, noodles | segmentation, noodlify in three forms, shortest words, lengths | counts of epsilons overwritten in the queue, transitions of a depth removed from copies | the noodles are the solutions |
| `Nft` (`src/nft`) | levels of states on top of an Nfa | insert words over levels, insert/project/invert levels, unwind jumps, product, compose, determinize, remove epsilon, reduce, post, membership | jumps over levels with two readings, chains of inner states, waiting on some tapes | the relation the name says |
| fast composition (`composition.cc`) | types of synchronization by an explicit stack; pairs, two worklists, waiting simulations | compose_fast_no_jump | a state several times on the stack, fast epsilons, pairs without their level | sound and complete composition |
| mintermization, parsers, alphabets, builders, string replacement, bindings | | | numbering by a hash set, pointers as keys | not modelled, see 7 |

**Interaction.**  Every algorithm reads `Delta` through the synchronized
iterators or the moves iterators, and `initial`/`final` through `SparseSet`.
Inclusion and emptiness use `distances_to_final`.  `complement` calls
`determinize` and `trim`, `trim` calls `get_useful_states`, and that calls
`tarjan_scc_discover` with callbacks.  The naive inclusion chains `complement`,
`intersection` and `is_lang_empty`.  `reduce_residual_after` hands a map to
`determinize` and works on it afterwards.  Noodlification concatenates by an
epsilon, takes a product, splits it by depth, trims and reduces the parts.
General composition of transducers inserts levels, adds loops, takes a product
and projects.  Callbacks are the Tarjan functions, `macrostate_discover` and the
conditions given to filter, trim and product.

## 2. Modules

Shared values: `Automata` has automata as records (states, initial, final,
delta), reading a word, runs, and distances; `Reductions` begins with the worklists,
trimming, simulation and orders that words and transducers need as well; `Transducers` has levels, jumps and the relation of a
transducer, the tuples of words it accepts in a bounded number of rounds.
States and symbols are numbers since the order in which Delta stores them is an
order of exploration.

| module | code | how it corresponds |
|---|---|---|
| `NumberSet` | promise of `SparseSet` | the abstract specification: a set; a bulk operation is a call and a return |
| `SparseSet` | `sparse-set.hh` | one action per mutator; `complement`, `filter` and `rename` one step per iteration (`op`, `i`, and the call's arguments are variables); `dense`, `sparse`, `len`, `size`, `domain_size` are the members, left-overs included |
| `TransitionRelation` | `ord-vector.hh`, `delta.hh`, `delta.cc` | vectors as sequences; every operation an operator from vectors to vectors, every query and iterator an operator on them |
| `AutomatonValue` | promise of an `Nfa` object | the abstract specification: transitions, two sets and a number of states; `remove` may report a missing transition or not; `clear` and a move leave a blank object, as the documentation says |
| `AutomatonObject` | `nfa.hh`, `nfa.cc`, parts of `operations.cc` | one action per call, on the vectors of `TransitionRelation` and the domains of the two sets; `ClearKeepsDomains` names the one call that differs from `AutomatonValue`; the queries are operators compared with the set of transitions in every state |
| `InclusionSearch` | what both antichain searches do | the abstract specification: any order of exploration, refusal as soon as a pair is hopeless |
| `AntichainInclusion` | `inclusion.cc`, `universal.cc` | the vector used as a stack, pruning of `processed` and `worklist`, `lengths_incompatible`, `paths`, the walk back, the reversal and the shortest way on to a final state; `phase` says in which loop the call is |
| `TarjanScc`, `Trim` | `tarjan_scc_discover`, its clients, `trim`, `defragment` | one step per turn of the main loop or of the loop over moves; `moves_left[q]` stands for the saved iterator; `Trim` continues with numbering and the in-place compaction of `state_posts` |
| `SyncIterators` | both iterators, `synchronize_with` | one step per vector pushed, per test or increment; where vectors lie in memory is part of the input |
| `Determinization`, `Product`, `EmptinessSearch` | the three constructions | one step per symbol, pair of targets or target; they share their variables with the next |
| `NaiveInclusion` | `is_included_naive` and calls of one construction | `stage` says which construction runs; each is started with the result of the one before; trimming and completion are operators there (`Trim` has them step by step) |
| `Hopcroft` | `RefinablePartition`, `minimize_hopcroft` | the partition with its six vectors as a record, `Mark` and `Split` as functions of it; one step per mark, split or splitter |
| `Residual` | `reduce_residual_with`, `_after` | one step per symbol, per entry of a hash map (in any order) and per call of the recursion, whose frames are a stack |
| `Concatenation` | `concatenation.cc`, `remove_epsilon`, `unite_nondet_with` | objects have names, a call has two of them, which may be equal; one step per initial state connected, per state of a closure pass, per bit of the power |
| `Words`, `Reductions`, `Noodles` | words, difference, `strings.cc`; reversals, simulation, unify; `segmentation.cc`, `noodlification.cc` | operators; a depth-first search has a stack of moves in the order of the iterators, a result built by pushing back is a sequence |
| `AutomatonCalls` | | composes `Concatenation` with the three: an automaton is built by a job and then asked, turned or made a side of an equation |
| `SyncTypes` | `SynchronizationProperties` in `composition.cc` | the stack, one step per pop |
| `FastComposition` | `compose_fast_no_jump` | continues `SyncTypes`; one step per pair of the main worklist or of the worklist of a waiting simulation; the lambdas are operators on the transducer under construction |
| `TransducerOperations`, `TransducerTapes` | `nft.cc`, `nft/operations.cc`, `intersection.cc`, `compose_general` | operators from transducers to transducers or answers; a state that an operation adds is named for what it is added for |
| `TransducerCalls` | | composes the two: a transducer that is given is changed by up to two building calls and handed to one operation; most operations start from given transducers, which the building calls need not be able to produce |
| `MC...` | | inputs for TLC |
| `SetsAndConcatenation_proofs`, `Automata_proofs`, `AntichainInclusion_proofs`, `Trim_proofs`, `Constructions_proofs`, `Hopcroft_proofs`, `Residual_proofs`, `AutomatonObject_proofs` | | theorems, see 6 |

Definitions marked "Not the code" are mutated versions of the definition below
them; no specification uses them.  They are there to show that the properties
tell them apart.

## 3. Runs

Deadlock is not checked in runs whose calls come to an end: there the system
really stops.  That they reach their end is a liveness property where there are
loops of steps.  Within the bounds every run explores all interleavings and
inputs; no state constraint and no symmetry is used, because order of states
matters.  Two runs have two systems side by side that never move together: a
behaviour of `constructions` is a job or a walk of an iterator, one of `automata`
a job with its calls or a history of a SparseSet.

| run | question | bounds and why they are enough |
|---|---|---|
| `objects` | Do calls in any order keep the vectors ordered and never show?  `VectorsInOrder`, `QueriesAgree` (the answer to every question against the set of transitions), `ImplementsValue` (refinement of `AutomatonValue`, but for the states `clear` leaves) | four calls of 25 on up to five states and three symbols, the last EPSILON: transitions that share source, symbol or target are added out of order and removed, after clear and after a move |
| `antichain_inclusion` | Is the answer right although most pairs are forgotten, and is the counterexample one?  `SearchInv`, `Correct`, `WitnessIsRight`, `ImplementsSearch`, `Terminates` | all automata of two states and two symbols with at most 2 (smaller) and 3 (bigger) moves: macrostates of both sizes, evictions from both lists, refusals by distance two steps before the end |
| `trim` | Are components, marks, answers, and the compacted Delta right?  `SearchIsRight`, `AnswerIsRight`, `TrimIsRight`, `TrimEnds` | all graphs of three states (512) with up to two initial states in either order; all of two states and two symbols for parallel moves.  Three states nest one component below another and have cross edges to closed ones |
| `constructions` | Is each construction right when it is complete and on the way, and does the chain end with a right answer and run?  `ConstructionsAreRight`, `NaiveTestEndsRight`.  Does each synchronized iterator stop where it should?  `EveryValueWithItsHolders`, `FindsWhatIsThere`, `Ends` | two states with two moves for chains, all complete automata of two states for unions, an epsilon on either side for products, three states for determinization stopped by its callback; iterators over up to three vectors of four values, one call more than needed; two positions in any place in memory, three when the first lies above |
| `hopcroft` | Do the two partitions and the splitters stay in step, is the result minimal?  `PartitionsInStep`, `MinimizedIsRight`, `HopcroftEnds` | all trimmed partial automata of three states and two symbols, those of four states with four moves: blocks are split twice and splitters split while waiting |
| `residual` | Which macrostates stay, in any order of discovery?  `MacrostatesAreRight`, `ReductionEndsRight` | five macrostates over three states in every order, the third met again: enough for a covering that becomes covered itself; one fan of four leaves in which a covered macrostate stays in the covering of another one; reversed automata of three states, where macrostates lead to each other |
| `automata` | Is the language right, the object its own argument included; are words, reversed and reduced automata and solutions of equations right?  `CombinedLanguage`, `WordsAreRight`, `TurnedIntoAnother`, `EquationSolved`, `CombinationEnds`.  Is a SparseSet, the container of initial and final states, a set, whatever the history of calls?  `TypeOK`, `MembershipExact`, `LoopInv` (what the loops rely on half-way), `ImplementsSet` (refinement of `NumberSet`), `LoopsEnd` | two states and one letter with two moves on either side, two letters with three moves for powers up to 4 (two squarings), three states with cycles of epsilons; words of automata of two and three states, of complements over one symbol more, of differences with two excluded automata; equations of up to two variables a side, each variable an automaton of two states with two moves; numbers 0 to 2 in the SparseSet, room for one element in place, one moved into a hole and one outside, and any sequence of calls |
| `composition` | Are types of synchronization and fast composition right?  `SyncTypesExact`, `CompositionIsRight`, `CompositionEnds` | transducers of one, two and three levels: all 36 pairs of a number of levels with a synchronization level, with and without projection; among them those with levels before the synchronization, behind it, on both sides or on none, so that a move synchronized in place goes on over what is left of either side.  Left out is the projection of two transducers of one level, which the code asserts away (`composition.cc:277`).  DONT_CARE, epsilons and fast epsilons; two moves each, up to four where states branch before an epsilon or one move doubles another |
| `transducers` | Do the calls on transducers mean what they say for the relation?  `BuiltAsAsked`, `TapesTransformed`, `ComposedOverTapes`, `RelationKept`, `ReadsTheRelation` | two tapes (levels 0, 0, 1) and three (0, 0, 1, 2), up to three moves, four for reductions; two building calls one after the other; relations compared over two to four rounds.  A chain has then an inner state of its own, a jump over one and over two tapes, and a cycle |
| `epsilon_shared` | a disagreement, see 5 | one transducer of five states in which two epsilon moves lead to one state |
| `graph_answers`, `clear_blank` | two disagreements with the documentation, see 5 | the inputs of `trim` and of `objects` |

One type invariant where types are not plain from the rest (`TypeOK`; parts of
`SearchIsRight`, `VectorsInOrder` and `PartitionsInStep` relate the vectors or
stacks to the sets they hold).  Some properties are a conjunction of named
parts, one for each construction or stage, with a comment at each part.
Languages are compared on words up to a length; for automata of two and three
states and the determinized ones built from them it tells all states apart that
the runs can reach, except in `automata` and `constructions`, where the length
is a bound.  Relations are compared up to a number of rounds, which is a bound.

**Inputs.**  Some operations keep what they promise only for inputs that the
library's callers give them; the runs are about these.  Automata: alphabets of
complements contain all symbols used; a shortest word is claimed to be shortest
only where no epsilon lengthens the way to it; sides of equations are trimmed;
a counterexample is asked for with an empty `Run`.  Transducers: no EPSILON on
jumps; projection without moves from a state to itself; `get_one_letter_aut`,
`determinize`, `remove_epsilon` and `reduce` without jumps, `reduce` also
without EPSILON and DONT_CARE; intersection with repeated symbols where the
moves of a state with a jump have one symbol; composition without DONT_CARE on
synchronized tapes; words inserted from level 0; union of transducers that are
not trivially empty; tapes that `post` does not use have empty words; no two
epsilon moves to one state before `remove_epsilon`, whose other inputs are the
subject of `epsilon_shared`.  What happens outside is said in 5.

## 4. Fairness

Each algorithm is one call on one thread, and a loop goes on until its condition
says otherwise: `WF_vars(Next)`.  In `SparseSet` the caller decides whether to
call again, so only the steps of a loop are fair (`WF_vars(LoopStep)`); where a run has
two systems side by side each has its own fairness; in
`AutomatonObject` and `TransducerCalls` nothing is fair, since every step is a
call of the user.  No strong fairness is used, and nothing is assumed of the
order of choices.

## 5. Disagreements found

Three runs have one property each, which TLC violates.

* `epsilon_shared`: `nft::remove_epsilon` counts symbol posts where it has to
  count transitions (`nft/operations.cc:352`), drops a run of epsilons into a
  state that a second epsilon enters, and so loses pairs, although its
  documentation promises the same language.
* `graph_answers`: `is_acyclic` and `is_flat` are documented as properties of the
  automaton graph and of every SCC (`include/mata/nfa/nfa.hh:561`, `568-573`), but
  search from the initial states only (`nfa.cc:287`), so a cycle nothing leads to
  goes unseen.  `is_flat` also counts moves where the documentation speaks of
  successors: two parallel moves are two cycles (`nfa.cc:448`).  The run stops
  at an automaton with a self-loop and no initial state, for `is_acyclic`; with
  `Clients = {"flat"}` the same property fails for `is_flat`.  `AnswerIsRight`
  of the run `trim`, and the theorem about it, are about what the code answers:
  the part that can be reached, with parallel moves as two.
* `clear_blank`: `clear` is documented to leave a blank automaton with each member
  at its zero value (`include/mata/nfa/nfa.hh:235-239`), but keeps the domains
  of the two sets (`nfa.cc:785`, `sparse-set.hh:83`), so a cleared automaton may
  have states, and `add_state` does not begin at 0.  One that was moved from
  has none.  `AutomatonValue` promises the blank object; `ImplementsValue` allows
  `clear`, and no other call, what `ClearKeepsDomains` says.

Other known deviations.  The properties of the runs hold without them, because
the inputs leave them out (section 3) or because nothing that is modelled
meets them.  They were met while the code was translated, and most were seen in
the program as well.

*Automata.*
* `is_included_antichains` appends its counterexample to what the caller's `Run`
  holds (`inclusion.cc:174`); only the check of initial states clears the word.
* The universal iterator compares iterators of different vectors
  (`synchronized-iterator.hh:144`) and with three positions may report some that
  are not synchronized; the library uses two.
* `concatenate_eps` with an epsilon of the caller's own and `use_epsilon = false`
  joins with that symbol and removes the default one (`concatenation.cc:106`, `122`).
* `get_word_from_complement` reads a symbol iterator at its end when the
  automaton has symbols above all of the alphabet (`operations.cc:1549`).
* `get_shortest_word` counts epsilon moves as letters.
* `decode_utf8` loses transitions when two targets of a lead byte continue with
  the same byte (`nfa.cc:861`).
* `SymbolPost`'s move assignment does nothing if the symbols are equal (`delta.cc:28`).
* `Delta::remove` throws only where the source has a post without the symbol; a
  missing target or a source beyond the vector passes silently.
* `get_used_symbols_set` collects into a static set that is never cleared
  (`delta.cc:644`); the bit-vector variants overflow on EPSILON.
* `reduce_residual_with` does not replace every covered state in the covering sets of
  other covered ones, which its comment (`operations.cc:111`) promises: both tests
  are in one pass over `covered`, so that a set inserted for one state is not looked at again for an
  earlier one (`operations.cc:122`).  Transitions to removed states are made; they do no harm,
  since nothing starts there, they are not final, and trim takes them away.
* `get_words_of_lengths` (`strings.cc:179`) does not end on cycles of epsilons.

*Transducers.*
* Intersection with repeated symbols, `determinize` and `project_out` lose or
  mix symbols on some jumps; `project_out` also on a jump from a state to itself
  (`nft/operations.cc:548`).
* `project_out` closes over epsilons by inserting into the vector it iterates
  (`nft/operations.cc:516-521`, `ord-vector.hh:215` assigns the vector anew).  In the
  model it is a fixpoint.  That is the same at the sizes of the runs, where the
  32 places reserved for the vector are not used up and the outer loop goes on
  until a pass changes nothing; for larger closures the vector may move under
  the iterator, and the behaviour is undefined.
* `get_word_for_path` pushes a symbol too many (`nft/operations.cc:1110`),
  `get_words` counts transitions and not letters, `revert` drops the levels,
  `mk_word_from_level_word` concatenates the tapes, `insert_word` resets a level
  (`nft.cc:931`), `reduce` overflows on EPSILON, `unite_nondet_with` fails for a
  trivially empty left side and doubles the levels of a union with itself.
* In composition the assertions at `composition.cc:713` and `785` fail for some
  legal inputs (the second for one that is not trimmed), targets are pushed
  unsorted (`639`, `829`), and `compose_general` lets DONT_CARE meet EPSILON.

The comment that residual reduction leaves as many states in both variants
(`operations.cc:1772`) is right: it follows from `MacrostatesAreRight`, which is
proved.

## 6. Proofs

**`SetsAndConcatenation_proofs`, first part**: `SparseSet`, for every `Bound` in Nat.  The inductive invariant is
`TypeOK /\ LoopInv`; `LoopInv` says that `dense` and `sparse` are linked, element
by element, except while `rename` runs, when only the elements before `i`
have their new names and links and the rest are where they were.  It is needed because
membership alone says nothing of the entry a later erase will move.  A pigeonhole
lemma (`Pigeons`, `Room`) shows that the insertion has room: distinct numbers below
`domain_size` are at most that many.  There is a lemma per call and per loop
step; the theorems are type correctness, `LoopInv`, `MembershipExact` and the
refinement `SparseSetImplementsNumberSet`, where every call and loop step is a step of
`NumberSet` or a stutter.

**`SetsAndConcatenation_proofs`, second part**: `Concatenation`, for any jobs.  Assumed (`JobsAssumption`, which the run
`automata` evaluates) is that automata have as states the numbers below `num_of_states()`, that symbols are
numbers, EPSILON one of them, and that `concatenate_eps` followed by the removal of epsilons is called with the symbol that is
removed, as `nfa::concatenate` does (`concatenation.cc:20`); for another symbol see section 5.
* What an automaton reads of a word from one place to another is defined by the least set of
  configurations closed under its moves, a silent one staying where it is (`Reached`, `Spells`), and is what the
  automaton without epsilons reads of that part of the word (`SpelledIsAccepted`).  So a word of a product is
  cut at a place (`SpellsBoth`) and a word of a power at several (`SpellsPower`), and cutting is associative.
* The inductive invariant is `CombineInv`.  In a concatenation the object holds both parts and what was handed over
  so far of the moves of the initial states of the second (`Halfway`, `InConcatenation`), also when both are
  one object, whose final states change last.  Of a power, the result has the power `r` of the base and the base
  the power `b`, and `r + b * power` is what was asked for (`InPower`).  While `remove_epsilon` changes the
  closures that it reads, an entry lies between the moves of its state and the closure (`EntriesRight`), and in a
  pass that has changed nothing the entries behind it hold those of their targets (`Settled`): so after such a
  pass they are the closures (`InRemoval`).  TLC does not check `CombineInv`, which quantifies over all words.
* `CombinationsAreAlwaysRight` states the invariant of the run, words up to four symbols;
  `CombinedWordsAreAlwaysRight` the same for words of any length.

**`Automata_proofs`**, lemmas for the others.  The induction theorems of the
library take an operator as a parameter and cannot be used; what is needed is
derived from the order of the natural numbers, by taking the least number outside a set
(`SetInduction`).  A recursive function on numbers is given by its stages
(`RecursionExists`), and so is what a word reads.  `DistancesToFinal` says what
`distances_to_final` computes: zero on final states alone, at most one more along
a transition, and from each state with a way to a final one some transition
that gets closer.

**`AntichainInclusion_proofs`**, for automata of any size.  Assumed is that inputs
are pairs of automata whose initial, final states and moves lie among their
states (`InputsAssumption`), and that these and the symbols are numbers
(`NumbersAssumption`), as they are in the code.

* The abstract search, in any order.  The inductive invariant is `TypeOK /\
  SearchInv`: the kept pairs are an antichain; initial pairs and successors of
  processed pairs are covered unless still to be looked at; none is rejecting;
  all lie in every set that is closed under moves and holds the initial pairs.
  Coverage and reachability make it inductive, the first for the answer
  "included" and the second for "not included".  `SearchIsCorrect` takes as the closed
  set all pairs above a processed one (`AboveProcessed`).  Inclusion is defined by
  closed sets and not by words, so that no induction on words is needed here.
* The search of the code implements it (`LifoImplementsSearch`), step by step;
  `LifoIsCorrect` and `LifoKeepsAntichain` follow.  The invariant
  `LifoInv` adds what the vector does to the worklist (`WorklistInv`: each waiting pair
  once, in some order), what the moves in hand are (`TodoInv`), and that each entry of `paths`
  is that of an initial pair or names the pair and the symbol it was reached by (`PathsInv`).  That a refusal
  by distances is a refusal of the abstract search rests on `DistancesToFinal`.
* The counterexample (`CounterexampleIsRight`).  `WitnessInv` follows the call through its
  loops: what was collected on the way back is a run, reversed, that ends in the
  refused pair (`BackInv`); after the turn the bigger automaton reads the word to the
  set that was refused, and the shortest way on keeps it so (`ForwardInv`).
  The hypothesis `FreshRuns` is that the caller's `Run` is empty; section 5
  says what the code does otherwise.

**`Trim_proofs`**, for automata of any size; `InputsAssumption` says that they are
finite, that states are numbered from 0, and that the initial states are given in some order,
as a `SparseSet` gives them.

* `ReachedFrom` is the least closed set: its stages grow and settle by counting.
* `TarjanInv` says that `program_stack` holds initial states that wait and, above
  them, the path of the recursion (`Shape`).  `PathInv` and `MovesInv` relate the path
  to `tarjan_stack` and to the saved iterators; each state of the path reaches every open
  state seen after it, and each open state reaches one of the path not seen after it (`ReachInv`).
  A lowlink is the index of an open state that is reached, and not above the target of any
  move passed so far (`Leads`, `Covers`).  When a state is left with its own index
  as lowlink, what lies above it on `tarjan_stack` is a component (`ComponentIsStrong`).
* A return is the hard step, because it is not a step of its own: the parent reads the saved
  iterator again and takes over the lowlink of the child, which may be closed by
  then (`Returns`).  The mark that a final state is reached stops at the first state marked
  before, so the invariant says what is marked in the component of its source (`PassesOn`).
  `SearchIsAlwaysRight` has the components, their order, and that exactly the
  useful states are marked.
* `AnswerIsAlwaysRight`.  `AnswerInv` keeps for each component that was closed what the callbacks
  have found in it.  The definitions compared with speak of simple cycles: a component with a move inside
  has one through that move (its way back by distances), and if no state has two moves
  inside the component, two simple cycles through a state are the same.
* `TrimIsAlwaysRight`.  While `defragment` compacts `state_posts`, the positions written lie behind those read
  (`MovedDown`, `ToRead`), by counting staying states (`CountBelow`); the new numbers
  are one to one and keep the order; accepted words are the same, by an induction on their length.

**`Constructions_proofs`**, first part: `SyncIterators`, for any number of ordered vectors of any length, pushed
one by one.  `WalkInv` has `WalkTypes` and a part for each iterator.
* Universal (`UniversalInv`): what was passed in some vector and is in all of them is found
  (`PassedFound`), nothing found lies ahead but what the iterator stands on, and in the
  loops the positions before `i` stand on the first one's value.  With two vectors
  no vector can be skipped when the scan goes on; with more, the comparison of iterators of
  different vectors decides, and `InputsAssumption` says which places in memory make it right.
* Existential (`ExistentialInv`): the vectors left are those given at some indices
  `o`, the ones returned those at indices `c`, each index once, although the last vector
  takes the place of one that has ended.  During a scan those before `i` stand beyond the
  minimum, none stands before it, and `next_minimum` is the least of those seen or still the old
  minimum (`LeastSoFar`).  Between calls all values up to the last stop are found.
* `synchronize_with` (`SoughtInv`): a value sought next lies nowhere behind
  the iterator without having been found.

**`Constructions_proofs`**, second part: `NaiveInclusion`, for any finite automata whose states and
symbols are numbers (`JobsAssumption`; as `union_det_complete` asks, the arguments of a product by Or are
deterministic and complete, without epsilons).  `NaiveHolds` is inductive:
* `DetHolds` of the subset construction.  `subset_map` numbers its macrostates from 0 on, each number once
  (`Numbering`), and all of them are reached; the stack has numbers in ascending order, and a macrostate on it
  has no moves yet.  Every other macrostate has its moves but for the symbols left to the one being expanded
  (`MovesMade`, `LeftFor`).  So a construction that is ended by its callback is a part of the
  subset automaton, and a complete one has all of it.
* `ProductHolds`.  `inverted` and the storage are inverse to each other, so that a pair has one number
  (`StoredRight`); a number on the worklist is there once and without moves; a pair that was
  taken has its moves but for those that remain of the three passes (`IsExpanded`, `Remaining`); final numbers
  are those of final pairs.  The early returns leave nothing to be stored.
* `ChainFits` hands the language on from one construction to the next: what is determinized accepts what
  the bigger automaton accepts, reversed twice for Brzozowski; trimming keeps that; a deterministic automaton
  completed with the sink and swapped accepts just the other words (`FitsSink`, `Complements`).
* Epsilons of the product: a state of the product stands for the pair of what both arguments read
  (`StepsStandFor`, `ReadStandsFor`), where an epsilon moves one side and a symbol both, so the closures of the
  product are products of closures.

`ConstructionsAreAlwaysRight` states the invariant of the run; `LanguagesAreAlwaysRight` that the two
languages are right for words of any length, by an induction on what a word reads.

**`Hopcroft_proofs`**, for automata of any size that are what the code asserts
(`DfasAssumption`: trimmed, deterministic, one initial state).
* `HopcroftInv`: the six vectors of a partition stay permutations cut into non-empty sets
  (`IsPartition`), each stack holds the sets with marks, once, and the splitters are the
  transitions over a symbol into a block, except for the half being marked
  (`Follows`, `FollowsBut`, `HalfMarked`).
* `MinimizeInv`: two states of a block move into the same blocks, or a splitter on the stack
  or the marks that it has made tell them apart (`RefinementInv`).  This is the argument for
  the smaller half: when a splitter that was used is split, either
  half tells the same states apart, given that the whole told none.
* So the blocks are the coarsest stable partition (`BlocksAreCoarsest`), the quotient accepts
  the same words, and its states differ on words as long as there are states, by
  Moore's stages, which settle by counting (`MinimizationIsRight`).

**`Residual_proofs`**, for both algorithms on any finite automata whose states are numbers
(`JobsAssumption`); that they are reversed deterministic ones, as `reduce_residual`
hands them over, is not needed.  The inductive invariant is `ResidualInv`.
* `reduce_residual_with` (`WithHolds`).  No variable has the macrostate of a state that was removed, so the
  invariant says that there is an assignment `g` of macrostates to all states (`WithInv`).  A state in use is either in
  `subset_map` or the target just found, and can do what its macrostate can do, except for the moves that are
  still owed to it (`Built`, `Owed`): it is on the worklist or a symbol of the pair
  being expanded is still to be read.  A move to a macrostate is made to a set of states in use whose
  macrostates have it as union.  `KeptInv` says of states in use that the smaller ones are among
  their covers and do not yet have them as union; `CoveredInv`, of states that were removed, that they
  are the union of used ones among what is recorded for them; `NewInv` and `Erasing` follow the
  target through the comparison with the map, whatever its order.
* Removing a state and leading what led to it to its covers keeps all this (`RemoveKeepsBuilt`), and an automaton
  that is built and to which nothing is owed accepts the same words, by induction on their
  length (`CompleteKeepsLanguage`).
* `reduce_residual_after` (`AfterInv`).  The macrostates are
  collected; then the vector holds each once, the largest first (`VecRight`).  What is removed is the
  union of macrostates that stay, and nothing leads to it (`RemovedRight`).  A frame of the recursion is that of a
  macrostate that stays for now and is a union; its `covering` holds smaller ones, among them
  all that stay (`FramesRight`).  A visited macrostate that is a union is removed or in a frame (`VisitsRight`).
* That every macrostate that is no union of smaller ones stays, and no other one, does not depend on the
  order (`ResidualsStay`); `MacrostatesAreLeast` relates the stages of `Macrostates` to closed sets.
The invariant refuted the first form of `RemovedIsDead`, which had nothing lead to a removed state: the
jobs TLC had then were too small for the case, which `NestedFan` now is (section 5).

**`AutomatonObject_proofs`**, for any calls with numbers as states and symbols and finite sets
of targets (`CallsTyped`, which the run `objects` evaluates for its calls) and any number of them.
* From the bottom up: `lower_bound` finds what it should in an ordered vector, so `insert` and `erase` keep
  the order and change the set by one element (`InsertIs`, `EraseIs`); a state post keeps its symbols ordered
  and every post a target, and moves as it did but for the symbol that was replaced, inserted or erased
  (`PostReplaced`, `PostInserted`, `PostErased`); `add`, `remove` and `allocate` change the set of transitions
  as they say and the number of posts as far as needed (`AddIs`, `RemoveIs`, `AllocateIs`).
* What `unify_initial` and `unify_final` read while they write is right as well: the iterator over the moves
  of a post passes each once (`WalkReads`, `AllMovesAre`), `get_transitions_to` lists
  all transitions to a state (`TransitionsToAre`), and the posts that are copied do not
  change before they are (`CopiedInitialIs`, `CopiedFinalIs`).
* The inductive invariant is `IsObject(nfa)`: ordered vectors with targets, and initial, final and target states below
  `num_of_states()`, which is the largest of three lengths.  Each call has a lemma that says what object it makes and
  one that it is a call of `AutomatonValue`, or `ClearKeepsDomains`; a word is spelled by induction on its length (`WithWordIs`).
* The theorems are `ObjectImplementsValue` (the refinement `ImplementsValue`, in which `clear` is the
  step `ClearKeepsDomains` and every other call one of `AutomatonValue`), `VectorsAlwaysInOrder`,
  `StatesAlwaysCoverUse` and `AddedStateIsNew`: the state that `add_state` returns is used by
  nothing, although `clear` leaves the domains of the sets as long as they were.

Model-checked only: all liveness, since the prover has no ENABLED, and with it `NaiveTestEndsRight`, which says of the
emptiness test at the end of the chain that its answer and run are right; `QueriesAgree`, of whose
parts the theorems need only the iterator over moves and the transitions to a state; what depends on
`Reductions` and the operators of transducers, which are recursive
operators; the invariants of the components not named above.

## 7. Not modelled

See `components` in PROJECT.json for each part.

* Vendored libraries (simlib, cudd, re2) and the Python bindings.  What simlib
  computes is taken to be the greatest simulation.
* Mintermization, alphabets, parsers: BDDs, names and text; planned below.
* Random generation, printing and the choice of algorithms by strings have no
  behaviour to check.
* `SparseSet::operator==` compares left-over entries and is used by tests only.
* Replacement by transducers (`applications/strings/replace.cc`),
  `noodlify_for_transducer` and `get_words_of_lengths`.
* Transducers: `get_word_for_path`, `revert`, `minimize`, `concatenate` and what
  is inherited from `Nfa` unchanged.
* `decode_utf8`, the renaming variants that return maps only, and the switch of
  the two-dimensional map from a matrix to hash maps.

Hazards no property covers are listed with a note: the caller's `Run`, the end
of the symbols in `get_word_from_complement`, the static set of
`get_used_symbols_set`, and the addresses that mintermization keeps as keys.
Not in that list, but known: a reference into the Delta that `concatenate`
extends (`concatenation.cc:42`), valid as long as every target appended has a post, and the
deviations of section 5.

## 8. Plan

Done, in this order: SparseSet, inclusion, Tarjan and trim, synchronized
iterators, the naive chain, Hopcroft, residual reduction, concatenation, fast
composition, transducers, words and reductions, noodles, Delta and the Nfa
object.

Next, most important first:

1. Theorems: the answer of `EmptinessSearch`, as an invariant (the safety part
   of `NaiveTestEndsRight`); words of an automaton, once the searches of `Words`
   are recursive functions.
2. Mintermization with BDDs as sets of valuations; alphabets.
3. Replacement by transducers; the operator stack of the parser.
