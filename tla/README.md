# Formal models of the default revset engine

This directory holds TLA+ models of the revset engine in
`src/lib/src/default_revset_engine.rs`, TLC configurations that check them on
small instances, and TLAPS proofs of the main properties for every instance.
It also models `op undo` and `op restore` from `src/src/commands/operation.rs`,
with the commands of several processes interleaving over the operation log.

## The system

The engine turns a resolved revset expression into a tree of *internal sets*.
Each set has two faces.

* `iter()` yields index entries in strictly descending index position.
* `to_predicate_fn()` returns a stateful probe. The probe is called at
  descending positions and answers a tri-state `PredicateMatch`:
  - `Match`: this entry is in the set;
  - `NotThisOne`: this entry is not, but a lower one may be;
  - `NeverAgain`: neither this entry nor any lower one is.

The sets and how their two faces work:

* **Leaf sets** (`EagerRevset`, `RevWalkRevset`, `ChildrenRevset`) answer
  probes with `predicate_fn_from_iter`. It is a peekable iterator that skips
  entries above the probed position and consumes the entry it matches.
* **Composed sets** (`FilterRevset`, `UnionRevset`, `DifferenceRevset`):
  - their iterators merge their children's streams;
  - their probes combine the children's answers with `and`, `or` and
    `and_not`;
  - a filter's iterator runs the predicate's probe over its candidates and
    stops at the first `NeverAgain`.
* **Compiler** (`EvaluationContext::evaluate`) builds the tree. It computes a
  few sets eagerly: `DagRange`, `Roots`, `Heads`, `take_latest_revset` and
  `revset_for_commit_ids`.
* **Facade** (`RevsetImpl`) exposes the top set. Its `change_id_index` builds
  an `IdIndex` from the set's (change id, position) pairs. The `IdIndex`
  answers hex-prefix lookups and shortest-unique-prefix queries.

The parts interact through these contracts:

* Every iterator must yield strictly descending positions.
* Every probe must be called at strictly descending positions, and must answer
  what its set allows.
* Composition relies on both contracts holding for the children.

The operation commands sit on top of the repository:

* A command loads the repo at the single op head. It works in a transaction
  based on that operation, and `tx.finish` commits the transaction as a new
  operation whose parent is that base.
* Another process may commit in between. The op heads then diverge, and the
  next load merges them into a merge operation.
* `op undo` refuses a merge operation and the root operation. Otherwise it
  merges into its transaction the change from the bad operation back to its
  parent.
* `op restore` sets the transaction's view to the target operation's view.

## Modules

| Module | Models | State and actions |
|---|---|---|
| `PredicateMatch` | `PredicateMatch::{from_boolean, and, or, and_not}` | Operators. Each one follows its Rust `match`, arm by arm, as IF/ELSE IF. |
| `RevsetCommon` | Shared definitions | Positions `0..N-1`, descending sequences, the set kinds. Defines `Allowed(S, p)`, the answers a probe of set S may give at p. |
| `ProbeContract` | The `ToPredicateFn` contract, as an abstract specification | `members`, `last`, `answer`. `Call(p)`: p is below the last call, and the answer is in `Allowed(members, p)`. |
| `IterProbe` | `predicate_fn_from_iter` over an `EagerRevset` vector | `index_entries` (the vector), `cursor` (how much of it the iterator has consumed), `last`, `answer`. `PredicateFnCall(p)` is one whole call of the closure: the skip loop (`SkipAbove`), then the three arms of the peek. |
| `CombinedProbe` | `to_predicate_fn` of Filter, Union and Difference | Assume-guarantee: each child is any probe meeting `ProbeContract` (a `PurePredicateFn` answers `from_boolean`). `CombinedCall(p)` asks both children and combines their answers with the closure of the kind: `FilterPredicate` (`and`), `UnionPredicate` (`or`) or `DifferencePredicate` (`and_not`). `Combine` picks it as `evaluate` picks the revset. |
| `RevsetIterators` | `FilterRevsetIterator`, `UnionRevsetIterator`, `DifferenceRevsetIterator` `next()` | Children are any strictly descending sequences (`iter1`, `iter2`). Union's `next()` is one step. The loops of Difference and Filter take one step per iteration (`pc` = `"loop"`). `out` records what `next()` returned, and `ended` whether it returned `None`. |
| `LatestK` | `take_latest_revset` | The candidate vector, the committer timestamps (any function into a small set, so that ties occur), `count`, the heap as the set of its items, a phase, the result. Actions: `ReturnEmpty` (count 0), `FillHeap`, `ScanItem` (one loop iteration: `peek_mut().unwrap()`, replace if later), `Finish` (the assertion and the sort). |
| `LatestKProofs` | Proofs about `take_latest_revset` | The inductive invariant `IInv` and the proofs of `NeverPanics` and `LatestIsTopK`. `MCLatestKIInv` instantiates it for TLC. |
| `IdIndex` | `IdIndex` and `ChangeIdIndexImpl` | Keys are sequences of `KeyLen` hex digits from a small digit set. `FromVec` sorts by key with equal keys in any order, because `sort_unstable_by` is unstable. `ResolvePrefix` and `ShortestLen` are the two queries. `HexPrefix` and `common_hex_len` live outside `src/` and are modelled from the specification. |
| `DagEval` | The graph arms of `EvaluationContext::evaluate`: `Children` (with `ChildrenRevset::iter`), `Ancestors`, `Range`, `DagRange`, `VisibleHeads`, `Heads`, `Roots` | `parents` is any DAG over `0..N-1` whose parents sit below their children, as the index guarantees. `roots` and `heads` are the evaluated arguments. `out` is the last evaluation and its vector. One action per arm. `DagRangeSweep` is the ascending loop with its `reachable` set, followed by `result.reverse()`. `RootsOf` filters against the connected closure. The index walks (`walk_revs`, `heads`) and `descendants()` are outside `src/` and are modelled from the specification. |
| `CommitIds` | `revset_for_commit_ids` and the `Commits` arm | `ids` is any list of positions with repeats. `Eval` sorts by descending position and then runs `Dedup`, a fold that drops an element equal to the last one kept, as `Vec::dedup` does. `DagEval` uses it through `INSTANCE`. |
| `OpLog` | `cmd_op_undo`, `cmd_op_restore`, `cmd_operation` | `ops` is the log, each entry holding its parents, its view (a set of items) and its description. `opHeads` is the op heads store. `tx` holds each process's open transaction, and `out` how its last command ended. `CmdOpUndo` has the two refusals and the merge of views. `Finish` is `tx.finish`. `ResolveOpHeads` merges two of the heads over their latest common ancestor and replaces them by the merge operation; several heads are merged pairwise, one merge operation each. `StartOtherCommand` is any other command's transaction. |
| `IterProbeProofs` | Proofs about `IterProbe` | See below. |
| `CombinedProbeProofs` | Proofs about `CombinedProbe` | See below. |
| `RevsetIteratorsProofs` | Proofs about `RevsetIterators` | See below. |
| `OpLogProofs` | Proofs about `OpLog` | See below. |
| `MC*` | Model-checking instances | They fix the constants for TLC. |

Each detailed specification is checked against an abstract one, or against a
reference definition:

* `IterProbe` and `CombinedProbe` instantiate `ProbeContract`
  (`PC == INSTANCE ProbeContract WITH members <- ...`). They are checked to
  implement it (`ImplementsProbeContract == PC!Spec`). Every concrete probe is
  therefore a refinement of the same contract. That contract is exactly what
  the composition in `CombinedProbe` and `RevsetIterators` assumes of a child.
* `LatestK` and `IdIndex` are compared with reference definitions that need
  no heap and no binary search: `LatestRef`, `ResolveRef` and `ShortestRef`.
* `DagEval` compares `DagRange`, `Roots` and `Children` with definitions by
  the ancestor relation alone: `DagRangeRef`, `RootsRef`, `ChildrenRef`.
  `CommitIds` compares its result with "the same commits, strictly
  descending".

`OpLog` runs the commands of two processes as separate steps: start a
transaction, then `Finish`. This split is where another process can commit
in between. A process that never finishes stands for a command that was
killed before `tx.finish`, which leaves the log unchanged.

## Runs

| Run | Checks | What it shows |
|---|---|---|
| `iter_probe` | `ProbeSound` | For a caller at strictly descending positions, every answer of `predicate_fn_from_iter` is allowed by its vector. |
| `iter_probe_refinement` | `ImplementsProbeContract` | The same probe implements `ProbeContract`. |
| `iter_probe_repeat` (violation) | `ProbeSound` | A caller that repeats a position gets `NeverAgain` for a member. See the finding below. |
| `combined_probe` | `ImplementsProbeContract` | `and`, `or` and `and_not` of contract probes are contract probes of intersection, union and difference. In particular, `and_not` must not pass on the subtrahend's `NeverAgain`. |
| `revset_iterators` | `OutputOrdered`, `CompleteOnNone` | The three composed iterators yield members only, in strictly descending order and so without duplicates. Once they return `None`, they have yielded every member, even when the filter stops early on `NeverAgain`. |
| `latest_k` | `LatestIsTopK`, `NeverPanics` | The result is the `count` greatest candidates by (timestamp, position), in descending position. Neither the `unwrap` nor the assertion fires, for `count` = 0 included. |
| `latest_k_iinv` | `IInv` | The inductive invariant of the `LatestK` proofs holds in every reachable state, so it is not stronger than the code. |
| `id_index` | `ResolveMatchesRef`, `ShortestMatchesRef` | Both queries agree with the reference definitions. This holds for every order `from_vec` may leave equal keys in, for odd-length prefixes, and for keys absent from the index. |
| `dag_eval` | `DagRangeMatchesRef`, `RootsMatchesRef`, `ChildrenMatchesRef` | `DagRange`, `Roots` and `Children` give exactly their reference sets. The single ascending sweep is enough because parents come first. `Roots` is right because it tests against `x::x`. `Children` keeps a merge with one parent among the roots. |
| `commit_ids` | `CommitsMatchesRef` | Sorting and then `dedup` (which removes only adjacent copies) gives the strictly descending vector of the same commits, for any list with repeats. |
| `op_log` | `TypeOK`, `UndoneAtHead` | With interleaved commands, diverged op heads and merge operations: take any undo `u` of an operation `b` that an op head `h` descends from, and any item `x` that `b` changed. If no operation other than `u` between `b` and `h` changed `x`, then `x` is at `h` as it was before `b`. The undo's effect is thus neither lost to a concurrent commit merged later nor turned round: `cmd_op_undo` merges `(head, bad, parent)` in that order. `TypeOK` adds that the op heads store is never empty and that open transactions are based on operations of the log. |
| `revset_iterators_live` | `Drains` | Under weak fairness, a composed iterator eventually returns `None`. |

Every property of a passing run has a mutant in `PROJECT.json`. A mutant is a
plausible bug in the mapped code, for example:

* a `>=` in the skip loop;
* swapped arms in a `match`;
* a propagating `and_not`;
* a dropped tie-breaker or a dropped `count == 0` return;
* the heap scan's comparison turned round;
* `<=` in the binary search;
* the views of the undo's merge passed in the wrong order;
* a right neighbour that does not skip copies of the key.

TLC finds the property violated under each mutant.

**Bounds.** They are chosen so that every case of each operation occurs.

* `N = 5` positions for `IterProbe`. This gives vectors of every length up to
  5 and every caller sequence: exhaustion, a probe between entries, and
  probes above the first entry.
* `N = 3` for `CombinedProbe`. It has every pair of child sets and every
  allowed answer pair.
* `N = 4` for `RevsetIterators`. It has every pair of descending children:
  equal heads, one child empty, interleaved.
* `LatestK`: 4 positions, 2 timestamps (so ties happen), and `count` up to 3.
  This gives fewer, as many and more candidates than `count`. The
  `latest_k_iinv` run takes 5 positions, 3 timestamps and `count` up to 5
  (151,632 states).
* `DagEval`: `N = 4`. All 64 DAGs over 4 positions, with every roots and
  heads set. This includes merges, diamonds, disconnected parts, and roots
  that reach each other only through a commit outside the set.
* `CommitIds`: `N = 4` and lists of up to 4 ids, so repeats occur both
  adjacent and apart.
* `OpLog`: 2 items, 2 processes, at most 5 operations, with symmetry on
  items and processes. Five operations is enough for two concurrent commits,
  the merge operation, and an undo of one of them or of the merge. With
  three processes the run does not finish within the time budget; the
  proofs below cover every process set, and three heads at once are why
  `ResolveOpHeads` merges pairwise.
* `IdIndex`: digits {0,1,2}, two-digit keys (one byte) and up to 3 entries.
  This gives duplicate keys, keys sharing their first digit, an odd-length
  prefix (padded to its minimum byte), the empty prefix, and keys absent from
  the index. Every key has the same length, as the commit ids or the change
  ids of one index do. So a key that is a proper prefix of another key
  (an exact match followed by longer matches) does not occur, and the model
  does not check it.

**Deadlock** is not checked in the probe runs and in `latest_k`. A caller may
stop probing at any time. After a probe at position 0 no lower position
exists. `take_latest_revset` returns, so its done state is final.
`op_log` does not check deadlock either: once the log holds `MaxOps`
operations, no command can finish. `revset_iterators`, `id_index`, `dag_eval`
and `commit_ids` check deadlock, because `next()`, the queries and the
evaluations can always be run again.

**Fairness.** Only `revset_iterators_live` assumes fairness:
`LiveSpec == Spec /\ WF_vars(Next)`. The iterators are sequential code
driven by their caller. The engine's own callers (`collect_vec`, the `iter()`
of a parent set) keep calling `next()` until it returns `None`. Weak fairness
of the one-step loop body is what such a caller provides. Under it, `Drains`
(`<>ended`) says `next()` does return `None` in the end. Every loop pass
advances a child, so the loop cannot spin. The other runs check safety
properties and assume no fairness.

## Finding

`iter_probe_repeat` disagrees with the specification.

* **What the specification says.** §3 says a probe "must be tolerant of
  repeated or skipped positions as long as they remain descending", and §5
  says calls are "monotonically non-increasing".
* **What the code does.** On `Match`, `predicate_fn_from_iter` consumes the
  entry (`iter.next()`, line 305). A second call at the same position
  therefore finds the next lower entry or nothing, and answers `NotThisOne` or
  `NeverAgain` for a member. TLC's trace: vector ⟨4,3,2,1,0⟩, probe 0 → `Match`,
  probe 0 again → `NeverAgain`.
* **Impact.** No caller in the engine repeats a position: the iterators probe
  each candidate once, in strictly descending order. The stricter reading, in
  §4.3 ("requires calls in strictly descending position order"), is the one
  the code meets. It is the one the passing runs and the theorems assume
  (`CallerMayRepeat = FALSE`).

## Proofs (`IterProbeProofs`, checked by `tlapm`)

Two theorems are proved for every `N \in Nat`. Their only assumptions are
the named `ASSUME`s of `RevsetCommon` and `IterProbe`.

* `ProbeSoundness`: `~CallerMayRepeat => (Spec => []ProbeSound)`.
* `RefinesProbeContract`: `~CallerMayRepeat => (Spec => ImplementsProbeContract)`.
  Initial states map to `PC!Init`. Every call maps to a `PC!Call` at the same
  position, and a stutter maps to a stutter.

`ProbeSound` is not inductive by itself. The next answer is read off the
iterator, so the proof must know what the iterator has already passed. The
strengthening is

    IInv == TypeOK /\ CursorSplit /\ ProbeSound

where `CursorSplit` says the cursor splits the vector at the last probed
position: consumed entries are `>= last`, remaining ones are `< last`. The
proof shows `Init => IInv` and `IInv /\ [Next]_vars => IInv'`, with one case
per arm of the peek. It rests on these lemmas:

* `SkipAboveSpec`: what the skip loop returns. Its proof uses the least
  element of a set of naturals, `NatHasMin` via `WFMin`.
* `DescSeqsType`.
* `CallCases`: the three outcomes of a call, as separate facts.

`IsDescending` is stated pairwise, so that no proof needs induction over the
sequence.

## Proofs (`OpLogProofs`, checked by `tlapm`)

`TypeCorrect`: `Spec => []TypeOK`. It holds for every finite item set, every
process set and every bound `MaxOps \in Nat \ {0}`, which are the
assumptions of `OpLogAssumption`. `TypeOK` says in particular that the op
heads store is never empty and names operations of the log, and that every
open transaction is based on an operation of the log. This is what
`HeadOp` (`op_heads[0]` after the load) and `Finish` rely on.

`TypeOK` is not inductive by itself: the store could only be shown non-empty
if the proof knew that `Finish` and `ResolveOpHeads` add an operation for
each one they remove. The strengthening `IInv` adds:

* `OpHeadsAreLeaves`: the store is exactly the set of operations that no
  operation has as a parent. A log always has a leaf, so the store is not
  empty;
* `ParentsBefore`: every parent of an operation has a lower id. So a new
  operation has no child, and appending it gives children exactly to its
  parents, which `Finish` and `ResolveOpHeads` remove from the store
  (`AppendStep`, proved once for both actions);
* `OpUndoOK` and `TxOK`: what every undo operation and every open undo
  transaction hold (an earlier single-parent operation undone over the view
  of its base). They carry the ids an undo names.

The proof shows `Init => IInv` and `IInv /\ [Next]_vars => IInv'`, with one
lemma per action (`FinishKeeps`, `ResolveKeeps`, `StartOtherKeeps`,
`RestoreKeeps`, `UndoKeeps`). `OutOK`, inductive on its own, types `out`, and
`IInvType` gives `TypeOK`. `IInv` was checked by TLC as an invariant of a run
(2 items, 2 processes, 4 operations, about 295,000 states) before it was
proved.

`UndoneAtHead` is checked by TLC only. It speaks of every path from an undone
operation to a head (`OpAncestors`, a recursive closure), and its proof
would need induction over the log.

## Proofs (`CombinedProbeProofs`, checked by `tlapm`)

`RefinesProbeContract`: `Spec => ImplementsProbeContract`, for every `N`.
It rests on the lemma `TypeCorrect` (`Spec => []TypeOK`).

The heart is `CombineAllowed`. For each kind, combining answers that the
children's sets allow gives an answer that the composed set allows. It rests
on one lemma per combinator: `AndAllowed`, `OrAllowed`, `AndNotAllowed` and
`FromBooleanAllowed`. `AndNotAllowed` is where `and_not` must not pass on the
subtrahend's `NeverAgain`. No strengthening is needed beyond `TypeOK`: the
combined probe has no state of its own but the last call. Initial states map
to `PC!Init` (`InitRefines`). Every call maps to a `PC!Call` at the same
position, and a stutter to a stutter (`StepRefines`).

## Proofs (`RevsetIteratorsProofs`, checked by `tlapm`)

* `OrderedCorrect`: `Spec => []OutputOrdered`.
* `CompleteCorrect`: `Spec => []CompleteOnNone`.

Both hold for every `N`, every kind and all strictly descending children.
Neither property is inductive. Whether the next output is below the last
one, and whether `None` comes only after every member, depend on what the
children have left. The strengthening `IInv` adds these conjuncts:

* the children are descending sequences of positions, and subsets of their
  sets;
* `Above`: every output is above everything the children have left
  (`Remaining`: both children for a union, the first one otherwise);
* `Pending`: every member not yet output is still in `Remaining`;
* `Skipped`: for a difference, what the second child has already passed is
  above everything left in the first. So a member dropped from the second
  child can no longer hide an element of the first.

`Frame` collects what every step keeps. `YieldKeeps`, `SkipKeeps` and
`NoneKeeps` give the three ways a step ends: it outputs a member, drops a
non-member, or returns `None` with no member left. `UnionKeeps`,
`DifferenceKeeps` and `FilterKeeps` split each `next()` into these cases.
The `FilterKeeps` cases are the three answers of the probe. The sequence
lemmas (`HeadTail`, `AppendBelow`) use the pairwise `IsDescending`, so no
induction is needed. `IInv` was checked by TLC at `N = 4` before it was
proved.

## Proofs (`LatestKProofs`, checked by `tlapm`)

* `NoPanicCorrect`: `Spec => []NeverPanics`.
* `TopKCorrect`: `Spec => []LatestIsTopK`.

Both hold for every `N`, every set of natural timestamps (`LatestAssumption`)
and every bound on `count`. Neither is inductive. The `unwrap` of
`peek_mut()` is safe only because the heap still holds `count` items when a
candidate is left. The result is right only because of what the scan kept.
The strengthening `IInv` adds:

* `Suffix`: `cands` is what is left of the candidate vector after
  `Consumed` of them. `Seen` is the candidates consumed so far;
* during the scan, `count >= 1`, and `Consumed >= count` while candidates
  remain (so the fill took `count` of them);
* `HeapOK`, during and after the scan: each heap item is the item of its
  position, the positions are seen candidates, the heap has
  `min(count, Consumed)` items, and every seen candidate left out is earlier
  by (timestamp, position) than every kept item;
* when done, the result is a descending listing of the heap's positions
  (or empty for `count = 0`).

The argument:

* `FillKeeps`: the fill takes the first `min(count, n)` candidates. They are
  distinct, so the heap has that many items (`SeqCard`).
* `ScanKeeps`: the heap has `count >= 1` items, so it is not empty and
  `peek_mut()` finds its earliest `e`. If the new item is later, it
  replaces `e`. `e` then joins the left-out candidates, which are below
  every kept item (`SwapOrder`). Otherwise the new candidate is itself left
  out, and is below `e` and so below every item (`KeepOrder`). Both rest
  on `ItemOrder`: the derived order is strict and total on distinct
  positions.
* `FinishKeeps`: the assertion holds because the heap has
  `min(count, Consumed)` items. Some descending sequence lists any set of
  positions (`SortExists`). This is proved from its least counterexample
  (`NatHasMin`), not by induction, so the `CHOOSE` of `SortDescending` is
  defined.
* `IInvTopK`: at the end `Seen` is every candidate. A kept candidate is beaten
  only by other kept ones, so by fewer than `count`. A left-out one is beaten
  by every kept one. If fewer than `count` are kept, every candidate is kept
  (`FS_Subset`).

`IInv` is checked by TLC on the `latest_k_iinv` run.

**What stays with TLC:**

* the `IdIndex`, `DagEval` and `CommitIds` properties. These modules use
  `SequencesExt` folds and sorts, which are recursive, and the provers lose
  their SMT backend in such modules;
* `Drains` and any other liveness property, and `ENABLED`;
* anything about a recursive definition for every input. Induction over data
  is out of the provers' reach: the library's induction rules take an operator
  parameter that the installed backends cannot instantiate.

## Not modelled, and the plan

* **`build_predicate_fn`**: the file and description matchers are pure
  predicates over the store. They enter the models only as `from_boolean`
  probes.
* **The Filter, Union, Difference and Intersection arms of `evaluate`** are
  modelled only as the choice of composed revset (`Combine` in
  `CombinedProbe`, `kind` in `RevsetIterators`); the composed sets themselves
  are what those modules model.
* **Generation bounds of `Range`/`Ancestors`** other than the full range
  (`filter_by_generation`, outside `src/`).
* **The `RevsetImpl` facade**: thin wrappers from entries to commit ids.
  `change_id_index` is covered by `IdIndex`.
* **`op log`** (`cmd_op_log`): it only formats the log.
* **The CLI tests** in `src/tests` drive the binary and have no engine state
  to model.
