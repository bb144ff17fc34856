------------------------------ MODULE DagEval ------------------------------
(***************************************************************************)
(* The arms of EvaluationContext::evaluate (default_revset_engine.rs)     *)
(* that compute their sets from the commit graph: VisibleHeads and Heads  *)
(* (through revset_for_commit_ids), Ancestors and Range (index walks),   *)
(* DagRange (an ascending sweep over the ancestors of the heads),        *)
(* Roots (the candidates with no parent in their connected closure) and   *)
(* Children (ChildrenRevset::iter over the descendants of the roots).     *)
(*                                                                         *)
(* The commit graph is any DAG over positions 0..N-1 whose parents have   *)
(* lower positions than their children, as the index guarantees; every    *)
(* commit is visible.  The index itself (walk_revs, heads) is outside this *)
(* file and is modelled from the specification.  Each evaluation is one   *)
(* step that records the vector it produces.                               *)
(***************************************************************************)
EXTENDS RevsetCommon, SequencesExt, TLC

VARIABLES parents,   \* parent_positions() of every entry
          roots,     \* the evaluated `roots` (or `candidates`) argument
          heads,     \* the evaluated `heads` argument of Range and DagRange
          out        \* the latest evaluation and the vector it produced

vars == <<parents, roots, heads, out>>

\* The index: every parent has a lower position than its child.
DAGs == {f \in [Positions -> SUBSET Positions] : \A p \in Positions : \A q \in f[p] : q < p}

\* AncOrSelf[c]: `c` and its ancestors, the reflexive-transitive closure of
\* the parent relation.
AncOrSelf[c \in Positions] == {c} \cup UNION {AncOrSelf[q] : q \in parents[c]}

Ancestors(S) == UNION {AncOrSelf[s] : s \in S}

\* An index walk, or an EagerRevset: the set in descending position.
Desc(S) == SetToSortSeq(S, >)

\* revset_for_commit_ids, from CommitIds.
CI == INSTANCE CommitIds WITH MaxIds <- 0, ids <- <<>>, out <- [built |-> FALSE]

\* Index::heads, modelled from the specification: the members of S with no
\* descendant in S, as a list in no particular order (ascending here).
IndexHeads(S) ==
  SetToSortSeq({c \in S : \A d \in S : c \in AncOrSelf[d] => d = c}, <)

\* Index::walk_revs(heads, roots) for the full generation range (the Range
\* arm): the ancestors of the heads that are not ancestors of the roots.
RangeWalk(R, H) == Desc(Ancestors(H) \ Ancestors(R))

\* The Ancestors arm: Range with roots none().
AncestorsOf(H) == RangeWalk({}, H)

\* The VisibleHeads arm: revset_for_commit_ids of the view's heads, here
\* the heads of the whole graph, every commit being visible.
VisibleHeads == CI!RevsetForCommitIds(IndexHeads(Positions))

\* The Heads arm: revset_for_commit_ids(index.heads(candidate ids)).
HeadsOf(X) == CI!RevsetForCommitIds(IndexHeads(X))

\* Mutant: the candidates swept in descending order, without the reversals.
DagRangeSweepNoRev(rootSet, candidates) ==
  LET step(acc, c) ==
        IF c \in acc.reachable \/ parents[c] \cap acc.reachable # {}
        THEN [reachable |-> acc.reachable \cup {c}, result |-> Append(acc.result, c)]
        ELSE acc
  IN  FoldLeft(step, [reachable |-> rootSet, result |-> <<>>], candidates).result

(***************************************************************************)
(* The loop of the DagRange arm: starting from the roots' positions, it   *)
(* visits the candidates in ascending position (`.rev()`) and keeps one   *)
(* that is reachable or has a reachable parent; then `result.reverse()`.  *)
(***************************************************************************)
DagRangeSweep(rootSet, candidates) ==
  LET step(acc, c) ==
        IF c \in acc.reachable \/ parents[c] \cap acc.reachable # {}
        THEN [reachable |-> acc.reachable \cup {c}, result |-> Append(acc.result, c)]
        ELSE acc
  IN  Reverse(FoldLeft(step, [reachable |-> rootSet, result |-> <<>>],
                       Reverse(candidates)).result)

\* RevsetExpression::DagRange: roots..heads, over the ancestors of heads.
DagRange(R, H) == DagRangeSweep(R, AncestorsOf(H))

\* Mutant: Roots filtered against the candidates, not their connected set.
RootsFilledFromCandidates(X) ==
  SelectSeq(Desc(X), LAMBDA c : parents[c] \cap X = {})

\* The Roots arm: `filled` is the connected closure x::x of the candidates.
RootsOf(X) ==
  LET filled == Elements(DagRange(X, X)) IN
  SelectSeq(Desc(X), LAMBDA c : parents[c] \cap filled = {})

\* roots.descendants(): roots..visible_heads().
Descendants(X) == DagRange(X, Elements(VisibleHeads))

\* Mutant: a child must have all its parents among the roots.
ChildrenAllParents(X) ==
  SelectSeq(Descendants(X),
            LAMBDA c : parents[c] # {} /\ parents[c] \subseteq X)

\* The Children arm and ChildrenRevset::iter: the descendants of the roots
\* that have a parent among the roots.
ChildrenOf(X) ==
  SelectSeq(Descendants(X), LAMBDA c : parents[c] \cap X # {})

Init ==
  /\ parents \in DAGs
  /\ roots \in SUBSET Positions
  /\ heads \in SUBSET Positions
  /\ out = [op |-> "none"]

EvalRange ==
  /\ out' = [op |-> "range", res |-> RangeWalk(roots, heads)]
  /\ UNCHANGED <<parents, roots, heads>>

EvalHeads ==
  /\ out' = [op |-> "heads", res |-> HeadsOf(roots)]
  /\ UNCHANGED <<parents, roots, heads>>

EvalDagRange ==
  /\ out' = [op |-> "dagrange", res |-> DagRange(roots, heads)]
  /\ UNCHANGED <<parents, roots, heads>>

EvalRoots ==
  /\ out' = [op |-> "roots", res |-> RootsOf(roots)]
  /\ UNCHANGED <<parents, roots, heads>>

EvalChildren ==
  /\ out' = [op |-> "children", res |-> ChildrenOf(roots)]
  /\ UNCHANGED <<parents, roots, heads>>

Next ==
  \/ EvalRange \/ EvalHeads \/ EvalDagRange \/ EvalRoots \/ EvalChildren

Spec == Init /\ [][Next]_vars

-----------------------------------------------------------------------------
\* References, by the ancestor relation alone.
DagRangeRef(R, H) == {c \in Ancestors(H) : AncOrSelf[c] \cap R # {}}
RootsRef(X)       == {c \in X : AncOrSelf[c] \cap X = {c}}
ChildrenRef(X)    == {c \in Positions : parents[c] \cap X # {}}

(***************************************************************************)
(* roots..heads is every ancestor of a head that descends from a root,    *)
(* roots included, in descending position (spec 4.7).  The single        *)
(* ascending sweep finds them only because every parent has a lower       *)
(* position than its child, so it is visited first.                       *)
(***************************************************************************)
DagRangeMatchesRef ==
  out.op = "dagrange" =>
    IsDescending(out.res) /\ Elements(out.res) = DagRangeRef(roots, heads)

(***************************************************************************)
(* roots(x) is the members of x with no ancestor in x, in descending      *)
(* position: testing only the parents suffices because they are tested    *)
(* against the connected closure x::x, not against x.                     *)
(***************************************************************************)
RootsMatchesRef ==
  out.op = "roots" =>
    IsDescending(out.res) /\ Elements(out.res) = RootsRef(roots)

(***************************************************************************)
(* children(x) is every commit with a parent in x, merges with a single   *)
(* parent in x included, in descending position.                          *)
(***************************************************************************)
ChildrenMatchesRef ==
  out.op = "children" =>
    IsDescending(out.res) /\ Elements(out.res) = ChildrenRef(roots)

=============================================================================
