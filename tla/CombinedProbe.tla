--------------------------- MODULE CombinedProbe ---------------------------
(***************************************************************************)
(* The predicate functions of the composed revsets (default_revset_       *)
(* engine.rs): FilterRevset ANDs the probe of its candidates with the     *)
(* probe of its predicate, UnionRevset ORs the probes of its two sets,    *)
(* DifferenceRevset combines them with and_not.  Each closure calls both  *)
(* child probes on every entry.  The children are any probes meeting the  *)
(* contract of ProbeContract (an EagerRevset, a walk, a composed revset)  *)
(* or, for a filter, a content predicate built by build_predicate_fn,     *)
(* which only ever answers from_boolean.  Since the children are          *)
(* arbitrary contract-conforming probes, a combined probe meeting the    *)
(* contract again covers revset trees of any depth.                       *)
(***************************************************************************)
EXTENDS RevsetCommon

VARIABLES kind,    \* the composed revset
          set1,    \* positions of the first child (candidates, set1)
          set2,    \* positions of the second child (predicate, set2)
          last,    \* position of the latest call
          answer   \* answer of the latest call

vars == <<kind, set1, set2, last, answer>>

\* The set the composed revset stands for.
Denotation ==
  CASE kind \in {Intersection, Filter} -> set1 \cap set2
    [] kind = Union                    -> set1 \cup set2
    [] kind = Difference               -> set1 \ set2

PC == INSTANCE ProbeContract WITH members <- Denotation

\* The answers the second child may give: a content predicate only
\* from_boolean, a revset any answer its contract allows.
Child2Answers(p) ==
  IF kind = Filter THEN {FromBoolean(p \in set2)}
                   ELSE Allowed(set2, p)

\* The closure of FilterRevset::to_predicate_fn: p1(entry).and(p2(entry)).
FilterPredicate(a1, a2) == And(a1, a2)

\* The closure of UnionRevset::to_predicate_fn: p1(entry).or(p2(entry)).
UnionPredicate(a1, a2) == Or(a1, a2)

\* The closure of DifferenceRevset::to_predicate_fn:
\* p1(entry).and_not(p2(entry)).
DifferencePredicate(a1, a2) == AndNot(a1, a2)

\* Which closure a call runs: evaluate builds a FilterRevset for an
\* intersection (and a filter), a UnionRevset for a union and a
\* DifferenceRevset for a difference.
Combine(a1, a2) ==
  CASE kind \in {Intersection, Filter} -> FilterPredicate(a1, a2)
    [] kind = Union                    -> UnionPredicate(a1, a2)
    [] kind = Difference               -> DifferencePredicate(a1, a2)

Init ==
  /\ kind \in Kinds
  /\ set1 \in SUBSET Positions
  /\ set2 \in SUBSET Positions
  /\ last = NoCall
  /\ answer = NoAnswer

\* One call of the combined closure at position p: both children are
\* called at p, then their answers are combined.
CombinedCall(p) ==
  /\ p < last
  /\ \E a1 \in Allowed(set1, p), a2 \in Child2Answers(p) :
        answer' = Combine(a1, a2)
  /\ last' = p
  /\ UNCHANGED <<kind, set1, set2>>

Next == \E p \in Positions : CombinedCall(p)

Spec == Init /\ [][Next]_vars

-----------------------------------------------------------------------------
TypeOK ==
  /\ kind \in Kinds
  /\ set1 \subseteq Positions /\ set2 \subseteq Positions
  /\ last \in Positions \cup {NoCall}
  /\ answer \in PredicateMatchValues \cup {NoAnswer}

(***************************************************************************)
(* Whatever contract-conforming answers its children give, the combined   *)
(* probe of a FilterRevset, UnionRevset or DifferenceRevset meets the     *)
(* contract for the set it stands for: it implements ProbeContract with   *)
(* members the intersection, union or difference.  This is what lets      *)
(* FilterRevsetIterator stop at the first NeverAgain of any nested probe.  *)
(***************************************************************************)
ImplementsProbeContract == PC!Spec

=============================================================================
