---------------------------- MODULE RevsetCommon ----------------------------
(***************************************************************************)
(* Index positions and the descending sequences of them that every         *)
(* InternalRevset iterates (default_revset_engine.rs: "All revsets        *)
(* currently iterate in order of descending index position").  An         *)
(* IndexEntry is abstracted to its position, which identifies it.         *)
(***************************************************************************)
EXTENDS Naturals, Sequences, PredicateMatch

CONSTANT N            \* the index holds positions 0 .. N-1
ASSUME NAssumption == N \in Nat

Positions == 0 .. N - 1
NoAnswer  == "NoAnswer"        \* no call made yet
NoCall    == N                 \* above every position: no call made yet

IsDescending(s) == \A i, k \in 1 .. Len(s) : i < k => s[i] > s[k]

\* Every strictly descending sequence of positions.
DescSeqs == UNION { {s \in [1 .. k -> Positions] : IsDescending(s)} : k \in 0 .. N }

Elements(s) == {s[i] : i \in 1 .. Len(s)}

\* Which composed revset a probe or an iterator belongs to.
Intersection == "Intersection"   \* FilterRevset whose predicate is a revset
Filter       == "Filter"         \* FilterRevset with a PurePredicateFn
Union        == "Union"          \* UnionRevset
Difference   == "Difference"     \* DifferenceRevset
Kinds == {Intersection, Filter, Union, Difference}

(***************************************************************************)
(* The answers allowed at position p for the set Members: Match exactly   *)
(* on members, NeverAgain only when no member is at p or below.           *)
(***************************************************************************)
Allowed(Members, p) ==
  IF p \in Members
    THEN {Match}
    ELSE {NotThisOne} \cup
         (IF \A q \in Members : q > p THEN {NeverAgain} ELSE {})

=============================================================================
