------------------------ MODULE CombinedProbeProofs ------------------------
(***************************************************************************)
(* Proofs about CombinedProbe: for every N, the probes of FilterRevset,    *)
(* UnionRevset and DifferenceRevset implement ProbeContract for the set   *)
(* they stand for, whatever contract-conforming answers their children    *)
(* give.  The heart is CombineAllowed: each combinator maps answers the    *)
(* children's sets allow to an answer the composed set allows.            *)
(***************************************************************************)
EXTENDS CombinedProbe, TLAPS

\* The answers of the first child, the second child and the combination.
LEMMA AndAllowed ==
  ASSUME NEW S1, NEW S2, NEW p,
         NEW a1 \in Allowed(S1, p), NEW a2 \in Allowed(S2, p)
  PROVE  And(a1, a2) \in Allowed(S1 \cap S2, p)
BY DEF And, Allowed, Match, NotThisOne, NeverAgain

LEMMA OrAllowed ==
  ASSUME NEW S1, NEW S2, NEW p,
         NEW a1 \in Allowed(S1, p), NEW a2 \in Allowed(S2, p)
  PROVE  Or(a1, a2) \in Allowed(S1 \cup S2, p)
BY DEF Or, Allowed, Match, NotThisOne, NeverAgain

\* and_not needs no NeverAgain from the subtrahend: a NeverAgain of S2 says
\* nothing of S1 below p, and and_not does not pass it on.
LEMMA AndNotAllowed ==
  ASSUME NEW S1, NEW S2, NEW p,
         NEW a1 \in Allowed(S1, p), NEW a2 \in Allowed(S2, p)
  PROVE  AndNot(a1, a2) \in Allowed(S1 \ S2, p)
BY DEF AndNot, Allowed, Match, NotThisOne, NeverAgain

\* from_boolean of a content predicate is an answer its set allows.
LEMMA FromBooleanAllowed ==
  ASSUME NEW S, NEW p
  PROVE  FromBoolean(p \in S) \in Allowed(S, p)
BY DEF FromBoolean, Allowed, Match, NotThisOne, NeverAgain

(***************************************************************************)
(* Whatever the kind, combining answers the children's contracts allow    *)
(* gives an answer the composed set's contract allows.                    *)
(***************************************************************************)
LEMMA CombineAllowed ==
  ASSUME kind \in Kinds, NEW p,
         NEW a1 \in Allowed(set1, p), NEW a2 \in Child2Answers(p)
  PROVE  Combine(a1, a2) \in Allowed(Denotation, p)
<1>1. a2 \in Allowed(set2, p)
  BY FromBooleanAllowed DEF Child2Answers
<1>2. CASE kind \in {Intersection, Filter}
  <2>1. Combine(a1, a2) = And(a1, a2) /\ Denotation = set1 \cap set2
    BY <1>2 DEF Combine, FilterPredicate, UnionPredicate, DifferencePredicate,
          Denotation, Intersection, Filter, Union, Difference
  <2>2. QED
    BY <1>1, <2>1, AndAllowed
<1>3. CASE kind = Union
  <2>1. Combine(a1, a2) = Or(a1, a2) /\ Denotation = set1 \cup set2
    BY <1>3 DEF Combine, FilterPredicate, UnionPredicate, DifferencePredicate,
          Denotation, Intersection, Filter, Union, Difference
  <2>2. QED
    BY <1>1, <2>1, OrAllowed
<1>4. CASE kind = Difference
  <2>1. Combine(a1, a2) = AndNot(a1, a2) /\ Denotation = set1 \ set2
    BY <1>4 DEF Combine, FilterPredicate, UnionPredicate, DifferencePredicate,
          Denotation, Intersection, Filter, Union, Difference
  <2>2. QED
    BY <1>1, <2>1, AndNotAllowed
<1>5. QED
  BY <1>2, <1>3, <1>4 DEF Kinds

-----------------------------------------------------------------------------
\* The type invariant: CombinedCall keeps kind and the sets, and answers
\* with one of the three values.
LEMMA CombineType ==
  ASSUME kind \in Kinds, NEW a1 \in PredicateMatchValues, NEW a2 \in PredicateMatchValues
  PROVE  Combine(a1, a2) \in PredicateMatchValues
BY DEF Combine, FilterPredicate, UnionPredicate, DifferencePredicate,
       And, Or, AndNot, PredicateMatchValues, Kinds,
       Intersection, Filter, Union, Difference

LEMMA AllowedType ==
  ASSUME NEW S, NEW p
  PROVE  Allowed(S, p) \subseteq PredicateMatchValues
BY DEF Allowed, PredicateMatchValues

(***************************************************************************)
(* The combined probe's type: the kind and the child sets never change,    *)
(* the last call is a position or none, the answer one of the three.       *)
(***************************************************************************)
LEMMA TypeCorrect == Spec => []TypeOK
<1>1. Init => TypeOK
  BY DEF Init, TypeOK, NoCall, NoAnswer
<1>2. TypeOK /\ [Next]_vars => TypeOK'
  <2> SUFFICES ASSUME TypeOK, [Next]_vars PROVE TypeOK'
    OBVIOUS
  <2>1. ASSUME NEW p \in Positions, CombinedCall(p) PROVE TypeOK'
    <3>1. PICK a1 \in Allowed(set1, p), a2 \in Child2Answers(p) :
                 answer' = Combine(a1, a2)
      BY <2>1 DEF CombinedCall
    <3>2. a2 \in PredicateMatchValues
      BY AllowedType DEF Child2Answers, FromBoolean, PredicateMatchValues
    <3>3. answer' \in PredicateMatchValues
      BY <3>1, <3>2, AllowedType, CombineType DEF TypeOK
    <3>4. QED
      BY <2>1, <3>3 DEF CombinedCall, TypeOK
  <2>2. CASE UNCHANGED vars
    BY <2>2 DEF TypeOK, vars
  <2>3. QED
    BY <2>1, <2>2 DEF Next
<1>3. QED
  BY <1>1, <1>2, PTL DEF Spec

-----------------------------------------------------------------------------
\* Initial states map to initial states of the contract.
LEMMA InitRefines == Init => PC!Init
BY DEF Init, PC!Init, PC!NoCall, PC!NoAnswer, PC!Positions, Positions,
       Denotation, Kinds, NoCall, NoAnswer,
       Intersection, Filter, Union, Difference

\* Every call maps to a contract call at the same position, and a stutter
\* to a stutter: the set a combined probe stands for never changes.
LEMMA StepRefines == TypeOK /\ [Next]_vars => [PC!Next]_PC!vars
<1> SUFFICES ASSUME TypeOK, [Next]_vars PROVE [PC!Next]_PC!vars
  OBVIOUS
<1>1. Denotation' = Denotation
  BY DEF Next, CombinedCall, vars, Denotation
<1>2. CASE Next
  <2>1. PICK p \in Positions : CombinedCall(p)
    BY <1>2 DEF Next
  <2>2. p < last /\ last' = p
    BY <2>1 DEF CombinedCall
  <2>3. PICK a1 \in Allowed(set1, p), a2 \in Child2Answers(p) :
               answer' = Combine(a1, a2)
    BY <2>1 DEF CombinedCall
  <2>4. answer' \in Allowed(Denotation, p)
    BY <2>3, CombineAllowed DEF TypeOK
  <2>5. PC!Call(p)
    BY <1>1, <2>2, <2>4 DEF PC!Call, PC!Allowed, Allowed, PC!Match, PC!NotThisOne,
          PC!NeverAgain, Match, NotThisOne, NeverAgain
  <2>6. QED
    BY <2>5 DEF PC!Next, PC!Positions, Positions
<1>3. CASE UNCHANGED vars
  BY <1>1, <1>3 DEF vars, PC!vars
<1>4. QED
  BY <1>2, <1>3

(***************************************************************************)
(* For every N, the probe of a FilterRevset, UnionRevset or               *)
(* DifferenceRevset over contract-conforming children implements          *)
(* ProbeContract for the intersection, union or difference: the           *)
(* composition rule that lets revset trees of any depth be probed.        *)
(***************************************************************************)
THEOREM RefinesProbeContract == Spec => ImplementsProbeContract
<1>1. Spec => []TypeOK
  BY TypeCorrect
<1>2. TypeOK /\ [Next]_vars => [PC!Next]_PC!vars
  BY StepRefines
<1>3. QED
  BY <1>1, <1>2, InitRefines, PTL DEF Spec, PC!Spec, ImplementsProbeContract

=============================================================================
