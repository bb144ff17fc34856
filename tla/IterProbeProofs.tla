-------------------------- MODULE IterProbeProofs --------------------------
(***************************************************************************)
(* Proofs about the probe predicate_fn_from_iter of an EagerRevset        *)
(* (module IterProbe): its type, the soundness of every answer it gives   *)
(* to a caller that asks at strictly descending positions, and that it    *)
(* implements the abstract probe ProbeContract.                            *)
(***************************************************************************)
EXTENDS IterProbe, WellFoundedInduction, TLAPS

(***************************************************************************)
(* Every non-empty set of naturals has a least element; it is what makes  *)
(* the CHOOSE of SkipAbove well-defined.                                   *)
(***************************************************************************)
LEMMA NatHasMin ==
  ASSUME NEW T \in SUBSET Nat, T # {}
  PROVE  \E m \in T : \A k \in T : m <= k
<1>1. \E x \in T : \A y \in T : ~ (<<y, x>> \in OpToRel(<, Nat))
  BY WFMin, NatLessThanWellFounded
<1>2. PICK x \in T : \A y \in T : ~ (<<y, x>> \in OpToRel(<, Nat))
  BY <1>1
<1>3. \A y \in T : ~ (y < x)
  BY <1>2 DEF OpToRel
<1>4. QED
  BY <1>3

LEMMA DescSeqsType ==
  ASSUME NEW s \in DescSeqs
  PROVE  /\ s \in Seq(Positions)
         /\ IsDescending(s)
BY DEF DescSeqs

(***************************************************************************)
(* The skipping loop stops at an index j from the cursor on: every entry   *)
(* it passes lies above p, and the entry after j, if any, does not.       *)
(***************************************************************************)
LEMMA SkipAboveSpec ==
  ASSUME TypeOK, NEW p \in Positions
  PROVE  LET j == SkipAbove(p) IN
         /\ j \in cursor .. Len(index_entries)
         /\ \A i \in cursor + 1 .. j : index_entries[i] > p
         /\ j = Len(index_entries) \/ index_entries[j + 1] <= p
<1> DEFINE e == index_entries
           T == {k \in cursor .. Len(e) : k = Len(e) \/ e[k + 1] <= p}
<1>1. e \in Seq(Positions)
  BY DescSeqsType DEF TypeOK
<1>2. T \in SUBSET Nat /\ T # {}
  BY <1>1 DEF TypeOK, T
<1>3. PICK m \in T : \A k \in T : m <= k
  BY <1>2, NatHasMin
<1>4. \A i \in cursor + 1 .. m : e[i] > p
  <2> SUFFICES ASSUME NEW i \in cursor + 1 .. m PROVE e[i] > p
    OBVIOUS
  <2>1. cursor \in Nat /\ m \in Nat /\ i - 1 < m
    BY <1>1, <1>2 DEF TypeOK
  <2>2. i - 1 \notin T
    <3> SUFFICES ASSUME i - 1 \in T PROVE FALSE
      OBVIOUS
    <3>1. m <= i - 1
      BY <1>3
    <3>2. QED
      BY <3>1, <2>1
  <2>3. i - 1 \in cursor .. Len(e) /\ i - 1 # Len(e)
    BY <1>1, <2>1 DEF TypeOK, T
  <2>4. ~ (e[i] <= p)
    BY <2>2, <2>3 DEF T
  <2>5. e[i] \in Nat
    <3>1. i \in 1 .. Len(e)
      BY <2>1, <2>3 DEF TypeOK
    <3>2. e[i] \in Positions
      BY <1>1, <3>1
    <3>3. QED
      BY <3>2 DEF Positions
  <2>6. QED
    BY <2>4, <2>5, <1>1 DEF Positions
<1>5. QED
  BY <1>3, <1>4 DEF SkipAbove, T, e

-----------------------------------------------------------------------------
(***************************************************************************)
(* The three outcomes of one call of the closure, as separate facts.      *)
(***************************************************************************)
LEMMA CallCases ==
  ASSUME NEW p, PredicateFnCall(p)
  PROVE  /\ last' = p /\ index_entries' = index_entries
         /\ ~CallerMayRepeat => p < last
         /\ SkipAbove(p) = Len(index_entries) =>
              answer' = NeverAgain /\ cursor' = SkipAbove(p)
         /\ SkipAbove(p) < Len(index_entries) /\ index_entries[SkipAbove(p) + 1] = p =>
              answer' = Match /\ cursor' = SkipAbove(p) + 1
         /\ SkipAbove(p) < Len(index_entries) /\ index_entries[SkipAbove(p) + 1] # p =>
              answer' = NotThisOne /\ cursor' = SkipAbove(p)
<1> DEFINE j == SkipAbove(p)
<1> USE DEF j
<1>1. /\ p < last \/ (CallerMayRepeat /\ p = last)
      /\ last' = p /\ index_entries' = index_entries
      /\ \/ j = Len(index_entries) /\ answer' = NeverAgain /\ cursor' = j
         \/ j < Len(index_entries) /\ index_entries[j + 1] = p
            /\ answer' = Match /\ cursor' = j + 1
         \/ j < Len(index_entries) /\ index_entries[j + 1] # p
            /\ answer' = NotThisOne /\ cursor' = j
  BY Zenon DEF PredicateFnCall
<1>2. QED
  BY <1>1, RepeatAssumption

-----------------------------------------------------------------------------
(***************************************************************************)
(* Each step keeps the probe's state in its type, whatever the caller's  *)
(* discipline; the inductive invariant below builds on it.                *)
(***************************************************************************)
LEMMA TypeOKStep == TypeOK /\ [Next]_vars => TypeOK'
<1> SUFFICES ASSUME TypeOK, [Next]_vars PROVE TypeOK'
  OBVIOUS
<1>1. CASE Next
  <2>1. PICK p \in Positions : PredicateFnCall(p)
    BY <1>1 DEF Next
  <2>2. /\ SkipAbove(p) \in cursor .. Len(index_entries)
        /\ (SkipAbove(p) = Len(index_entries) \/ index_entries[SkipAbove(p) + 1] <= p)
    BY SkipAboveSpec
  <2>3. index_entries \in Seq(Positions)
    BY DescSeqsType DEF TypeOK
  <2>4. cursor' \in 0 .. Len(index_entries')
    BY <2>1, <2>2, <2>3, CallCases DEF TypeOK
  <2>5. answer' \in PredicateMatchValues
    BY <2>1, <2>2, <2>3, CallCases DEF PredicateMatchValues, TypeOK
  <2>6. QED
    BY <2>1, <2>4, <2>5, CallCases DEF TypeOK, NoCall
<1>2. CASE UNCHANGED vars
  BY <1>2 DEF vars, TypeOK
<1>3. QED
  BY <1>1, <1>2

-----------------------------------------------------------------------------
(***************************************************************************)
(* The inductive invariant behind ProbeSound.  The cursor splits the       *)
(* vector at the latest call: what the iterator has consumed lies at or    *)
(* above it, what it still holds lies below it.  Without this split the   *)
(* next answer, which is read off the iterator, says nothing about the    *)
(* entries the iterator has already passed.                               *)
(***************************************************************************)
CursorSplit ==
  /\ \A i \in 1 .. cursor : index_entries[i] >= last
  /\ \A i \in cursor + 1 .. Len(index_entries) : index_entries[i] < last

IInv == TypeOK /\ CursorSplit /\ ProbeSound

LEMMA InitIInv == Init => IInv
<1> SUFFICES ASSUME Init PROVE IInv
  OBVIOUS
<1>1. index_entries \in Seq(Positions)
  BY DescSeqsType DEF Init
<1>2. TypeOK
  BY <1>1 DEF Init, TypeOK, NoCall, Positions, PredicateMatchValues
<1>3. CursorSplit
  BY <1>1, NAssumption DEF Init, CursorSplit, NoCall, Positions
<1>4. ProbeSound
  BY DEF Init, ProbeSound
<1>5. QED
  BY <1>2, <1>3, <1>4 DEF IInv

(***************************************************************************)
(* One call at p < last keeps the split, now at p, and its answer is one   *)
(* the set allows at p.                                                    *)
(***************************************************************************)
LEMMA CallKeepsIInv ==
  ASSUME IInv, ~CallerMayRepeat, NEW p \in Positions, PredicateFnCall(p)
  PROVE  IInv'
<1> DEFINE e == index_entries
           L == Len(index_entries)
           j == SkipAbove(p)
<1> USE DEF e, L, j
<1>1. /\ e \in Seq(Positions) /\ IsDescending(e)
      /\ L \in Nat
      /\ \A i \in 1 .. L : e[i] \in Nat
  BY DescSeqsType, NAssumption DEF IInv, TypeOK, Positions
<1>2. /\ j \in cursor .. L
      /\ \A i \in cursor + 1 .. j : e[i] > p
      /\ j = L \/ e[j + 1] <= p
  BY SkipAboveSpec DEF IInv
<1>3. p < last /\ last' = p /\ index_entries' = e
  BY CallCases
<1>4. /\ \A i \in 1 .. cursor : e[i] >= last
      /\ cursor \in 0 .. L
  BY DEF IInv, CursorSplit, TypeOK
<1>5. j \in 0 .. L /\ p \in Nat /\ last \in Nat
  BY <1>1, <1>2, <1>4, NAssumption DEF IInv, TypeOK, Positions, NoCall
\* Every entry up to j lies above p; every entry after j + 1 below e[j + 1].
<1>6. \A i \in 1 .. j : e[i] > p
  <2> SUFFICES ASSUME NEW i \in 1 .. j PROVE e[i] > p
    OBVIOUS
  <2>1. CASE i <= cursor
    BY <2>1, <1>1, <1>3, <1>4, <1>5
  <2>2. CASE i > cursor
    BY <2>2, <1>2, <1>4, <1>5
  <2>3. QED
    BY <2>1, <2>2, <1>4, <1>5
<1>7. j < L => \A i \in j + 2 .. L : e[i] < e[j + 1]
  BY <1>1, <1>5 DEF IsDescending
<1>8. TypeOK'
  BY TypeOKStep DEF IInv, Next
<1>9. CASE j = L
  <2>1. answer' = NeverAgain /\ cursor' = L
    BY <1>9, CallCases
  <2>2. CursorSplit'
    BY <1>1, <1>3, <1>5, <1>6, <1>9, <2>1 DEF CursorSplit
  <2>3. \A q \in Members : q > p
    BY <1>6, <1>9 DEF Members, Elements
  <2>4. Members' = Members
    BY <1>3 DEF Members, Elements
  <2>5. p \notin Members
    BY <1>5, <2>3
  <2>6. NeverAgain \in Allowed(Members, p)
    BY <2>3, <2>5 DEF Allowed
  <2>7. ProbeSound'
    BY <1>3, <2>1, <2>4, <2>6 DEF ProbeSound
  <2>8. QED
    BY <1>8, <2>2, <2>7 DEF IInv
<1>10. CASE j < L /\ e[j + 1] = p
  <2>1. answer' = Match /\ cursor' = j + 1
    BY <1>10, CallCases
  <2>2. \A i \in j + 2 .. L : e[i] < p
    BY <1>7, <1>10
  <2>3. \A i \in 1 .. j + 1 : e[i] >= p
    <3> SUFFICES ASSUME NEW i \in 1 .. j + 1 PROVE e[i] >= p
      OBVIOUS
    <3>1. CASE i = j + 1
      BY <3>1, <1>5, <1>10
    <3>2. CASE i # j + 1
      BY <3>2, <1>1, <1>5, <1>6
    <3>3. QED
      BY <3>1, <3>2
  <2>9. CursorSplit'
    BY <1>1, <1>3, <1>5, <2>1, <2>2, <2>3 DEF CursorSplit
  <2>4. p \in Members
    BY <1>5, <1>10 DEF Members, Elements
  <2>5. Members' = Members
    BY <1>3 DEF Members, Elements
  <2>6. Match \in Allowed(Members, p)
    BY <2>4 DEF Allowed
  <2>7. ProbeSound'
    BY <1>3, <2>1, <2>5, <2>6 DEF ProbeSound
  <2>8. QED
    BY <1>8, <2>9, <2>7 DEF IInv
<1>11. CASE j < L /\ e[j + 1] # p
  <2>1. answer' = NotThisOne /\ cursor' = j
    BY <1>11, CallCases
  <2>2. e[j + 1] < p
    BY <1>1, <1>2, <1>5, <1>11
  <2>3. \A i \in j + 1 .. L : e[i] < p
    BY <1>1, <1>5, <1>7, <2>2
  <2>4. CursorSplit'
    BY <1>1, <1>3, <1>5, <1>6, <2>1, <2>3 DEF CursorSplit
  <2>5. p \notin Members
    BY <1>1, <1>5, <1>6, <2>3 DEF Members, Elements
  <2>6. Members' = Members
    BY <1>3 DEF Members, Elements
  <2>7. NotThisOne \in Allowed(Members, p)
    BY <2>5 DEF Allowed
  <2>8. ProbeSound'
    BY <1>3, <2>1, <2>6, <2>7 DEF ProbeSound
  <2>9. QED
    BY <1>8, <2>4, <2>8 DEF IInv
<1>12. QED
  BY <1>5, <1>9, <1>10, <1>11

LEMMA NextKeepsIInv == ~CallerMayRepeat => (IInv /\ [Next]_vars => IInv')
<1> SUFFICES ASSUME ~CallerMayRepeat, IInv, [Next]_vars PROVE IInv'
  OBVIOUS
<1>1. CASE Next
  BY <1>1, CallKeepsIInv DEF Next
<1>2. CASE UNCHANGED vars
  BY <1>2 DEF vars, IInv, TypeOK, CursorSplit, ProbeSound, Members, Elements
<1>3. QED
  BY <1>1, <1>2

(***************************************************************************)
(* For a caller that asks at strictly descending positions, as every      *)
(* caller in the engine does, every answer of predicate_fn_from_iter is    *)
(* one its set allows.                                                     *)
(***************************************************************************)
THEOREM ProbeSoundness == ~CallerMayRepeat => (Spec => []ProbeSound)
<1> SUFFICES ASSUME ~CallerMayRepeat PROVE Spec => []ProbeSound
  OBVIOUS
<1>1. Spec => []IInv
  BY InitIInv, NextKeepsIInv, PTL DEF Spec
<1>2. QED
  BY <1>1, PTL DEF IInv

-----------------------------------------------------------------------------
(***************************************************************************)
(* For a caller at strictly descending positions, predicate_fn_from_iter   *)
(* over an EagerRevset implements the abstract probe of ProbeContract     *)
(* whose set is the entries of the index vector: each call of the closure *)
(* is a Call of the abstract probe at the same position.                  *)
(***************************************************************************)
LEMMA InitRefines == Init => PC!Init
<1> SUFFICES ASSUME Init PROVE PC!Init
  OBVIOUS
<1>1. index_entries \in Seq(Positions)
  BY DescSeqsType DEF Init
<1>2. Members \in SUBSET Positions
  BY <1>1 DEF Members, Elements
<1>3. QED
  BY <1>2 DEF Init, PC!Init, Positions, PC!Positions, NoCall, PC!NoCall,
             NoAnswer, PC!NoAnswer

LEMMA StepRefines ==
  ASSUME ~CallerMayRepeat, IInv, IInv', [Next]_vars
  PROVE  [PC!Next]_PC!vars
<1>1. CASE Next
  <2>1. PICK p \in Positions : PredicateFnCall(p)
    BY <1>1 DEF Next
  <2>2. p < last /\ last' = p /\ index_entries' = index_entries
    BY <2>1, CallCases
  <2>3. answer' # NoAnswer
    BY <2>1, CallCases, SkipAboveSpec, DescSeqsType
       DEF IInv, TypeOK, NoAnswer, Match, NotThisOne, NeverAgain
  <2>4. Members' = Members
    BY <2>2 DEF Members, Elements
  <2>5. answer' \in Allowed(Members, p)
    BY <2>2, <2>3, <2>4 DEF IInv, ProbeSound
  <2>6. PC!Call(p)
    <3>1. PC!Allowed(Members, p) = Allowed(Members, p)
      BY DEF Allowed, PC!Allowed, Match, PC!Match, NotThisOne, PC!NotThisOne,
             NeverAgain, PC!NeverAgain
    <3>2. QED
      BY <2>2, <2>4, <2>5, <3>1 DEF PC!Call
  <2>7. QED
    BY <2>1, <2>6 DEF PC!Next, Positions, PC!Positions
<1>2. CASE UNCHANGED vars
  BY <1>2 DEF vars, PC!vars, Members, Elements
<1>3. QED
  BY <1>1, <1>2

THEOREM RefinesProbeContract == ~CallerMayRepeat => (Spec => ImplementsProbeContract)
<1> SUFFICES ASSUME ~CallerMayRepeat PROVE Spec => PC!Spec
  BY DEF ImplementsProbeContract
<1>1. Spec => []IInv
  BY InitIInv, NextKeepsIInv, PTL DEF Spec
<1>2. IInv /\ IInv' /\ [Next]_vars => [PC!Next]_PC!vars
  BY StepRefines
<1>3. QED
  BY <1>1, <1>2, InitRefines, PTL DEF Spec, PC!Spec

=============================================================================
