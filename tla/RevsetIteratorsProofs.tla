----------------------- MODULE RevsetIteratorsProofs -----------------------
(***************************************************************************)
(* Proofs about RevsetIterators: for every N, the union, difference and   *)
(* filter iterators return members of the composed set only, in strictly *)
(* descending order, and have returned every member once they return      *)
(* None.                                                                   *)
(***************************************************************************)
EXTENDS RevsetIterators, SequenceTheorems, TLAPS

\* A strictly descending sequence of positions.
Desc(s) == s \in Seq(Positions) /\ IsDescending(s)

\* What the iterator may still return: the rest of both children for a
\* union, the rest of the first child for a difference or a filter.
Remaining ==
  IF kind = Union THEN Elements(iter1) \cup Elements(iter2) ELSE Elements(iter1)

(***************************************************************************)
(* The inductive invariant.  OutputOrdered alone is not inductive: to     *)
(* know that the next entry returned is below the ones returned so far,   *)
(* and is a member, the proof needs what the children still hold.         *)
(*   - every entry returned lies above everything the iterator may still  *)
(*     return (Above);                                                    *)
(*   - every member not yet returned is still to come (Pending);          *)
(*   - for a difference, every entry of the subtrahend already skipped    *)
(*     lies above the rest of the minuend (Skipped), so a minuend head    *)
(*     above the subtrahend's head is not in the subtrahend.              *)
(***************************************************************************)
Above   == \A x \in Elements(out) : \A y \in Remaining : x > y
Pending == Denotation \ Elements(out) \subseteq Remaining
Skipped == kind = Difference =>
             \A x \in set2 \ Elements(iter2) : \A y \in Elements(iter1) : x > y

IInv ==
  /\ kind \in Kinds
  /\ Desc(iter1) /\ Desc(iter2) /\ out \in Seq(Positions)
  /\ Elements(iter1) \subseteq set1 /\ Elements(iter2) \subseteq set2
  /\ set1 \subseteq Positions /\ set2 \subseteq Positions
  /\ OutputOrdered
  /\ Above
  /\ Pending
  /\ Skipped
  /\ CompleteOnNone

-----------------------------------------------------------------------------
\* The children of Init are strictly descending sequences of positions.
LEMMA DescSeqsDesc ==
  ASSUME NEW s \in DescSeqs
  PROVE  Desc(s)
BY DEF DescSeqs, Desc

\* The empty sequence has no elements.
LEMMA ElementsEmpty == Elements(<<>>) = {}
BY DEF Elements

(***************************************************************************)
(* peek() and next() on a child: the head of a non-empty descending       *)
(* sequence is its greatest element, and next() leaves a descending       *)
(* sequence of the other elements, all below the head.                    *)
(***************************************************************************)
LEMMA HeadTail ==
  ASSUME NEW s, Desc(s), s # <<>>
  PROVE  /\ Desc(Tail(s))
         /\ Head(s) \in Positions
         /\ Head(s) \in Elements(s)
         /\ Elements(s) = {Head(s)} \cup Elements(Tail(s))
         /\ \A y \in Elements(Tail(s)) : y < Head(s)
<1>1. /\ Head(s) \in Positions
      /\ Tail(s) \in Seq(Positions)
      /\ Len(Tail(s)) = Len(s) - 1
      /\ \A i \in 1 .. Len(Tail(s)) : Tail(s)[i] = s[i + 1]
  BY HeadTailProperties DEF Desc
<1>2. Head(s) = s[1] /\ Len(s) \in Nat \ {0}
  BY EmptySeq DEF Desc
<1>3. IsDescending(Tail(s))
  BY <1>1, <1>2 DEF Desc, IsDescending
<1>4. Elements(s) = {Head(s)} \cup Elements(Tail(s))
  <2>1. Elements(Tail(s)) = {s[i] : i \in 2 .. Len(s)}
    <3>1. \A i \in 1 .. Len(Tail(s)) : i + 1 \in 2 .. Len(s)
      BY <1>1, <1>2
    <3>2. \A j \in 2 .. Len(s) : j - 1 \in 1 .. Len(Tail(s)) /\ Tail(s)[j - 1] = s[j]
      BY <1>1, <1>2
    <3>3. QED
      BY <1>1, <3>1, <3>2 DEF Elements
  <2>2. 1 .. Len(s) = {1} \cup 2 .. Len(s)
    BY <1>2
  <2>3. QED
    BY <1>2, <2>1, <2>2 DEF Elements
<1>5. \A y \in Elements(Tail(s)) : y < Head(s)
  BY <1>1, <1>2 DEF Elements, Desc, IsDescending
<1>6. QED
  BY <1>1, <1>2, <1>3, <1>4, <1>5 DEF Desc, Elements

(***************************************************************************)
(* next() returning Some(e): appending an entry below every entry         *)
(* returned so far keeps the output strictly descending.                  *)
(***************************************************************************)
LEMMA AppendBelow ==
  ASSUME NEW o \in Seq(Positions), IsDescending(o), NEW e \in Positions,
         \A x \in Elements(o) : x > e
  PROVE  /\ Append(o, e) \in Seq(Positions)
         /\ IsDescending(Append(o, e))
         /\ Elements(Append(o, e)) = Elements(o) \cup {e}
<1>1. /\ Append(o, e) \in Seq(Positions)
      /\ Len(Append(o, e)) = Len(o) + 1
      /\ \A i \in 1 .. Len(o) : Append(o, e)[i] = o[i]
      /\ Append(o, e)[Len(o) + 1] = e
  BY AppendProperties
<1>2. Len(o) \in Nat
  BY LenProperties
<1>3. \A i \in 1 .. Len(o) : o[i] > e
  BY DEF Elements
<1>4. IsDescending(Append(o, e))
  BY <1>1, <1>2, <1>3 DEF IsDescending
<1>5. Elements(Append(o, e)) = Elements(o) \cup {e}
  BY <1>1, <1>2 DEF Elements
<1>6. QED
  BY <1>1, <1>4, <1>5

-----------------------------------------------------------------------------
(***************************************************************************)
(* The three ways a step ends, stated once over what the iterator may     *)
(* still return.  Each assumes the step keeps the composed revset and the *)
(* children descending, never puts back what a child has yielded, and    *)
(* keeps Skipped.                                                         *)
(***************************************************************************)
Frame ==
  /\ kind' = kind /\ set1' = set1 /\ set2' = set2
  /\ Desc(iter1') /\ Desc(iter2')
  /\ Elements(iter1') \subseteq Elements(iter1)
  /\ Elements(iter2') \subseteq Elements(iter2)
  /\ Remaining' \subseteq Remaining
  /\ Skipped'

LEMMA FrameKeeps ==
  ASSUME IInv, Frame
  PROVE  /\ kind' \in Kinds
         /\ Desc(iter1') /\ Desc(iter2')
         /\ Elements(iter1') \subseteq set1' /\ Elements(iter2') \subseteq set2'
         /\ set1' \subseteq Positions /\ set2' \subseteq Positions
         /\ Denotation' = Denotation
         /\ Skipped'
BY DEF IInv, Frame, Denotation

\* next() returns Some(e): e is a member, the greatest of what may still
\* come, and the only thing the step removes from it.
LEMMA YieldKeeps ==
  ASSUME IInv, Frame, NEW e \in Positions,
         out' = Append(out, e), ended' = ended,
         e \in Remaining, e \in Denotation,
         Remaining \ Remaining' \subseteq {e},
         \A y \in Remaining' : e > y
  PROVE  IInv'
<1>1. \A x \in Elements(out) : x > e
  BY DEF IInv, Above
<1>2. /\ out' \in Seq(Positions)
      /\ IsDescending(out')
      /\ Elements(out') = Elements(out) \cup {e}
  BY <1>1, AppendBelow DEF IInv, OutputOrdered
<1>3. Denotation' = Denotation
  BY FrameKeeps
<1>4. OutputOrdered'
  BY <1>2, <1>3 DEF IInv, OutputOrdered
<1>5. Above'
  BY <1>2 DEF IInv, Above, Frame
<1>6. Pending'
  BY <1>2, <1>3 DEF IInv, Pending, Frame
<1>7. CompleteOnNone'
  BY <1>2, <1>3 DEF IInv, CompleteOnNone, OutputOrdered
<1>8. QED
  BY <1>2, <1>4, <1>5, <1>6, <1>7, FrameKeeps DEF IInv

\* The loop goes on without returning: what it drops is not a member.
LEMMA SkipKeeps ==
  ASSUME IInv, Frame, out' = out, ended' = ended,
         (Remaining \ Remaining') \cap Denotation = {}
  PROVE  IInv'
<1>1. Denotation' = Denotation
  BY FrameKeeps
<1>2. OutputOrdered' /\ CompleteOnNone'
  BY <1>1 DEF IInv, OutputOrdered, CompleteOnNone
<1>3. Above'
  BY DEF IInv, Above, Frame
<1>4. Pending'
  BY <1>1 DEF IInv, Pending, Frame
<1>5. QED
  BY <1>2, <1>3, <1>4, FrameKeeps DEF IInv

\* next() returns None: no member is left to come.
LEMMA NoneKeeps ==
  ASSUME IInv, Frame, out' = out, ended' = TRUE,
         Remaining \cap Denotation = {}
  PROVE  IInv'
<1>1. Denotation' = Denotation
  BY FrameKeeps
<1>2. Elements(out) = Denotation
  BY DEF IInv, OutputOrdered, Pending
<1>3. OutputOrdered' /\ CompleteOnNone'
  BY <1>1, <1>2 DEF IInv, OutputOrdered, CompleteOnNone
<1>4. Above'
  BY DEF IInv, Above, Frame
<1>5. Pending'
  BY <1>1, <1>2 DEF Pending
<1>6. QED
  BY <1>3, <1>4, <1>5, FrameKeeps DEF IInv

-----------------------------------------------------------------------------
\* What an answer of the filter's predicate says of the candidate e.
LEMMA PredicateAnswersFacts ==
  ASSUME NEW e, NEW a \in PredicateAnswers(e)
  PROVE  /\ a \in {Match, NotThisOne, NeverAgain}
         /\ a = Match => e \in set2
         /\ a = NotThisOne => e \notin set2
         /\ a = NeverAgain => \A q \in set2 : q > e
BY DEF PredicateAnswers, FromBoolean, Allowed, Match, NotThisOne, NeverAgain

LEMMA StartKeeps ==
  ASSUME IInv, StartNext
  PROVE  IInv'
<1>1. Frame
  BY DEF StartNext, Frame, IInv, Remaining, Skipped
<1>2. Remaining' = Remaining
  BY DEF StartNext, Remaining
<1>3. QED
  BY <1>1, <1>2, SkipKeeps DEF StartNext

LEMMA UnionKeeps ==
  ASSUME IInv, UnionNext
  PROVE  IInv'
<1> DEFINE H1 == Head(iter1)  H2 == Head(iter2)
           T1 == Tail(iter1)  T2 == Tail(iter2)
           E1 == Elements(iter1)  E2 == Elements(iter2)
<1>1. kind = Union /\ kind' = kind /\ set1' = set1 /\ set2' = set2
  BY DEF UnionNext
<1>2. /\ Remaining = E1 \cup E2
      /\ Remaining' = Elements(iter1') \cup Elements(iter2')
  BY <1>1 DEF Remaining
<1>3. Skipped'
  BY <1>1 DEF Skipped, Union, Difference
<1>4. Denotation = set1 \cup set2
  BY <1>1 DEF Denotation, Union, Intersection, Filter, Difference
<1>5. /\ Desc(iter1) /\ Desc(iter2) /\ E1 \subseteq set1 /\ E2 \subseteq set2
      /\ E1 \subseteq Nat /\ E2 \subseteq Nat
  <2>1. Desc(iter1) /\ Desc(iter2) /\ E1 \subseteq set1 /\ E2 \subseteq set2
    BY DEF IInv
  <2>2. set1 \subseteq Nat /\ set2 \subseteq Nat
    BY DEF IInv, Positions
  <2>3. QED
    BY <2>1, <2>2
<1>6. iter1 # <<>> => /\ Desc(T1) /\ H1 \in Positions /\ H1 \in E1
                      /\ E1 = {H1} \cup Elements(T1)
                      /\ \A y \in Elements(T1) : y < H1
  BY <1>5, HeadTail
<1>7. iter2 # <<>> => /\ Desc(T2) /\ H2 \in Positions /\ H2 \in E2
                      /\ E2 = {H2} \cup Elements(T2)
                      /\ \A y \in Elements(T2) : y < H2
  BY <1>5, HeadTail
<1> USE <1>1, <1>2, <1>3, <1>4, <1>5
<1>8. CASE /\ iter1 = <<>> /\ iter2 = <<>>
           /\ ReturnNone /\ UNCHANGED <<iter1, iter2>>
  <2>1. Frame
    BY <1>8 DEF Frame
  <2>2. QED
    BY <1>8, <2>1, ElementsEmpty, NoneKeeps DEF ReturnNone
<1>9. CASE /\ iter1 = <<>> /\ iter2 # <<>>
           /\ ReturnSome(H2)
           /\ iter2' = T2 /\ UNCHANGED iter1
  <2>1. Frame
    BY <1>7, <1>9 DEF Frame
  <2>2. QED
    BY <1>7, <1>9, <2>1, ElementsEmpty, YieldKeeps DEF ReturnSome
<1>10. CASE /\ iter1 # <<>> /\ iter2 = <<>>
            /\ ReturnSome(H1)
            /\ iter1' = T1 /\ UNCHANGED iter2
  <2>1. Frame
    BY <1>6, <1>10 DEF Frame
  <2>2. QED
    BY <1>6, <1>10, <2>1, ElementsEmpty, YieldKeeps DEF ReturnSome
<1>11. CASE /\ iter1 # <<>> /\ iter2 # <<>> /\ H1 < H2
            /\ ReturnSome(H2)
            /\ iter2' = T2 /\ UNCHANGED iter1
  <2>1. Frame
    BY <1>7, <1>11 DEF Frame
  <2>2. \A y \in Remaining' : H2 > y
    <3>1. Remaining' = E1 \cup Elements(T2)
      BY <1>11
    <3>2. QED
      BY <1>6, <1>7, <1>11, <3>1
  <2>3. QED
    BY <1>7, <1>11, <2>1, <2>2, YieldKeeps DEF ReturnSome
<1>12. CASE /\ iter1 # <<>> /\ iter2 # <<>> /\ H1 = H2
            /\ ReturnSome(H2)
            /\ iter1' = T1 /\ iter2' = T2
  <2>1. Frame
    BY <1>6, <1>7, <1>12 DEF Frame
  <2>2. \A y \in Remaining' : H2 > y
    <3>1. Remaining' = Elements(T1) \cup Elements(T2)
      BY <1>12
    <3>2. QED
      BY <1>6, <1>7, <1>12, <3>1
  <2>3. QED
    BY <1>6, <1>7, <1>12, <2>1, <2>2, YieldKeeps DEF ReturnSome
<1>13. CASE /\ iter1 # <<>> /\ iter2 # <<>> /\ H1 > H2
            /\ ReturnSome(H1)
            /\ iter1' = T1 /\ UNCHANGED iter2
  <2>1. Frame
    BY <1>6, <1>13 DEF Frame
  <2>2. \A y \in Remaining' : H1 > y
    <3>1. Remaining' = Elements(T1) \cup E2
      BY <1>13
    <3>2. QED
      BY <1>6, <1>7, <1>13, <3>1
  <2>3. QED
    BY <1>6, <1>13, <2>1, <2>2, YieldKeeps DEF ReturnSome
<1>14. QED
  BY <1>8, <1>9, <1>10, <1>11, <1>12, <1>13 DEF UnionNext

(***************************************************************************)
(* The difference loop: a minuend head is returned only when the          *)
(* subtrahend is exhausted or its head is lower, and then Skipped shows   *)
(* the head is not in the subtrahend.                                     *)
(***************************************************************************)
LEMMA DifferenceKeeps ==
  ASSUME IInv, DifferenceStep
  PROVE  IInv'
<1> DEFINE H1 == Head(iter1)  H2 == Head(iter2)
           T1 == Tail(iter1)  T2 == Tail(iter2)
           E1 == Elements(iter1)  E2 == Elements(iter2)
<1>1. kind = Difference /\ kind' = kind /\ set1' = set1 /\ set2' = set2
  BY DEF DifferenceStep
<1>2. /\ Remaining = E1
      /\ Remaining' = Elements(iter1')
  BY <1>1 DEF Remaining, Union, Difference
<1>3. Denotation = set1 \ set2
  BY <1>1 DEF Denotation, Union, Intersection, Filter, Difference
<1>4. /\ Desc(iter1) /\ Desc(iter2) /\ E1 \subseteq set1 /\ E2 \subseteq set2
      /\ E1 \subseteq Nat /\ E2 \subseteq Nat /\ set2 \subseteq Nat
  <2>1. Desc(iter1) /\ Desc(iter2) /\ E1 \subseteq set1 /\ E2 \subseteq set2
    BY DEF IInv
  <2>2. set1 \subseteq Nat /\ set2 \subseteq Nat
    BY DEF IInv, Positions
  <2>3. QED
    BY <2>1, <2>2
<1>5. \A x \in set2 \ E2 : \A y \in E1 : x > y
  BY <1>1 DEF IInv, Skipped
<1>6. iter1 # <<>> => /\ Desc(T1) /\ H1 \in Positions /\ H1 \in E1
                      /\ E1 = {H1} \cup Elements(T1)
                      /\ \A y \in Elements(T1) : y < H1
  BY <1>4, HeadTail
<1>7. iter2 # <<>> => /\ Desc(T2) /\ H2 \in Positions /\ H2 \in E2
                      /\ E2 = {H2} \cup Elements(T2)
                      /\ \A y \in Elements(T2) : y < H2
  BY <1>4, HeadTail
<1> USE <1>1, <1>2, <1>3, <1>4
<1>8. CASE /\ iter1 = <<>>
           /\ ReturnNone /\ UNCHANGED <<iter1, iter2>>
  <2>1. Skipped'
    BY <1>8, ElementsEmpty DEF Skipped
  <2>2. Frame
    BY <1>8, <2>1 DEF Frame
  <2>3. QED
    BY <1>8, <2>2, ElementsEmpty, NoneKeeps DEF ReturnNone
<1>9. CASE /\ iter1 # <<>> /\ iter2 = <<>>
           /\ ReturnSome(H1)
           /\ iter1' = T1 /\ UNCHANGED iter2
  <2>1. Skipped'
    BY <1>5, <1>6, <1>9 DEF Skipped
  <2>2. Frame
    BY <1>6, <1>9, <2>1 DEF Frame
  <2>3. H1 \notin set2
    BY <1>5, <1>6, <1>9, ElementsEmpty
  <2>4. QED
    BY <1>6, <1>9, <2>2, <2>3, YieldKeeps DEF ReturnSome
<1>10. CASE /\ iter1 # <<>> /\ iter2 # <<>> /\ H1 < H2
            /\ iter2' = T2
            /\ UNCHANGED <<iter1, pc, out, ended>>
  <2>1. Skipped'
    <3>1. set2 \ Elements(T2) \subseteq (set2 \ E2) \cup {H2}
      BY <1>7, <1>10
    <3>2. QED
      BY <1>5, <1>6, <1>10, <3>1 DEF Skipped
  <2>2. Frame
    BY <1>7, <1>10, <2>1 DEF Frame
  <2>3. QED
    BY <1>10, <2>2, SkipKeeps
<1>11. CASE /\ iter1 # <<>> /\ iter2 # <<>> /\ H1 = H2
            /\ iter1' = T1 /\ iter2' = T2
            /\ UNCHANGED <<pc, out, ended>>
  <2>1. Skipped'
    <3>1. set2 \ Elements(T2) \subseteq (set2 \ E2) \cup {H2}
      BY <1>7, <1>11
    <3>2. QED
      BY <1>5, <1>6, <1>11, <3>1 DEF Skipped
  <2>2. Frame
    BY <1>6, <1>7, <1>11, <2>1 DEF Frame
  <2>3. H1 \in set2
    BY <1>7, <1>11
  <2>4. QED
    BY <1>6, <1>11, <2>2, <2>3, SkipKeeps
<1>12. CASE /\ iter1 # <<>> /\ iter2 # <<>> /\ H1 > H2
            /\ ReturnSome(H1)
            /\ iter1' = T1 /\ UNCHANGED iter2
  <2>1. Skipped'
    BY <1>5, <1>6, <1>12 DEF Skipped
  <2>2. Frame
    BY <1>6, <1>12, <2>1 DEF Frame
  <2>3. H1 \notin set2
    <3>1. H1 \notin E2
      BY <1>7, <1>12
    <3>2. QED
      BY <1>5, <1>6, <1>12, <3>1
  <2>4. QED
    BY <1>6, <1>12, <2>2, <2>3, YieldKeeps DEF ReturnSome
<1>13. QED
  BY <1>8, <1>9, <1>10, <1>11, <1>12 DEF DifferenceStep

(***************************************************************************)
(* The filter loop: a candidate is returned on Match, dropped on          *)
(* NotThisOne, and NeverAgain ends the iteration: no member of the        *)
(* predicate's set lies at or below the candidate, so none of the         *)
(* remaining candidates is a member.                                      *)
(***************************************************************************)
LEMMA FilterKeeps ==
  ASSUME IInv, FilterStep
  PROVE  IInv'
<1> DEFINE H1 == Head(iter1)  T1 == Tail(iter1)  E1 == Elements(iter1)
<1>1. kind \in {Intersection, Filter} /\ kind' = kind /\ set1' = set1 /\ set2' = set2
      /\ iter2' = iter2
  BY DEF FilterStep
<1>2. /\ Remaining = E1
      /\ Remaining' = Elements(iter1')
  BY <1>1 DEF Remaining, Union, Intersection, Filter
<1>3. Denotation = set1 \cap set2
  BY <1>1 DEF Denotation, Intersection, Filter, Union, Difference
<1>4. Skipped'
  BY <1>1 DEF Skipped, Intersection, Filter, Difference
<1>5. /\ Desc(iter1) /\ Desc(iter2) /\ E1 \subseteq set1
      /\ E1 \subseteq Nat /\ set2 \subseteq Nat
  <2>1. Desc(iter1) /\ Desc(iter2) /\ E1 \subseteq set1
    BY DEF IInv
  <2>2. set1 \subseteq Nat /\ set2 \subseteq Nat
    BY DEF IInv, Positions
  <2>3. QED
    BY <2>1, <2>2
<1>6. iter1 # <<>> => /\ Desc(T1) /\ H1 \in Positions /\ H1 \in E1
                      /\ E1 = {H1} \cup Elements(T1)
                      /\ \A y \in Elements(T1) : y < H1
  BY <1>5, HeadTail
<1> USE <1>1, <1>2, <1>3, <1>4, <1>5
<1>7. CASE /\ iter1 = <<>>
           /\ ReturnNone /\ UNCHANGED iter1
  <2>1. Frame
    BY <1>7 DEF Frame
  <2>2. QED
    BY <1>7, <2>1, ElementsEmpty, NoneKeeps DEF ReturnNone
<1>8. CASE /\ iter1 # <<>>
           /\ iter1' = T1
           /\ \E a \in PredicateAnswers(H1) :
                 CASE a = Match      -> ReturnSome(H1)
                   [] a = NotThisOne -> UNCHANGED <<pc, out, ended>>
                   [] a = NeverAgain -> ReturnNone
  <2>1. Frame
    BY <1>6, <1>8 DEF Frame
  <2>2. PICK a \in PredicateAnswers(H1) :
               CASE a = Match      -> ReturnSome(H1)
                 [] a = NotThisOne -> UNCHANGED <<pc, out, ended>>
                 [] a = NeverAgain -> ReturnNone
    BY <1>8
  <2>3. /\ a \in {Match, NotThisOne, NeverAgain}
        /\ a = Match => H1 \in set2
        /\ a = NotThisOne => H1 \notin set2
        /\ a = NeverAgain => \A q \in set2 : q > H1
    BY PredicateAnswersFacts
  <2>4. CASE a = Match
    <3>1. ReturnSome(H1)
      BY <2>2, <2>4 DEF Match, NotThisOne, NeverAgain
    <3>2. \A y \in Remaining' : H1 > y
      BY <1>6, <1>8
    <3>3. QED
      BY <1>6, <1>8, <2>1, <2>3, <2>4, <3>1, <3>2, YieldKeeps DEF ReturnSome
  <2>5. CASE a = NotThisOne
    <3>1. UNCHANGED <<pc, out, ended>>
      BY <2>2, <2>5 DEF Match, NotThisOne, NeverAgain
    <3>2. QED
      BY <1>6, <1>8, <2>1, <2>3, <2>5, <3>1, SkipKeeps
  <2>6. CASE a = NeverAgain
    <3>1. ReturnNone
      BY <2>2, <2>6 DEF Match, NotThisOne, NeverAgain
    <3>2. E1 \cap set2 = {}
      BY <1>6, <1>8, <2>3, <2>6
    <3>3. QED
      BY <2>1, <3>1, <3>2, NoneKeeps DEF ReturnNone
  <2>7. QED
    BY <2>3, <2>4, <2>5, <2>6
<1>9. QED
  BY <1>7, <1>8 DEF FilterStep

-----------------------------------------------------------------------------
LEMMA InitIInv == Init => IInv
<1> SUFFICES ASSUME Init PROVE IInv
  OBVIOUS
<1>1. Desc(iter1) /\ Desc(iter2)
  BY DescSeqsDesc DEF Init
<1>2. Elements(out) = {} /\ out \in Seq(Positions)
  BY ElementsEmpty DEF Init
<1>3. set1 \subseteq Positions /\ set2 \subseteq Positions
  BY <1>1 DEF Init, Desc, Elements
<1>4. Denotation \subseteq set1 \cup set2
  BY DEF Init, Kinds, Denotation, Intersection, Filter, Union, Difference
<1>5. Pending
  BY <1>2, <1>4 DEF Init, Kinds, Pending, Remaining, Denotation,
                    Intersection, Filter, Union, Difference
<1>6. OutputOrdered /\ Above /\ Skipped /\ CompleteOnNone
  BY <1>2, ElementsEmpty DEF Init, OutputOrdered, IsDescending, Above,
                             Skipped, CompleteOnNone
<1>7. QED
  BY <1>1, <1>2, <1>3, <1>5, <1>6 DEF Init, IInv

LEMMA NextKeepsIInv == IInv /\ [Next]_vars => IInv'
<1> SUFFICES ASSUME IInv, [Next]_vars PROVE IInv'
  OBVIOUS
<1>1. CASE UNCHANGED vars
  BY <1>1 DEF vars, IInv, Desc, OutputOrdered, Above, Pending, Skipped,
              CompleteOnNone, Remaining, Denotation
<1>2. QED
  BY <1>1, StartKeeps, UnionKeeps, DifferenceKeeps, FilterKeeps DEF Next

(***************************************************************************)
(* For every N and every pair of strictly descending children, the union, *)
(* difference and filter iterators return members of the composed set    *)
(* only, in strictly descending position, without duplicates.             *)
(***************************************************************************)
THEOREM OrderedCorrect == Spec => []OutputOrdered
<1>1. IInv => OutputOrdered
  BY DEF IInv
<1>2. QED
  BY <1>1, InitIInv, NextKeepsIInv, PTL DEF Spec

(***************************************************************************)
(* For every N, once next() has returned None, every member of the        *)
(* composed set has been returned, the filter's early NeverAgain break    *)
(* included.                                                              *)
(***************************************************************************)
THEOREM CompleteCorrect == Spec => []CompleteOnNone
<1>1. IInv => CompleteOnNone
  BY DEF IInv
<1>2. QED
  BY <1>1, InitIInv, NextKeepsIInv, PTL DEF Spec

=============================================================================
