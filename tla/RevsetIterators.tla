-------------------------- MODULE RevsetIterators --------------------------
(***************************************************************************)
(* The iterators of the composed revsets (default_revset_engine.rs):      *)
(* UnionRevsetIterator, DifferenceRevsetIterator and FilterRevsetIterator,*)
(* driven by a consumer that calls next() again and again, also after it  *)
(* has returned None (UnionRevsetIterator does so with its second child). *)
(*                                                                         *)
(* The child iterators are any iterators meeting the InternalRevset       *)
(* contract: strictly descending positions.  A peekable child is its      *)
(* remaining sequence; peek() is its head.  The predicate of a filter is  *)
(* any probe meeting the contract of ProbeContract (Allowed), or, for a   *)
(* PurePredicateFn, from_boolean.  The loops of Difference and Filter     *)
(* next() take one step per iteration.                                    *)
(***************************************************************************)
EXTENDS RevsetCommon

VARIABLES kind,    \* the composed revset
          set1,    \* members of the first child (set1, candidates)
          set2,    \* members of the second child (set2, predicate)
          iter1,   \* what the first child iterator has still to yield
          iter2,   \* what the second child iterator has still to yield
          pc,      \* "idle" between calls of next(), "loop" inside one
          out,     \* the entries next() has returned so far
          ended    \* has next() returned None?

vars == <<kind, set1, set2, iter1, iter2, pc, out, ended>>

Init ==
  /\ kind \in Kinds
  /\ iter1 \in DescSeqs
  /\ iter2 \in DescSeqs
  /\ set1 = Elements(iter1)
  /\ set2 = Elements(iter2)
  /\ pc = "idle"
  /\ out = <<>>
  /\ ended = FALSE

\* next() returns Some(e) or None.
ReturnSome(e) == out' = Append(out, e) /\ pc' = "idle" /\ UNCHANGED ended
ReturnNone    == ended' = TRUE /\ pc' = "idle" /\ UNCHANGED out

\* Mutant: UnionNext with the (None, _) arm returning None at once,
\* forgetting the rest of the second child.
UnionNextStopsEarly ==
  /\ kind = Union /\ pc = "idle"
  /\ \/ /\ iter1 = <<>>
        /\ ReturnNone /\ UNCHANGED <<iter1, iter2>>
     \/ /\ iter1 # <<>> /\ iter2 = <<>>
        /\ ReturnSome(Head(iter1))
        /\ iter1' = Tail(iter1) /\ UNCHANGED iter2
     \/ /\ iter1 # <<>> /\ iter2 # <<>> /\ Head(iter1) < Head(iter2)
        /\ ReturnSome(Head(iter2))
        /\ iter2' = Tail(iter2) /\ UNCHANGED iter1
     \/ /\ iter1 # <<>> /\ iter2 # <<>> /\ Head(iter1) = Head(iter2)
        /\ ReturnSome(Head(iter2))
        /\ iter1' = Tail(iter1) /\ iter2' = Tail(iter2)
     \/ /\ iter1 # <<>> /\ iter2 # <<>> /\ Head(iter1) > Head(iter2)
        /\ ReturnSome(Head(iter1))
        /\ iter1' = Tail(iter1) /\ UNCHANGED iter2
  /\ UNCHANGED <<kind, set1, set2>>

(***************************************************************************)
(* UnionRevsetIterator::next: a descending merge that yields an entry of  *)
(* both children once.                                                    *)
(***************************************************************************)
UnionNext ==
  /\ kind = Union /\ pc = "idle"
  /\ \/ /\ iter1 = <<>> /\ iter2 = <<>>
        /\ ReturnNone /\ UNCHANGED <<iter1, iter2>>
     \/ /\ iter1 = <<>> /\ iter2 # <<>>
        /\ ReturnSome(Head(iter2))
        /\ iter2' = Tail(iter2) /\ UNCHANGED iter1
     \/ /\ iter1 # <<>> /\ iter2 = <<>>
        /\ ReturnSome(Head(iter1))
        /\ iter1' = Tail(iter1) /\ UNCHANGED iter2
     \/ /\ iter1 # <<>> /\ iter2 # <<>> /\ Head(iter1) < Head(iter2)
        /\ ReturnSome(Head(iter2))
        /\ iter2' = Tail(iter2) /\ UNCHANGED iter1
     \/ /\ iter1 # <<>> /\ iter2 # <<>> /\ Head(iter1) = Head(iter2)
        /\ ReturnSome(Head(iter2))
        /\ iter1' = Tail(iter1) /\ iter2' = Tail(iter2)
     \/ /\ iter1 # <<>> /\ iter2 # <<>> /\ Head(iter1) > Head(iter2)
        /\ ReturnSome(Head(iter1))
        /\ iter1' = Tail(iter1) /\ UNCHANGED iter2
  /\ UNCHANGED <<kind, set1, set2>>

\* A call of next() on a Difference or Filter iterator enters its loop.
StartNext ==
  /\ kind # Union /\ pc = "idle"
  /\ pc' = "loop"
  /\ UNCHANGED <<kind, set1, set2, iter1, iter2, out, ended>>

\* Mutant: the Less arm of the difference loop without iter2.next().
DifferenceStepNoAdvance ==
  /\ kind = Difference /\ pc = "loop"
  /\ \/ /\ iter1 = <<>>
        /\ ReturnNone /\ UNCHANGED <<iter1, iter2>>
     \/ /\ iter1 # <<>> /\ iter2 = <<>>
        /\ ReturnSome(Head(iter1))
        /\ iter1' = Tail(iter1) /\ UNCHANGED iter2
     \/ /\ iter1 # <<>> /\ iter2 # <<>> /\ Head(iter1) < Head(iter2)
        /\ UNCHANGED <<iter1, iter2, pc, out, ended>>
     \/ /\ iter1 # <<>> /\ iter2 # <<>> /\ Head(iter1) = Head(iter2)
        /\ iter1' = Tail(iter1) /\ iter2' = Tail(iter2)
        /\ UNCHANGED <<pc, out, ended>>
     \/ /\ iter1 # <<>> /\ iter2 # <<>> /\ Head(iter1) > Head(iter2)
        /\ ReturnSome(Head(iter1))
        /\ iter1' = Tail(iter1) /\ UNCHANGED iter2
  /\ UNCHANGED <<kind, set1, set2>>

(***************************************************************************)
(* One iteration of the loop of DifferenceRevsetIterator::next: it skips  *)
(* subtrahend entries above the minuend's head and drops a head the       *)
(* subtrahend shares, until it can return.                                *)
(***************************************************************************)
DifferenceStep ==
  /\ kind = Difference /\ pc = "loop"
  /\ \/ /\ iter1 = <<>>
        /\ ReturnNone /\ UNCHANGED <<iter1, iter2>>
     \/ /\ iter1 # <<>> /\ iter2 = <<>>
        /\ ReturnSome(Head(iter1))
        /\ iter1' = Tail(iter1) /\ UNCHANGED iter2
     \/ /\ iter1 # <<>> /\ iter2 # <<>> /\ Head(iter1) < Head(iter2)
        /\ iter2' = Tail(iter2)
        /\ UNCHANGED <<iter1, pc, out, ended>>
     \/ /\ iter1 # <<>> /\ iter2 # <<>> /\ Head(iter1) = Head(iter2)
        /\ iter1' = Tail(iter1) /\ iter2' = Tail(iter2)
        /\ UNCHANGED <<pc, out, ended>>
     \/ /\ iter1 # <<>> /\ iter2 # <<>> /\ Head(iter1) > Head(iter2)
        /\ ReturnSome(Head(iter1))
        /\ iter1' = Tail(iter1) /\ UNCHANGED iter2
  /\ UNCHANGED <<kind, set1, set2>>

\* What the predicate of a FilterRevset may answer at entry e.
PredicateAnswers(e) ==
  IF kind = Filter THEN {FromBoolean(e \in set2)} ELSE Allowed(set2, e)

\* Mutant: the Match and NotThisOne arms of the filter loop swapped.
FilterStepArmsSwapped ==
  /\ kind \in {Intersection, Filter} /\ pc = "loop"
  /\ \/ /\ iter1 = <<>>
        /\ ReturnNone /\ UNCHANGED iter1
     \/ /\ iter1 # <<>>
        /\ iter1' = Tail(iter1)
        /\ \E a \in PredicateAnswers(Head(iter1)) :
              CASE a = NotThisOne -> ReturnSome(Head(iter1))
                [] a = Match      -> UNCHANGED <<pc, out, ended>>
                [] a = NeverAgain -> ReturnNone
  /\ UNCHANGED <<kind, set1, set2, iter2>>

(***************************************************************************)
(* One iteration of `for entry in self.candidates_iter.by_ref()` in       *)
(* FilterRevsetIterator::next: take a candidate, call the predicate; Match *)
(* returns it, NotThisOne continues, NeverAgain breaks out and returns    *)
(* None.  An exhausted candidate iterator returns None.                   *)
(***************************************************************************)
FilterStep ==
  /\ kind \in {Intersection, Filter} /\ pc = "loop"
  /\ \/ /\ iter1 = <<>>
        /\ ReturnNone /\ UNCHANGED iter1
     \/ /\ iter1 # <<>>
        /\ iter1' = Tail(iter1)
        /\ \E a \in PredicateAnswers(Head(iter1)) :
              CASE a = Match      -> ReturnSome(Head(iter1))
                [] a = NotThisOne -> UNCHANGED <<pc, out, ended>>
                [] a = NeverAgain -> ReturnNone
  /\ UNCHANGED <<kind, set1, set2, iter2>>

Next == UnionNext \/ StartNext \/ DifferenceStep \/ FilterStep

Spec == Init /\ [][Next]_vars

(***************************************************************************)
(* A consumer that keeps calling next() until None, as collect_vec() does *)
(* in the DagRange and Heads arms and as the loops of take_latest_revset   *)
(* and change_id_index do: the loops inside next() are code running on     *)
(* the caller's thread, and the caller calls again, so a step that can     *)
(* change the state is eventually taken.                                   *)
(***************************************************************************)
LiveSpec == Spec /\ WF_vars(Next)

-----------------------------------------------------------------------------
\* The set the composed revset stands for.
Denotation ==
  CASE kind \in {Intersection, Filter} -> set1 \cap set2
    [] kind = Union                    -> set1 \cup set2
    [] kind = Difference               -> set1 \ set2

TypeOK ==
  /\ kind \in Kinds
  /\ iter1 \in DescSeqs /\ iter2 \in DescSeqs
  /\ set1 \subseteq Positions /\ set2 \subseteq Positions
  /\ pc \in {"idle", "loop"}
  /\ out \in Seq(Positions)
  /\ ended \in BOOLEAN

(***************************************************************************)
(* Every entry next() returns is a member of the composed set, and the    *)
(* entries come in strictly descending position, hence without           *)
(* duplicates (spec 8.1, 8.2, 8.5).  Breaking it takes a merge arm that    *)
(* advances the wrong child or yields the wrong head.                     *)
(***************************************************************************)
OutputOrdered ==
  /\ IsDescending(out)
  /\ Elements(out) \subseteq Denotation

(***************************************************************************)
(* Once next() has returned None, every member of the composed set has    *)
(* been returned: neither the early NeverAgain break of the filter loop   *)
(* nor the end of one child loses a member.                               *)
(***************************************************************************)
CompleteOnNone == ended => Elements(out) = Denotation

(***************************************************************************)
(* A consumer that keeps calling next() gets None after finitely many     *)
(* steps: every iteration of the loops of the difference and filter       *)
(* iterators consumes an entry of a child or returns, so no call of next() *)
(* spins forever and no iterator yields forever.                          *)
(***************************************************************************)
Drains == <>ended

=============================================================================
