--------------------------- MODULE PredicateMatch ---------------------------
(***************************************************************************)
(* The three-valued answer of a revset predicate function and its          *)
(* combinators (default_revset_engine.rs, enum PredicateMatch).            *)
(*                                                                         *)
(* A predicate function is called on index positions in descending order. *)
(* Match: the entry is in the set.  NotThisOne: it is not, a lower one may *)
(* be.  NeverAgain: neither it nor any entry of lower position is.         *)
(***************************************************************************)

Match      == "Match"
NotThisOne == "NotThisOne"
NeverAgain == "NeverAgain"

PredicateMatchValues == {Match, NotThisOne, NeverAgain}

\* PredicateMatch::from_boolean: a content predicate never says NeverAgain.
FromBoolean(b) == IF b THEN Match ELSE NotThisOne

\* PredicateMatch::and; the match arms are tried in order.
And(a, b) ==
  IF a = Match /\ b = Match THEN Match
  ELSE IF a = NeverAgain \/ b = NeverAgain THEN NeverAgain
  ELSE NotThisOne

\* PredicateMatch::or
Or(a, b) ==
  IF a = NeverAgain /\ b = NeverAgain THEN NeverAgain
  ELSE IF a = Match \/ b = Match THEN Match
  ELSE NotThisOne

\* Mutant: and_not passing on a NeverAgain of the subtrahend.
AndNotPropagating(a, b) ==
  IF a = NeverAgain \/ b = NeverAgain THEN NeverAgain
  ELSE IF b = Match THEN NotThisOne
  ELSE IF a = Match THEN Match
  ELSE NotThisOne

\* PredicateMatch::and_not: a NeverAgain of the subtrahend is not passed on.
AndNot(a, b) ==
  IF a = NeverAgain THEN NeverAgain
  ELSE IF b = Match THEN NotThisOne
  ELSE IF a = Match THEN Match
  ELSE NotThisOne

=============================================================================
