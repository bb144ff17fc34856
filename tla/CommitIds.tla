----------------------------- MODULE CommitIds -----------------------------
(***************************************************************************)
(* EvaluationContext::revset_for_commit_ids (default_revset_engine.rs),   *)
(* which the Commits, VisibleHeads and Heads arms of evaluate use: the    *)
(* entries of a list of commit ids, as an EagerRevset.                     *)
(*                                                                         *)
(* An id is the position of its entry (entry_by_id of a resolved id never *)
(* fails); the list is any list of at most MaxIds ids, in any order and   *)
(* with repetitions, as a user's revset or a view may give.               *)
(***************************************************************************)
EXTENDS RevsetCommon, SequencesExt, TLC

CONSTANT MaxIds   \* the longest list of commit ids tried

ASSUME MaxIdsAssumption == MaxIds \in Nat

VARIABLES ids,    \* the commit_ids argument
          out     \* the index_entries of the EagerRevset, once built

vars == <<ids, out>>

IdLists == UNION {[1 .. n -> Positions] : n \in 0 .. MaxIds}

\* Vec::dedup: drops each element equal to the one kept just before it.
Dedup(s) == FoldLeft(LAMBDA acc, e : IF acc # <<>> /\ Last(acc) = e THEN acc
                                     ELSE Append(acc, e), <<>>, s)

\* Mutant: dedup before the sort, which then leaves duplicates.
CommitIdsDedupFirst(commit_ids) == SortSeq(Dedup(commit_ids), >)

\* entry_by_id of every id, sort_unstable_by_key(|b| Reverse(b.position())),
\* then dedup().
RevsetForCommitIds(commit_ids) == Dedup(SortSeq(commit_ids, >))

Init ==
  /\ ids \in IdLists
  /\ out = [built |-> FALSE]

\* One call of revset_for_commit_ids; it may be called again.
Eval ==
  /\ out' = [built |-> TRUE, res |-> RevsetForCommitIds(ids)]
  /\ UNCHANGED ids

Spec == Init /\ [][Eval]_vars

-----------------------------------------------------------------------------
(***************************************************************************)
(* revset_for_commit_ids yields the entries of the listed ids, each once,  *)
(* in strictly descending position (spec 4.12), for any list: ids given   *)
(* out of order or more than once.  Dedup only drops adjacent copies, so  *)
(* this holds only because the sort comes first.                          *)
(***************************************************************************)
CommitsMatchesRef ==
  out.built => IsDescending(out.res) /\ Elements(out.res) = Elements(ids)

=============================================================================
