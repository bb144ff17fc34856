----------------------------- MODULE IterProbe -----------------------------
(***************************************************************************)
(* predicate_fn_from_iter (default_revset_engine.rs) over the iterator of *)
(* an EagerRevset: the probe keeps a fused, peekable slice iterator over   *)
(* index_entries, which hold strictly descending positions.  The slice     *)
(* iterator is a cursor: the number of entries already taken from it.     *)
(* A caller calls the probe repeatedly, at descending positions.          *)
(***************************************************************************)
EXTENDS RevsetCommon

CONSTANT CallerMayRepeat  \* may the caller ask twice about one position?
ASSUME RepeatAssumption == CallerMayRepeat \in BOOLEAN

VARIABLES index_entries,  \* EagerRevset::index_entries
          cursor,         \* entries the probe's iterator has consumed
          last,           \* position of the latest call
          answer          \* answer of the latest call

vars == <<index_entries, cursor, last, answer>>

Init ==
  /\ index_entries \in DescSeqs
  /\ cursor = 0
  /\ last = NoCall
  /\ answer = NoAnswer

\* Mutant: `next_if(|e| e.position() >= entry.position())`, which also
\* skips the entry at p.
SkipAtOrAbove(p) ==
  CHOOSE j \in cursor .. Len(index_entries) :
    /\ \A i \in cursor + 1 .. j : index_entries[i] >= p
    /\ j = Len(index_entries) \/ index_entries[j + 1] < p

(***************************************************************************)
(* `while iter.next_if(|e| e.position() > entry.position())`: the cursor   *)
(* after dropping the entries above p.                                    *)
(***************************************************************************)
SkipAbove(p) ==
  CHOOSE j \in cursor .. Len(index_entries) :
    /\ \A i \in cursor + 1 .. j : index_entries[i] > p
    /\ j = Len(index_entries) \/ index_entries[j + 1] <= p

\* Mutant: the `Some(_)` and `None` arms of the peek swapped.
PredicateFnCallArmsSwapped(p) ==
  LET j == SkipAbove(p) IN
  /\ p < last \/ (CallerMayRepeat /\ p = last)
  /\ last' = p
  /\ \/ j = Len(index_entries)
        /\ answer' = NotThisOne /\ cursor' = j
     \/ j < Len(index_entries) /\ index_entries[j + 1] = p
        /\ answer' = Match /\ cursor' = j + 1
     \/ j < Len(index_entries) /\ index_entries[j + 1] # p
        /\ answer' = NeverAgain /\ cursor' = j
  /\ UNCHANGED index_entries

(***************************************************************************)
(* One call of the closure at position p: skip, then peek.  A peeked entry *)
(* at p is consumed (`iter.next()`) and answers Match; another entry      *)
(* answers NotThisOne; an exhausted iterator answers NeverAgain.          *)
(***************************************************************************)
PredicateFnCall(p) ==
  LET j == SkipAbove(p) IN
  /\ p < last \/ (CallerMayRepeat /\ p = last)
  /\ last' = p
  /\ \/ j = Len(index_entries)
        /\ answer' = NeverAgain /\ cursor' = j
     \/ j < Len(index_entries) /\ index_entries[j + 1] = p
        /\ answer' = Match /\ cursor' = j + 1
     \/ j < Len(index_entries) /\ index_entries[j + 1] # p
        /\ answer' = NotThisOne /\ cursor' = j
  /\ UNCHANGED index_entries

Next == \E p \in Positions : PredicateFnCall(p)

Spec == Init /\ [][Next]_vars

-----------------------------------------------------------------------------
Members == Elements(index_entries)

TypeOK ==
  /\ index_entries \in DescSeqs
  /\ cursor \in 0 .. Len(index_entries)
  /\ last \in Positions \cup {NoCall}
  /\ answer \in PredicateMatchValues \cup {NoAnswer}

PC == INSTANCE ProbeContract WITH members <- Members

(***************************************************************************)
(* Every answer the probe gives is one its set allows: Match exactly when *)
(* the asked position is an entry of the EagerRevset, NeverAgain only     *)
(* when no entry lies at or below it (spec 8.3, 8.4).  It rests on what    *)
(* the skipping loop and the consumption of a match leave in the          *)
(* iterator between calls.                                                 *)
(***************************************************************************)
ProbeSound == answer # NoAnswer => answer \in Allowed(Members, last)

(***************************************************************************)
(* The probe implements the abstract probe ProbeContract.                  *)
(***************************************************************************)
ImplementsProbeContract == PC!Spec

=============================================================================
