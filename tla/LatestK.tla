------------------------------ MODULE LatestK ------------------------------
(***************************************************************************)
(* EvaluationContext::take_latest_revset (default_revset_engine.rs): the   *)
(* `count` latest entries of a candidate set, chosen with a bounded        *)
(* min-heap keyed by (committer timestamp, index position) and returned    *)
(* in descending position.                                                 *)
(*                                                                         *)
(* The candidate iterator is any strictly descending vector of positions; *)
(* the committer timestamps are any function from positions to a small    *)
(* set of times, so that ties happen.  The heap is the set of its items:  *)
(* the positions of the candidates are distinct, hence so are the items,  *)
(* and peek_mut() of the max-heap of Reverse(Item) is the least item.     *)
(* Each iteration of the `for item in candidate_iter` loop is one step.   *)
(***************************************************************************)
EXTENDS RevsetCommon, FiniteSets

CONSTANTS Times,      \* the committer timestamps that occur
          MaxCount    \* the largest `count` argument tried

ASSUME LatestAssumption == MaxCount \in Nat /\ Times \subseteq Nat

VARIABLES candidates,  \* what candidate_set.iter() yields, in order
          timestamp,   \* committer timestamp of the commit at each position
          count,       \* the `count` argument
          cands,       \* what candidate_iter has still to yield
          heap,        \* latest_items, as the set of its items
          phase,       \* "start", "scan", "done" or "panicked"
          result       \* the index_entries of the returned EagerRevset

vars == <<candidates, timestamp, count, cands, heap, phase, result>>

\* make_rev_item: the Item of the entry at position p.
Item(p) == [ts |-> timestamp[p], pos |-> p]

\* Mutant: the derived order without its tie-breaker.
ItemLessByTime(a, b) == a.ts < b.ts

(***************************************************************************)
(* The derived Ord of Item: lexicographic on (timestamp, entry), where    *)
(* IndexEntryByPosition orders entries by position.                        *)
(***************************************************************************)
ItemLess(a, b) == a.ts < b.ts \/ (a.ts = b.ts /\ a.pos < b.pos)

\* `sort_unstable_by_key(|b| Reverse(b.position()))` of a set of positions.
SortDescending(S) == CHOOSE s \in DescSeqs : Elements(s) = S

MinOf(a, b) == IF a < b THEN a ELSE b

Init ==
  /\ candidates \in DescSeqs
  /\ timestamp \in [Positions -> Times]
  /\ count \in 0 .. MaxCount
  /\ cands = candidates
  /\ heap = {}
  /\ phase = "start"
  /\ result = <<>>

\* `if count == 0 { return Box::new(EagerRevset::empty()); }`
ReturnEmpty ==
  /\ phase = "start" /\ count = 0
  /\ phase' = "done" /\ result' = <<>>
  /\ UNCHANGED <<candidates, timestamp, count, cands, heap>>

\* Mutant: the heap filled without the early return for count == 0.
FillHeapNoZeroGuard ==
  /\ phase = "start"
  /\ LET k == MinOf(count, Len(cands)) IN
       /\ heap' = {Item(cands[i]) : i \in 1 .. k}
       /\ cands' = SubSeq(cands, k + 1, Len(cands))
  /\ phase' = "scan"
  /\ UNCHANGED <<candidates, timestamp, count, result>>

\* `BinaryHeap::from_iter(candidate_iter.by_ref().take(count))`
FillHeap ==
  /\ phase = "start" /\ count # 0
  /\ LET k == MinOf(count, Len(cands)) IN
       /\ heap' = {Item(cands[i]) : i \in 1 .. k}
       /\ cands' = SubSeq(cands, k + 1, Len(cands))
  /\ phase' = "scan"
  /\ UNCHANGED <<candidates, timestamp, count, result>>

\* The scan with the comparison turned round (`item.0 < earliest.0`).
ScanItemSwapped ==
  /\ phase = "scan" /\ cands # <<>>
  /\ cands' = Tail(cands)
  /\ \/ /\ heap = {}
        /\ phase' = "panicked" /\ UNCHANGED heap
     \/ \E earliest \in heap :
          /\ \A other \in heap : ~ItemLess(other, earliest)
          /\ heap' = IF ItemLess(Item(Head(cands)), earliest)
                       THEN (heap \ {earliest}) \cup {Item(Head(cands))}
                       ELSE heap
          /\ UNCHANGED phase
  /\ UNCHANGED <<candidates, timestamp, count, result>>

(***************************************************************************)
(* One iteration of the scan: peek_mut().unwrap() the earliest item (a     *)
(* panic on an empty heap) and replace it by the candidate's item when    *)
(* the candidate is later.                                                 *)
(***************************************************************************)
ScanItem ==
  /\ phase = "scan" /\ cands # <<>>
  /\ cands' = Tail(cands)
  /\ \/ /\ heap = {}
        /\ phase' = "panicked" /\ UNCHANGED heap
     \/ \E earliest \in heap :
          /\ \A other \in heap : ~ItemLess(other, earliest)
          /\ heap' = IF ItemLess(earliest, Item(Head(cands)))
                       THEN (heap \ {earliest}) \cup {Item(Head(cands))}
                       ELSE heap
          /\ UNCHANGED phase
  /\ UNCHANGED <<candidates, timestamp, count, result>>

\* The assertion on the heap's size, then the positions sorted descending.
Finish ==
  /\ phase = "scan" /\ cands = <<>>
  /\ \/ /\ Cardinality(heap) <= count
        /\ result' = SortDescending({it.pos : it \in heap})
        /\ phase' = "done"
     \/ /\ Cardinality(heap) > count
        /\ phase' = "panicked" /\ UNCHANGED result
  /\ UNCHANGED <<candidates, timestamp, count, cands, heap>>

Next == ReturnEmpty \/ FillHeap \/ ScanItem \/ Finish

Spec == Init /\ [][Next]_vars

-----------------------------------------------------------------------------
TypeOK ==
  /\ candidates \in DescSeqs /\ cands \in Seq(Positions)
  /\ timestamp \in [Positions -> Times]
  /\ count \in 0 .. MaxCount
  /\ heap \subseteq [ts : Times, pos : Positions]
  /\ phase \in {"start", "scan", "done", "panicked"}
  /\ result \in Seq(Positions)

\* Reference: the candidates with fewer than `count` later candidates.
LatestRef ==
  LET C == Elements(candidates) IN
  {p \in C : Cardinality({q \in C : ItemLess(Item(p), Item(q))}) < count}

(***************************************************************************)
(* A returned Latest set is the `count` greatest candidates by (timestamp, *)
(* position), in descending position (spec 4.12, 8.10).  Getting it wrong *)
(* takes a heap that evicts the wrong item among equal timestamps, or a   *)
(* fill or scan that loses a candidate.                                    *)
(***************************************************************************)
LatestIsTopK ==
  phase = "done" => /\ IsDescending(result)
                    /\ Elements(result) = LatestRef

(***************************************************************************)
(* take_latest_revset never panics: neither the unwrap of peek_mut() on   *)
(* an empty heap nor the assertion on the heap's size fires, whatever the *)
(* count, zero included, and whatever the number of candidates.           *)
(***************************************************************************)
NeverPanics == phase # "panicked"

=============================================================================
