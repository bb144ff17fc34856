--------------------------- MODULE ProbeContract ---------------------------
(***************************************************************************)
(* Abstract specification of a predicate function returned by             *)
(* ToPredicateFn::to_predicate_fn (default_revset_engine.rs): a stateful  *)
(* probe of a fixed set of index positions, called at strictly            *)
(* descending positions, whose every answer is one the set allows.        *)
(* Every concrete probe of the engine is shown to implement this.         *)
(***************************************************************************)
EXTENDS RevsetCommon

VARIABLES members,    \* the set of positions the probe stands for
          last,       \* the position of the latest call
          answer      \* the answer to the latest call

vars == <<members, last, answer>>

Init ==
  /\ members \in SUBSET Positions
  /\ last = NoCall
  /\ answer = NoAnswer

Call(p) ==
  /\ p < last
  /\ last' = p
  /\ answer' \in Allowed(members, p)
  /\ UNCHANGED members

Next == \E p \in Positions : Call(p)

Spec == Init /\ [][Next]_vars

=============================================================================
