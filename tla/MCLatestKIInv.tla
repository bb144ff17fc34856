---------------------------- MODULE MCLatestKIInv ----------------------------
(* take_latest_revset with the inductive invariant of LatestKProofs.       *)
EXTENDS LatestKProofs
MCN == 5
MCTimes == {0, 1, 2}
MCMaxCount == 5
=============================================================================
