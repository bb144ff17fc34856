---------------------------- MODULE MCCommitIds ----------------------------
EXTENDS CommitIds

MCN == 4
MCMaxIds == 4
=============================================================================
