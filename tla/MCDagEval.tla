----------------------------- MODULE MCDagEval -----------------------------
EXTENDS DagEval

MCN == 4
=============================================================================
