------------------------------ MODULE MCLatestK ------------------------------
EXTENDS LatestK
MCN == 4
MCTimes == {0, 1}
MCMaxCount == 3
=============================================================================
