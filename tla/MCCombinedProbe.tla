-------------------------- MODULE MCCombinedProbe --------------------------
EXTENDS CombinedProbe

MCN == 3

=============================================================================
