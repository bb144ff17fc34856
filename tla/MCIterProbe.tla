---------------------------- MODULE MCIterProbe ----------------------------
EXTENDS IterProbe

MCN == 5

=============================================================================
