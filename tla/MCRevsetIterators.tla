------------------------- MODULE MCRevsetIterators -------------------------
EXTENDS RevsetIterators

MCN == 4

=============================================================================
