------------------------------ MODULE MCIdIndex ------------------------------
EXTENDS IdIndex
MCDigits == {0, 1, 2}
MCKeyLen == 2
MCMaxEntries == 3
=============================================================================
