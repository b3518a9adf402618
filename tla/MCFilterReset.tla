--------------------------- MODULE MCFilterReset ---------------------------
EXTENDS FilterReset
MCRx == [h \in Host |-> IF h = "a" THEN 2 ELSE 1]
MCSize == [h \in Host |-> IF h = "a" THEN 2 ELSE 1]
=============================================================================
