---------------------------- MODULE MC_Sessions ----------------------------
EXTENDS Sessions

CONSTANTS c1, c2

MCRequests == [c \in {c1, c2} |-> IF c = c1 THEN 2 ELSE 1]
=============================================================================
