--------------------------- MODULE MC_AccountBook ---------------------------
(* A bank of two slots whose int holds -16..15 and whose ring holds two.    *)
EXTENDS AccountBook

MCAmounts == {1, 2, 12}

\* No action reads request or response: states that differ in them alone
\* have the same successors, and every step is checked all the same.
MCView == <<heap, file, hist, restored>>
=============================================================================
