--------------------------- MODULE MC_Standalone ---------------------------
(* Two slots and a ring of two, as for the servers; the numbers that may be *)
(* typed or lie in memory are those of the accounts and one that never is.  *)
EXTENDS Standalone

MCAmounts == {1, 2}
=============================================================================
