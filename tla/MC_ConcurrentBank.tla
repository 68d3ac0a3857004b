-------------------------- MODULE MC_ConcurrentBank --------------------------
(* Two children at a time, and two over the life of the bank.  Nothing tells  *)
(* the children apart.                                                        *)
EXTENDS ConcurrentBank, TLC

MCAmounts == {2}
Alike == Permutations(Children)
=============================================================================
