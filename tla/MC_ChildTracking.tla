-------------------------- MODULE MC_ChildTracking --------------------------
(* Three children and an array that starts with one entry: it grows, or     *)
(* fails to, at the first child and again at the second or third.           *)
EXTENDS ChildTracking
=============================================================================
