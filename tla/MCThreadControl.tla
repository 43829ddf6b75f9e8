---------------------------- MODULE MCThreadControl ----------------------------
(* ThreadControl on small instances.                                       *)
EXTENDS ThreadControl, TLC
Symmetry == Permutations(Threads) \cup Permutations(Vars)
================================================================================
