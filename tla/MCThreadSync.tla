----------------------------- MODULE MCThreadSync -----------------------------
(***************************************************************************)
(* Small instances of ThreadSync.                                          *)
(***************************************************************************)
EXTENDS ThreadSync, TLC

Symmetry == Permutations(Threads) \union Permutations(Locks)
===============================================================================
