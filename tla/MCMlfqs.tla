------------------------------- MODULE MCMlfqs -------------------------------
(***************************************************************************)
(* Small instances of Mlfqs.                                               *)
(***************************************************************************)
EXTENDS Mlfqs, TLC

ThreadSymmetry == Permutations(Threads)
===============================================================================
