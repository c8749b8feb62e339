------------------------------- MODULE MCFrames -------------------------------
(***************************************************************************)
(* Small instances of Frames.                                              *)
(***************************************************************************)
EXTENDS Frames, TLC

Symmetry == Permutations(Procs) \union Permutations(Upages)
              \union Permutations(Kpages)
===============================================================================
