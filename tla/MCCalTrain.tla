------------------------------- MODULE MCCalTrain -------------------------------
(***************************************************************************)
(* CalTrain for TLC: passengers are interchangeable.                       *)
(***************************************************************************)
EXTENDS CalTrain, TLC

Symmetry == Permutations(Passengers)
===============================================================================
