------------------------------ MODULE MCProcess ------------------------------
(***************************************************************************)
(* Small instances of Process.                                             *)
(***************************************************************************)
EXTENDS Process, TLC

Symmetry == Permutations(Threads \ {Main}) \union Permutations(Pages)
===============================================================================
