---------------------------- MODULE MCBufferCache ----------------------------
(***************************************************************************)
(* A small instance of BufferCache: more sectors than slots, so that every *)
(* miss but the first ones evicts.                                         *)
(***************************************************************************)
EXTENDS BufferCache, TLC

Symmetry == Permutations(Threads) \union Permutations(Data)
===============================================================================
