------------------------------- MODULE MCInodes -------------------------------
(***************************************************************************)
(* Small instances of Inodes.                                              *)
(***************************************************************************)
EXTENDS Inodes, TLC

\* Inside a sector, across sectors, into the index blocks, over a gap.
MCWrites == {<< 0, 1 >>, << 1, 2 >>, << 5, 2 >>, << 7, 1 >>}

\* With writes of no bytes.
MCZeroWrites == {<< 0, 0 >>, << 1, 2 >>}
===============================================================================
