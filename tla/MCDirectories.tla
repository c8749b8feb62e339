----------------------------- MODULE MCDirectories -----------------------------
(***************************************************************************)
(* Small instances of Directories.                                         *)
(***************************************************************************)
EXTENDS Directories, TLC

CONSTANTS a, b

\* The root, the current directory, a directory in either, and up.
MCPaths == {<< "root", << >> >>, << "cwd", << >> >>, << "root", << a >> >>,
            << "cwd", << ".." >> >>}

Symmetry == Permutations(Procs)
===============================================================================
