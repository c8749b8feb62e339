------------------------------- MODULE FileStore -------------------------------
(***************************************************************************)
(* What inodes and the free map promise together: every file has contents  *)
(* of its own, a file that grows reads as zeros where it has not been      *)
(* written, and a file that is removed keeps its contents until its last   *)
(* opener closes it.  Inodes implements this.                              *)
(***************************************************************************)
EXTENDS Integers, Sequences

CONSTANTS
  Id,      \* names of files: the sectors of their inodes
  Value    \* what a byte may hold, 0 among them

VARIABLES
  content, \* content[f]: the bytes of f, << >> when there is no such file
  named,   \* the files a directory names
  opens    \* opens[f]: how often f is open

vars == << content, named, opens >>

Live(f) == f \in named \/ opens[f] > 0

Init ==
  /\ content \in [Id -> Seq(Value)]
  /\ named \in SUBSET Id
  /\ opens \in [Id -> Nat]
  /\ \A f \in Id : ~Live(f) => content[f] = << >>

Zeros(n) == [i \in 1 .. n |-> 0]

\* A file dies with its last name and its last opener, and only then.
Settle(f, name, count) ==
  /\ named' = name
  /\ opens' = [opens EXCEPT ![f] = count]
  /\ content' = IF f \in name \/ count > 0 THEN content
                ELSE [content EXCEPT ![f] = << >>]

Create(f) ==
  /\ ~Live(f)
  /\ content' = [content EXCEPT ![f] = Zeros(Len(content'[f]))]
  /\ named' = named \union {f}
  /\ UNCHANGED opens

Open(f) == f \in named /\ Settle(f, named, opens[f] + 1)

Close(f) == opens[f] > 0 /\ Settle(f, named, opens[f] - 1)

Remove(f) == f \in named /\ Settle(f, named \ {f}, opens[f])

\* A write that reaches past the end first makes the file longer.
Extend(f) ==
  /\ opens[f] > 0
  /\ LET n == Len(content'[f]) - Len(content[f]) IN
       /\ n > 0
       /\ content' = [content EXCEPT ![f] = @ \o Zeros(n)]
  /\ UNCHANGED << named, opens >>

\* It then puts one value into neighbouring bytes, a sector at a time.
Put(f) ==
  /\ opens[f] > 0
  /\ \E v \in Value, i, j \in 1 .. Len(content[f]) :
       content' = [content EXCEPT ![f] =
                     [k \in DOMAIN @ |-> IF k \in i .. j THEN v ELSE @[k]]]
  /\ UNCHANGED << named, opens >>

Next ==
  \E f \in Id : \/ Create(f) \/ Open(f) \/ Close(f) \/ Remove(f)
                \/ Extend(f) \/ Put(f)

Spec == Init /\ [][Next]_vars
================================================================================
