--------------------------- MODULE ProcessContract ---------------------------
(***************************************************************************)
(* What exec, exit and wait promise a user program (the comments of        *)
(* process_execute and process_wait in userprog/process.c): exec returns   *)
(* once the child has loaded or failed to; wait for a child returns the    *)
(* status it exited with, once, and only after the child has let go of its *)
(* own children; any other wait returns -1.                                *)
(***************************************************************************)
EXTENDS Sequences

CONSTANTS
  Threads,    \* processes, Main included
  Codes,      \* exit codes
  Main,       \* the kernel's main thread
  Fail,       \* -1, both as a pid and as an exit code
  Nothing     \* no result yet, or no thread

VARIABLES
  status,     \* status[t]: how far t's life has come
  birth,      \* birth[t]: the child t is creating
  kids,       \* kids[t]: the children t may still wait for
  code,       \* code[t]: the status t exits with
  ret         \* the last answer of exec or wait: to whom, and what

vars == << status, birth, kids, code, ret >>

Init ==
  /\ status = [t \in Threads |-> IF t = Main THEN "live" ELSE "none"]
  /\ birth = [t \in Threads |-> Nothing]
  /\ kids = [t \in Threads |-> {}]
  /\ code = [t \in Threads |-> Fail]
  /\ ret = << >>

Becomes(t, s) == status' = [status EXCEPT ![t] = s]

Answer(t, r) == ret' = << t >> \o r

\* exec finds no memory.
Deny(t) ==
  /\ status[t] = "live" /\ birth[t] = Nothing
  /\ Answer(t, << "exec", Fail >>)
  /\ UNCHANGED << status, birth, kids, code >>

\* exec begins to create a child.
Spawn(t, c) ==
  /\ status[t] = "live" /\ birth[t] = Nothing
  /\ status[c] = "none"
  /\ birth' = [birth EXCEPT ![t] = c]
  /\ Becomes(c, "loading")
  /\ UNCHANGED << kids, code, ret >>

\* The child loads its program, or fails to.
Load(c) ==
  /\ status[c] = "loading"
  /\ Becomes(c, "live") \/ Becomes(c, "failed")
  /\ UNCHANGED << birth, kids, code, ret >>

\* exec returns, knowing whether the child has loaded.
Adopt(t) ==
  LET c == birth[t] IN
  /\ c # Nothing
  /\ status[c] # "loading"
  /\ birth' = [birth EXCEPT ![t] = Nothing]
  /\ IF status[c] = "failed"
       THEN Answer(t, << "exec", Fail >>) /\ UNCHANGED kids
       ELSE Answer(t, << "exec", c >>) /\ kids' = [kids EXCEPT ![t] = @ \union {c}]
  /\ UNCHANGED << status, code >>

\* wait for a child that has exited: its status, once.
Reap(t, c) ==
  /\ status[t] = "live"
  /\ c \in kids[t] /\ status[c] = "ended"
  /\ kids' = [kids EXCEPT ![t] = @ \ {c}]
  /\ Answer(t, << "wait", c, code[c] >>)
  /\ UNCHANGED << status, birth, code >>

\* wait for anything else.
Refuse(t, c) ==
  /\ status[t] = "live"
  /\ c \notin kids[t]
  /\ Answer(t, << "wait", c, Fail >>)
  /\ UNCHANGED << status, birth, kids, code >>

\* exit, by the program or because the kernel kills it.
Quit(t, k) ==
  /\ status[t] = "live" /\ birth[t] = Nothing
  /\ Becomes(t, "exiting")
  /\ code' = [code EXCEPT ![t] = k]
  /\ UNCHANGED << birth, kids, ret >>

\* An exiting process lets go of a child.
Drop(t, c) ==
  /\ status[t] = "exiting" /\ c \in kids[t]
  /\ kids' = [kids EXCEPT ![t] = @ \ {c}]
  /\ UNCHANGED << status, birth, code, ret >>

\* The exit can be seen by the parent.
End(t) ==
  /\ status[t] = "exiting" /\ kids[t] = {}
  /\ Becomes(t, "ended")
  /\ UNCHANGED << birth, kids, code, ret >>

Next ==
  \E t \in Threads :
    \/ Deny(t) \/ Load(t) \/ Adopt(t) \/ End(t)
    \/ \E c \in Threads : Spawn(t, c) \/ Reap(t, c) \/ Refuse(t, c) \/ Drop(t, c)
    \/ \E k \in Codes \union {Fail} : Quit(t, k)

Spec == Init /\ [][Next]_vars
===============================================================================
