------------------------------- MODULE Process -------------------------------
(***************************************************************************)
(* userprog/process.c and sys_exit, sys_exec, sys_wait of                  *)
(* userprog/syscall.c: how processes are created, waited for and ended,    *)
(* and how parent and child share the process control block (pcb), a page  *)
(* that one of them has to free.  Steps of different threads interleave    *)
(* wherever the timer interrupt may preempt, one action being the code     *)
(* between two accesses to a pcb that the other side can observe.          *)
(***************************************************************************)
EXTENDS Naturals, SequencesExt

CONSTANTS
  Threads,    \* thread ids, each used once
  Codes,      \* exit codes other than -1
  Main,       \* the kernel's main thread, which has no pcb
  Pages,      \* pages that pcbs may be put on
  Fail,       \* -1: PID_ERROR and the exit code of a killed process
  Nothing,    \* null pointer, no thread
  Freed       \* contents of a free page (bytes 0xcc)

ASSUME MainAssumption == Main \in Threads
ASSUME NothingAssumption == Nothing \notin Threads \union Pages
ASSUME FailAssumption == Fail \notin Threads

VARIABLES
  pc,         \* pc[t]: the next section of thread t
  mem,        \* mem[p]: the pcb on page p, or Freed
  pcbOf,      \* pcbOf[t]: thread->pcb
  children,   \* children[t]: child_list
  reg,        \* reg[t]: local variables of t
  filesys,    \* holder of filesys_lock, as far as exec is concerned
  ret,        \* the last answer of exec or wait: to whom, and what
  panic       \* "none", or how the kernel died

vars == << pc, mem, pcbOf, children, reg, filesys, ret, panic >>

\* struct process_control_block as process_execute fills it in; a semaphore is
\* its value, for only one thread ever waits for it.
NewPcb == [pid |-> Nothing, waiting |-> FALSE, exited |-> FALSE, orphan |-> FALSE,
           exitcode |-> Fail, init |-> 0, wait |-> 0]

\* pcb (execute, wait, exit), tid (execute), success (start_process), status (sys_exit), and
\* cur_orphan (process_exit).
NoReg == [pcb |-> Nothing, tid |-> Nothing, success |-> TRUE, status |-> Fail,
          orphan |-> FALSE]

Init ==
  /\ pc = [t \in Threads |-> IF t = Main THEN "user" ELSE "none"]
  /\ mem = [p \in Pages |-> Freed]
  /\ pcbOf = [t \in Threads |-> Nothing]
  /\ children = [t \in Threads |-> << >>]
  /\ reg = [t \in Threads |-> NoReg]
  /\ filesys = Nothing
  /\ ret = << >>
  /\ panic = "none"

At(t, l) == panic = "none" /\ pc[t] = l

Goto(t, l) == pc' = [pc EXCEPT ![t] = l]

Answer(t, r) == ret' = << t >> \o r

\* main only runs tasks, each of which it waits for (run_task).
MayCall(t) == At(t, "user") /\ (t = Main => children[t] = << >>)

-------------------------------------------------------------------------------
(* exec                                                                    *)

\* process_execute finds no page for one of its objects or for the thread, and
\* frees what it had.
ExecFail(t) ==
  /\ MayCall(t) /\ (t # Main => filesys = Nothing)
  /\ Answer(t, << "exec", Fail >>)
  /\ UNCHANGED << pc, mem, pcbOf, children, reg, filesys, panic >>

\* process_execute up to sema_down (sema_initialization), with filesys_lock
\* held by sys_exec: thread c is created with its pcb on page p.
Exec(t, c, p) ==
  /\ MayCall(t) /\ (t # Main => filesys = Nothing)
  /\ pc[c] = "none" /\ mem[p] = Freed
  /\ filesys' = IF t = Main THEN filesys ELSE t
  /\ mem' = [mem EXCEPT ![p] = NewPcb]
  /\ reg' = [reg EXCEPT ![t].pcb = p, ![t].tid = c, ![c].pcb = p]
  /\ pc' = [pc EXCEPT ![t] = "exec", ![c] = "start"]
  /\ UNCHANGED << pcbOf, children, ret, panic >>

\* Mutant of Start: a process that fails to load does not wake its parent.
StartSilent(c, success) ==
  LET p == reg[c].pcb IN
  /\ At(c, "start")
  /\ mem' = [mem EXCEPT ![p].pid = IF success THEN c ELSE Fail,
                        ![p].init = IF success THEN @ + 1 ELSE @]
  /\ pcbOf' = [pcbOf EXCEPT ![c] = p]
  /\ reg' = [reg EXCEPT ![c].success = success, ![c].pcb = Nothing]
  /\ Goto(c, IF success THEN "user" ELSE "kids")
  /\ UNCHANGED << children, filesys, ret, panic >>

\* start_process: the program is loaded or not, the pid is set and the parent
\* is woken; a process that did not load goes on to sys_exit (-1).
Start(c, success) ==
  LET p == reg[c].pcb IN
  /\ At(c, "start")
  /\ mem' = [mem EXCEPT ![p].pid = IF success THEN c ELSE Fail, ![p].init = @ + 1]
  /\ pcbOf' = [pcbOf EXCEPT ![c] = p]
  /\ reg' = [reg EXCEPT ![c].success = success, ![c].pcb = Nothing]
  /\ Goto(c, IF success THEN "user" ELSE "kids")
  /\ UNCHANGED << children, filesys, ret, panic >>

\* Mutant of ExecDone: the pcb of a child that did not load is freed at once.
ExecDoneFrees(t) ==
  LET p == reg[t].pcb IN
  /\ At(t, "exec") /\ mem[p].init > 0
  /\ IF mem[p].pid # Fail
       THEN /\ children' = [children EXCEPT ![t] = Append(@, p)]
            /\ mem' = [mem EXCEPT ![p].init = @ - 1]
       ELSE mem' = [mem EXCEPT ![p] = Freed] /\ UNCHANGED children
  /\ Answer(t, << "exec", mem[p].pid >>)
  /\ filesys' = IF t = Main THEN filesys ELSE Nothing
  /\ reg' = [reg EXCEPT ![t].pcb = Nothing, ![t].tid = Nothing]
  /\ Goto(t, "user")
  /\ UNCHANGED << pcbOf, panic >>

\* The rest of process_execute and of sys_exec.
ExecDone(t) ==
  LET p == reg[t].pcb IN
  /\ At(t, "exec") /\ mem[p].init > 0
  /\ mem' = [mem EXCEPT ![p].init = @ - 1]
  /\ IF mem[p].pid # Fail
       THEN children' = [children EXCEPT ![t] = Append(@, p)]
       ELSE UNCHANGED children
  /\ Answer(t, << "exec", mem[p].pid >>)
  /\ filesys' = IF t = Main THEN filesys ELSE Nothing
  /\ reg' = [reg EXCEPT ![t].pcb = Nothing, ![t].tid = Nothing]
  /\ Goto(t, "user")
  /\ UNCHANGED << pcbOf, panic >>

-------------------------------------------------------------------------------
(* wait                                                                    *)

\* The pages on t's child_list that hold the pcb of c.
PcbFor(t, c) == {p \in ToSet(children[t]) : mem[p].pid = c}

\* process_wait for a thread that is not a child, or no longer.
WaitNone(t, c) ==
  /\ At(t, "user")
  /\ \A p \in PcbFor(t, c) : mem[p].waiting
  /\ Answer(t, << "wait", c, Fail >>)
  /\ UNCHANGED << pc, mem, pcbOf, children, reg, filesys, panic >>

\* process_wait finds the child and looks whether it has exited.
Wait(t, c) ==
  /\ At(t, "user")
  /\ \E p \in PcbFor(t, c) :
       /\ ~ mem[p].waiting
       /\ mem' = [mem EXCEPT ![p].waiting = TRUE]
       /\ reg' = [reg EXCEPT ![t].pcb = p]
       /\ Goto(t, IF mem[p].exited THEN "reap" ELSE "wait")
  /\ UNCHANGED << pcbOf, children, filesys, ret, panic >>

\* sema_down (sema_wait).
WaitDown(t) ==
  LET p == reg[t].pcb IN
  /\ At(t, "wait") /\ mem[p].wait > 0
  /\ mem' = [mem EXCEPT ![p].wait = @ - 1]
  /\ Goto(t, "reap")
  /\ UNCHANGED << pcbOf, children, reg, filesys, ret, panic >>

\* Mutant of Reap: the pcb stays on child_list.
ReapKeeps(t) ==
  LET p == reg[t].pcb IN
  /\ At(t, "reap")
  /\ IF mem[p].exited
       THEN /\ Answer(t, << "wait", mem[p].pid, mem[p].exitcode >>)
            /\ mem' = [mem EXCEPT ![p] = Freed]
            /\ reg' = [reg EXCEPT ![t].pcb = Nothing]
            /\ Goto(t, "user")
            /\ UNCHANGED panic
       ELSE panic' = "not exited" /\ UNCHANGED << ret, mem, reg, pc >>
  /\ UNCHANGED << pcbOf, children, filesys >>

\* The rest of process_wait: the exit code is read and the pcb freed.
Reap(t) ==
  LET p == reg[t].pcb IN
  /\ At(t, "reap")
  /\ IF mem[p].exited
       THEN /\ children' = [children EXCEPT ![t] = RemoveFirst(@, p)]
            /\ Answer(t, << "wait", mem[p].pid, mem[p].exitcode >>)
            /\ mem' = [mem EXCEPT ![p] = Freed]
            /\ reg' = [reg EXCEPT ![t].pcb = Nothing]
            /\ Goto(t, "user")
            /\ UNCHANGED panic
       ELSE panic' = "not exited" /\ UNCHANGED << children, ret, mem, reg, pc >>
  /\ UNCHANGED << pcbOf, filesys >>

-------------------------------------------------------------------------------
(* exit                                                                    *)

\* Mutant of Exit: the status is not passed on.
ExitSilent(t, k) ==
  /\ MayCall(t)
  /\ reg' = [reg EXCEPT ![t].status = k]
  /\ Goto(t, "kids")
  /\ UNCHANGED << mem, pcbOf, children, filesys, ret, panic >>

\* sys_exit.  Main has no pcb and calls thread_exit directly.
Exit(t, k) ==
  /\ MayCall(t)
  /\ mem' = IF pcbOf[t] = Nothing THEN mem
                                  ELSE [mem EXCEPT ![pcbOf[t]].exitcode = k]
  /\ reg' = [reg EXCEPT ![t].status = k]
  /\ Goto(t, "kids")
  /\ UNCHANGED << pcbOf, children, filesys, ret, panic >>

\* process_exit takes a child off its list and looks whether it has exited.
ExitChild(t) ==
  /\ At(t, "kids") /\ children[t] # << >>
  /\ children' = [children EXCEPT ![t] = Tail(@)]
  /\ LET p == Head(children[t])
     IN IF mem[p].exited
          THEN mem' = [mem EXCEPT ![p] = Freed] /\ UNCHANGED << pc, reg >>
          ELSE /\ Goto(t, "orphan")
               /\ reg' = [reg EXCEPT ![t].pcb = p]
               /\ UNCHANGED mem
  /\ UNCHANGED << pcbOf, filesys, ret, panic >>

\* The child had not exited, and becomes an orphan.
ExitOrphan(t) ==
  /\ At(t, "orphan")
  /\ mem' = [mem EXCEPT ![reg[t].pcb].orphan = TRUE]
  /\ reg' = [reg EXCEPT ![t].pcb = Nothing]
  /\ Goto(t, "kids")
  /\ UNCHANGED << pcbOf, children, filesys, ret, panic >>

\* cur->pcb->exited = true, through a null pointer in a thread without a pcb.
ExitMark(t) ==
  /\ At(t, "kids") /\ children[t] = << >>
  /\ IF pcbOf[t] = Nothing
       THEN panic' = "null" /\ UNCHANGED << mem, pc >>
       ELSE /\ mem' = [mem EXCEPT ![pcbOf[t]].exited = TRUE]
            /\ Goto(t, "mark")
            /\ UNCHANGED panic
  /\ UNCHANGED << pcbOf, children, reg, filesys, ret >>

\* cur_orphan = cur->pcb->orphan; the bytes of a free page read as true.
ExitRead(t) ==
  LET p == pcbOf[t] IN
  /\ At(t, "mark")
  /\ reg' = [reg EXCEPT ![t].orphan = IF mem[p] = Freed THEN TRUE ELSE mem[p].orphan]
  /\ Goto(t, "up")
  /\ UNCHANGED << mem, pcbOf, children, filesys, ret, panic >>

\* Mutant of ExitUp: only an orphan ups sema_wait.
ExitUpOrphan(t) ==
  LET p == pcbOf[t] IN
  /\ At(t, "up")
  /\ IF mem[p] = Freed
       THEN panic' = "freed" /\ UNCHANGED << mem, pc >>
       ELSE /\ mem' = [mem EXCEPT ![p].wait = IF reg[t].orphan THEN @ + 1 ELSE @]
            /\ Goto(t, "last")
            /\ UNCHANGED panic
  /\ UNCHANGED << pcbOf, children, reg, filesys, ret >>

\* sema_up (&cur->pcb->sema_wait); on a free page the list of waiters is not a
\* list, and sorting it faults.
ExitUp(t) ==
  LET p == pcbOf[t] IN
  /\ At(t, "up")
  /\ IF mem[p] = Freed
       THEN panic' = "freed" /\ UNCHANGED << mem, pc >>
       ELSE /\ mem' = [mem EXCEPT ![p].wait = @ + 1]
            /\ Goto(t, "last")
            /\ UNCHANGED panic
  /\ UNCHANGED << pcbOf, children, reg, filesys, ret >>

\* An orphan frees &cur->pcb, which is no page's address: an assertion fails.
\* Any other process is done with its pcb.
ExitLast(t) ==
  /\ At(t, "last")
  /\ IF reg[t].orphan
       THEN panic' = "unaligned" /\ UNCHANGED pc
       ELSE Goto(t, "dead") /\ UNCHANGED panic
  /\ UNCHANGED << mem, pcbOf, children, reg, filesys, ret >>

\* What thread t does in the kernel without further choice.
KernelStep(t) ==
  \/ \E success \in BOOLEAN : Start(t, success)
  \/ ExecDone(t) \/ WaitDown(t) \/ Reap(t)
  \/ ExitChild(t) \/ ExitOrphan(t) \/ ExitMark(t) \/ ExitRead(t) \/ ExitUp(t) \/ ExitLast(t)

Next ==
  \E t \in Threads :
    \/ KernelStep(t)
    \/ ExecFail(t)
    \/ \E c \in Threads, p \in Pages : Exec(t, c, p)
    \/ \E c \in Threads : WaitNone(t, c) \/ Wait(t, c)
    \/ \E k \in Codes \union {Fail} : Exit(t, k)

Spec == Init /\ [][Next]_vars

\* Processes all have priority PRI_DEFAULT and share the CPU in turn.
FairSpec == Spec /\ \A t \in Threads : WF_vars(KernelStep(t))

-------------------------------------------------------------------------------
Sections == {"none", "start", "user", "exec", "wait", "reap",
             "kids", "orphan", "mark", "up", "last", "dead"}

Pcb == [pid : Threads \union {Fail, Nothing}, waiting : BOOLEAN, exited : BOOLEAN,
        orphan : BOOLEAN, exitcode : Codes \union {Fail}, init : Nat, wait : Nat]

\* A free page does not look like a pcb.
ASSUME FreedAssumption == Freed \notin Pcb

\* The types of the kernel's variables: in particular a thread that creates,
\* waits for or orphans a child holds the page of a pcb.
TypeOK ==
  /\ pc \in [Threads -> Sections]
  /\ mem \in [Pages -> Pcb \union {Freed}]
  /\ pcbOf \in [Threads -> Pages \union {Nothing}]
  /\ children \in [Threads -> Seq(Pages)]
  /\ reg \in [Threads -> [pcb : Pages \union {Nothing}, tid : Threads \union {Nothing},
                          success : BOOLEAN, status : Codes \union {Fail},
                          orphan : BOOLEAN]]
  /\ filesys \in Threads \union {Nothing}
  /\ \A t \in Threads :
       pc[t] \in {"start", "exec", "wait", "reap", "orphan"} => reg[t].pcb \in Pages

\* The page of t's pcb while t is alive and its pcb is not marked as exited.
OwnPage(t) == IF pc[t] = "start" THEN reg[t].pcb ELSE pcbOf[t]

\* Until a process marks its pcb as exited, the page is its own: nobody has
\* freed it, and it never becomes another process's pcb.
PcbNotStolen ==
  \A t, u \in Threads :
    /\ pc[t] \in {"start", "user", "exec", "wait", "reap", "kids", "orphan"}
    /\ t # Main
    => /\ mem[OwnPage(t)] # Freed
       /\ u # t /\ pc[u] \in {"start", "user", "exec", "wait", "reap", "kids", "orphan"}
            => OwnPage(u) # OwnPage(t)

\* A pcb is on at most one child_list, once, and not freed there: wait and exit
\* of the parent each free it, and only one of them may.
OneFreer ==
  \A t, u \in Threads : \A i \in DOMAIN children[t] : \A j \in DOMAIN children[u] :
    /\ mem[children[t][i]] # Freed
    /\ children[t][i] = children[u][j] => t = u /\ i = j

Life(t) ==
  IF pc[t] = "none" THEN "none"
  ELSE IF pc[t] = "start" THEN "loading"
  ELSE IF ~ reg[t].success THEN "failed"
  ELSE IF pc[t] \in {"kids", "orphan"} THEN "exiting"
  ELSE IF pc[t] \in {"mark", "up", "last", "dead"} THEN "ended"
  ELSE "live"

Contract == INSTANCE ProcessContract WITH
  status <- [t \in Threads |-> Life(t)],
  birth <- [t \in Threads |-> reg[t].tid],
  kids <- [t \in Threads |-> {mem[p].pid : p \in ToSet(children[t])}],
  code <- [t \in Threads |-> reg[t].status]

\* exec, wait and exit keep their contract, whatever happens between the
\* setting of exited and the parent's look at it.
ContractSpec == Contract!Spec

\* A parent that waits for a child gets its answer once the child has marked
\* its pcb: the up in process_exit is not missed.
WaitAnswered ==
  \A t \in Threads :
    (pc[t] = "wait" /\ mem[reg[t].pcb].exited) ~> (pc[t] # "wait" \/ panic # "none")

\* exec returns: start_process ups sema_initialization whether or not it loads.
ExecReturns == \A t \in Threads : pc[t] = "exec" ~> (pc[t] # "exec" \/ panic # "none")

\* An exiting process does not touch its pcb once its parent has freed it
\* (process.c:321, "guarantee that the process and pcb is not used any more
\* when freeing it").
NoUseAfterFree == panic # "freed"

\* A process whose parent has exited frees its pcb and ends (process.c:330).
OrphansEnd == panic # "unaligned"

\* In process_wait the child has exited by the time the pcb is freed
\* (process.c:258).
WaitedHasExited == panic # "not exited"

\* thread_exit works in a thread without a pcb, as main is (init.c:149).
MainCanExit == panic # "null"

\* Thread t can still free or use page p.
Refers(t, p) ==
  \/ p \in ToSet(children[t])
  \/ pc[t] \in {"start", "exec", "wait", "reap", "orphan"} /\ reg[t].pcb = p
  \/ pc[t] \notin {"none", "start", "dead"} /\ pcbOf[t] = p

\* No pcb is left over: some thread can still free it (process.c:139, "clean
\* resources"; process.c:306, "postpone until the child terminates").
NoPcbLeak == \A p \in Pages : mem[p] # Freed => \E t \in Threads : Refers(t, p)
===============================================================================
