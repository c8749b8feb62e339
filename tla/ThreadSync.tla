------------------------------ MODULE ThreadSync ------------------------------
(***************************************************************************)
(* threads/thread.c and threads/synch.c: the priority scheduler with its   *)
(* ready list, sleeping threads, semaphores, and locks with priority       *)
(* donation.  There is one CPU.  A section that runs with interrupts off   *)
(* is one action; wherever interrupts are on, an interrupt may come, wake  *)
(* threads, and preempt the running thread at the end of its slice.        *)
(***************************************************************************)
EXTENDS Integers, Sequences, FiniteSetsExt, SequencesExt

CONSTANTS
  Threads,    \* kernel threads other than idle
  Locks,      \* struct lock
  Semas,      \* semaphores that are not part of a lock
  MaxPri,     \* PRI_MAX; PRI_MIN is 0
  MaxValue,   \* bound on a semaphore's value
  Clients,    \* what threads do: a subset of {"setprio", "sleep", "exit"}
  Idle,       \* the idle thread, also used for "no thread"
  NoLock      \* null lock pointer

ASSUME ThreadAssumption == Idle \notin Threads
ASSUME FiniteAssumption == IsFiniteSet(Threads)
ASSUME LockAssumption == NoLock \notin Locks
ASSUME SemaAssumption == Locks \intersect Semas = {}

VARIABLES
  cur,        \* the running thread
  ready,      \* ready_list
  status,     \* status[t]: thread->status
  pri,        \* pri[t]: thread->priority, donations included
  orig,       \* orig[t]: thread->original_priority
  waiting,    \* waiting[t]: thread->waiting_lock
  locks,      \* locks[t]: thread->locks, from front to back
  holder,     \* holder[l]: lock->holder
  lockPri,    \* lockPri[l]: lock->priority
  elemOf,     \* elemOf[l]: whose list lock->lockelem was last put on
  value,      \* value[x]: sema->value
  waiters,    \* waiters[x]: sema->waiters
  sleepers,   \* wait_list
  pc,         \* pc[t]: the next section of thread t
  reg,        \* reg[t]: locals of the function t is in
  panic       \* "none", or the assertion that stopped the kernel

sched == << cur, ready, status >>
prios == << pri, orig >>
lockVars == << waiting, locks, holder, lockPri, elemOf >>
semas == << value, waiters >>
vars == << sched, prios, lockVars, semas, sleepers, pc, reg, panic >>

Pri == 0 .. MaxPri
Sema == Locks \union Semas

\* Locals: the lock or semaphore of the call, current_lock and t_holder of
\* lock_acquire, list_next (e) of thread_exit, and whether it is exiting.
NoReg == [on |-> NoLock, at |-> NoLock, h |-> Idle, next |-> NoLock, exit |-> FALSE]

\* list_insert_ordered with a "greater" comparison: before the first element
\* of a lower key, whether or not the list is sorted.
InsertOrdered(q, e, key) ==
  LET lower == {i \in DOMAIN q : key[q[i]] < key[e]}
      k == IF lower = {} THEN Len(q) + 1 ELSE Min(lower)
  IN InsertAt(q, k, e)

\* list_insert_ordered of each element of es, one after the other.
InsertEach(q, es, key) ==
  LET upTo[k \in 0 .. Len(es)] ==
        IF k = 0 THEN q ELSE InsertOrdered(upTo[k - 1], es[k], key)
  IN upTo[Len(es)]

\* list_sort: stable, greatest key first.
Sorted(q, key) == InsertEach(<< >>, q, key)

Init ==
  /\ orig \in [Threads -> Pri]
  /\ pri = orig
  /\ \E order \in SetToSeqs(Threads) : ready = Sorted(order, orig)
  /\ cur = Idle
  /\ status = [t \in Threads |-> "ready"]
  /\ waiting = [t \in Threads |-> NoLock]
  /\ locks = [t \in Threads |-> << >>]
  /\ holder = [l \in Locks |-> Idle]
  /\ lockPri = [l \in Locks |-> 0]
  /\ elemOf = [l \in Locks |-> Idle]
  /\ value = [x \in Sema |-> IF x \in Locks THEN 1 ELSE 0]
  /\ waiters = [x \in Sema |-> << >>]
  /\ sleepers = << >>
  /\ pc = [t \in Threads |-> "user"]
  /\ reg = [t \in Threads |-> NoReg]
  /\ panic = "none"

-------------------------------------------------------------------------------
(* Scheduling.  The operators describe the three scheduler variables in    *)
(* terms of the statuses st and the ready list q the caller has made.      *)

\* schedule, next_thread_to_run and thread_schedule_tail.
Switch(st, q) ==
  /\ cur' = IF q = << >> THEN Idle ELSE Head(q)
  /\ ready' = IF q = << >> THEN q ELSE Tail(q)
  /\ status' = IF q = << >> THEN st ELSE [st EXCEPT ![Head(q)] = "running"]

\* thread_yield by the running thread t, where p are the priorities.
Yield(t, st, q, p) ==
  Switch([st EXCEPT ![t] = "ready"], InsertOrdered(q, t, p))

\* thread_block by the running thread t.
Block(t) == Switch([status EXCEPT ![t] = "blocked"], ready)

\* thread_unblock of u, called by the running thread t: t yields when u has
\* the higher priority.
Unblock(t, u) ==
  LET q == InsertOrdered(ready, u, pri)
      st == [status EXCEPT ![u] = "ready"]
  IN IF pri[t] < pri[u]
       THEN Yield(t, st, q, pri)
       ELSE cur' = t /\ ready' = q /\ status' = st

\* The running thread's priority becomes n, and it yields when the front of
\* the ready list is higher: the end of thread_set_priority and of
\* thread_priority_donate.
SetOwn(t, n) ==
  /\ pri' = [pri EXCEPT ![t] = n]
  /\ IF ready # << >> /\ pri[Head(ready)] > n
       THEN Yield(t, status, ready, [pri EXCEPT ![t] = n])
       ELSE UNCHANGED sched

\* Mutant of SemaUp: a wakeup only when the value becomes 1.
SemaUpFirst(t, x) ==
  /\ value' = [value EXCEPT ![x] = @ + 1]
  /\ IF waiters[x] = << >> \/ value[x] > 0
       THEN UNCHANGED << waiters, sched >>
       ELSE LET q == Sorted(waiters[x], pri)
            IN waiters' = [waiters EXCEPT ![x] = Tail(q)] /\ Unblock(t, Head(q))

\* Mutant of SemaUp: the waiter is woken but not taken off the list.
SemaUpKeep(t, x) ==
  /\ value' = [value EXCEPT ![x] = @ + 1]
  /\ IF waiters[x] = << >>
       THEN UNCHANGED << waiters, sched >>
       ELSE LET q == Sorted(waiters[x], pri)
            IN waiters' = [waiters EXCEPT ![x] = q] /\ Unblock(t, Head(q))

\* sema_up by the running thread t.
SemaUp(t, x) ==
  /\ value' = [value EXCEPT ![x] = @ + 1]
  /\ IF waiters[x] = << >>
       THEN UNCHANGED << waiters, sched >>
       ELSE LET q == Sorted(waiters[x], pri)
            IN waiters' = [waiters EXCEPT ![x] = Tail(q)] /\ Unblock(t, Head(q))

At(t, l) == panic = "none" /\ cur = t /\ pc[t] = l

Goto(t, l) == pc' = [pc EXCEPT ![t] = l]

-------------------------------------------------------------------------------
(* lock_acquire                                                            *)

\* t_holder = lock->holder.
AcquireRead(t, l) ==
  /\ At(t, "user")
  /\ holder[l] # t
  /\ reg' = [reg EXCEPT ![t] = [NoReg EXCEPT !.on = l, !.at = l, !.h = holder[l]]]
  /\ Goto(t, "acq_wait")
  /\ UNCHANGED << sched, prios, lockVars, semas, sleepers, panic >>

\* waiting_lock = lock; a lock that looked free takes t's priority.
AcquireWait(t) ==
  /\ At(t, "acq_wait")
  /\ waiting' = [waiting EXCEPT ![t] = reg[t].on]
  /\ lockPri' = IF reg[t].h = Idle THEN [lockPri EXCEPT ![reg[t].on] = pri[t]]
                                   ELSE lockPri
  /\ Goto(t, "acq_donate")
  /\ UNCHANGED << sched, prios, locks, holder, elemOf, semas, sleepers, reg, panic >>

\* t_holder has died since t read it: its struct thread is a freed page.
Dangling(t) == reg[t].h # Idle /\ status[reg[t].h] = "dead"

Lends(t) == reg[t].h # Idle /\ ~ Dangling(t) /\ pri[reg[t].h] < pri[t]

\* The loop reads a freed page: what it finds as a priority and as a waiting
\* lock is not a lock, and following it faults in the kernel.
DonateDangling(t) ==
  /\ At(t, "acq_donate") /\ Dangling(t)
  /\ panic' = "dangling"
  /\ UNCHANGED << sched, prios, lockVars, semas, sleepers, pc, reg >>

\* One iteration of the donation loop.
Donate(t) ==
  /\ At(t, "acq_donate") /\ Lends(t)
  /\ pri' = [pri EXCEPT ![reg[t].h] = pri[t]]
  /\ lockPri' = [lockPri EXCEPT ![reg[t].at] = Max({@, pri[t]})]
  /\ LET up == waiting[reg[t].h]
     IN IF up = NoLock
          THEN Goto(t, "down") /\ UNCHANGED reg
          ELSE /\ reg' = [reg EXCEPT ![t].at = up, ![t].h = holder[up]]
               /\ UNCHANGED pc
  /\ UNCHANGED << sched, orig, waiting, locks, holder, elemOf, semas, sleepers, panic >>

\* The loop ends at a holder that needs no donation.
DonateEnd(t) ==
  /\ At(t, "acq_donate") /\ ~ Lends(t) /\ ~ Dangling(t)
  /\ Goto(t, "down")
  /\ UNCHANGED << sched, prios, lockVars, semas, sleepers, reg, panic >>

\* Mutant of Down: a thread that was woken does not look at the value again.
DownOnce(t) ==
  /\ \/ At(t, "down") /\ value[reg[t].on] > 0
     \/ At(t, "retry")
  /\ value' = [value EXCEPT ![reg[t].on] = @ - 1]
  /\ IF reg[t].on \in Locks
       THEN Goto(t, "acq_own") /\ UNCHANGED reg
       ELSE Goto(t, "user") /\ reg' = [reg EXCEPT ![t] = NoReg]
  /\ UNCHANGED << sched, prios, lockVars, waiters, sleepers, panic >>

\* sema_down on a positive value: the thread goes on, with a lock as its owner.
Down(t) ==
  /\ At(t, "down") \/ At(t, "retry")
  /\ value[reg[t].on] > 0
  /\ value' = [value EXCEPT ![reg[t].on] = @ - 1]
  /\ IF reg[t].on \in Locks
       THEN Goto(t, "acq_own") /\ UNCHANGED reg
       ELSE Goto(t, "user") /\ reg' = [reg EXCEPT ![t] = NoReg]
  /\ UNCHANGED << sched, prios, lockVars, waiters, sleepers, panic >>

\* sema_down on zero: the thread blocks and will look again when woken, still
\* with interrupts off.
DownWait(t) ==
  /\ At(t, "down") \/ At(t, "retry")
  /\ value[reg[t].on] = 0
  /\ waiters' = [waiters EXCEPT ![reg[t].on] = InsertOrdered(@, t, pri)]
  /\ Block(t)
  /\ Goto(t, "retry")
  /\ UNCHANGED << prios, lockVars, value, sleepers, reg, panic >>

\* lock->holder = thread_current ().
AcquireOwn(t) ==
  /\ At(t, "acq_own")
  /\ holder' = [holder EXCEPT ![reg[t].on] = t]
  /\ Goto(t, "acq_list")
  /\ UNCHANGED << sched, prios, waiting, locks, lockPri, elemOf, semas, sleepers, reg, panic >>

\* waiting_lock = NULL and the lock goes onto the owner's list.
AcquireList(t) ==
  /\ At(t, "acq_list")
  /\ waiting' = [waiting EXCEPT ![t] = NoLock]
  /\ locks' = [locks EXCEPT ![t] = InsertOrdered(@, reg[t].on, lockPri)]
  /\ elemOf' = [elemOf EXCEPT ![reg[t].on] = t]
  /\ reg' = [reg EXCEPT ![t] = NoReg]
  /\ Goto(t, "user")
  /\ UNCHANGED << sched, prios, holder, lockPri, semas, sleepers, panic >>

-------------------------------------------------------------------------------
(* lock_release and thread_exit                                            *)

\* lock->holder = NULL.
Disown(t, l) ==
  /\ holder' = [holder EXCEPT ![l] = Idle]
  /\ Goto(t, "rel_up")
  /\ UNCHANGED << sched, prios, waiting, locks, lockPri, elemOf, semas, sleepers, panic >>

Release(t, l) ==
  /\ At(t, "user") /\ holder[l] = t
  /\ reg' = [reg EXCEPT ![t].on = l]
  /\ Disown(t, l)

\* sema_up (&lock->semaphore), where the releaser may yield.
ReleaseUp(t) ==
  /\ At(t, "rel_up")
  /\ SemaUp(t, reg[t].on)
  /\ Goto(t, "rel_remove")
  /\ UNCHANGED << prios, lockVars, sleepers, reg, panic >>

\* list_remove (&lock->lockelem).  If a new owner has meanwhile put the
\* element on its own list, the releaser's list still points to it and runs
\* on into the other list: list_sort's list_next then fails its assertion.
ReleaseRemove(t) ==
  /\ At(t, "rel_remove")
  /\ IF elemOf[reg[t].on] # t
       THEN panic' = "list" /\ UNCHANGED << locks, reg, pc >>
       ELSE LET l == reg[t].on
                k == CHOOSE i \in DOMAIN locks[t] : locks[t][i] = l
            IN /\ locks' = [locks EXCEPT ![t] = RemoveAt(@, k)]
               /\ reg' = [reg EXCEPT ![t].next =
                            IF k < Len(locks[t]) THEN locks[t][k + 1] ELSE NoLock]
               /\ Goto(t, "rel_restore")
               /\ UNCHANGED panic
  /\ UNCHANGED << sched, prios, waiting, holder, lockPri, elemOf, semas, sleepers >>

\* The priority that lock_release gives back.
Restored(t) ==
  IF locks[t] = << >> THEN orig[t]
                      ELSE lockPri[Head(Sorted(locks[t], lockPri))]

\* The end of lock_release: the priority is restored, maybe with a yield.
ReleaseRestore(t) ==
  /\ At(t, "rel_restore")
  /\ locks' = [locks EXCEPT ![t] = Sorted(@, lockPri)]
  /\ SetOwn(t, Restored(t))
  /\ IF reg[t].exit
       THEN Goto(t, "exit_next") /\ UNCHANGED reg
       ELSE Goto(t, "user") /\ reg' = [reg EXCEPT ![t] = NoReg]
  /\ UNCHANGED << orig, waiting, holder, lockPri, elemOf, semas, sleepers, panic >>

\* status = THREAD_DYING; schedule ().
Die(t) ==
  /\ Switch([status EXCEPT ![t] = "dead"], ready)
  /\ Goto(t, "dead")
  /\ UNCHANGED << prios, lockVars, semas, sleepers, panic >>

\* One iteration of thread_exit's loop: lock_release (l), which asserts that t
\* is the holder of l.
ExitRelease(t, l) ==
  /\ reg' = [reg EXCEPT ![t].on = l, ![t].exit = TRUE]
  /\ IF l \in {m \in Locks : holder[m] = t}
       THEN Disown(t, l)
       ELSE panic' = "list" /\ UNCHANGED << sched, prios, lockVars, semas, sleepers, pc >>

Exit(t) ==
  /\ At(t, "user") /\ "exit" \in Clients
  /\ IF locks[t] = << >> THEN Die(t) /\ UNCHANGED reg
                         ELSE ExitRelease(t, Head(locks[t]))

\* list_next (e), after e's lock was released: if the lock has a new owner,
\* the element leads into the owner's list.
ExitNext(t) ==
  /\ At(t, "exit_next")
  /\ IF elemOf[reg[t].on] # t
       THEN panic' = "list" /\ UNCHANGED << sched, prios, lockVars, semas, sleepers, pc, reg >>
       ELSE IF reg[t].next = NoLock
              THEN Die(t) /\ reg' = [reg EXCEPT ![t] = NoReg]
              ELSE ExitRelease(t, reg[t].next)

-------------------------------------------------------------------------------
(* Priorities, semaphores and sleep, called by the running thread          *)

\* thread_set_priority.
SetPriority(t, n) ==
  /\ At(t, "user") /\ "setprio" \in Clients
  /\ orig' = [orig EXCEPT ![t] = n]
  /\ IF pri[t] = orig[t]
       THEN SetOwn(t, n)
       ELSE /\ UNCHANGED pri
            /\ IF ready # << >> /\ pri[Head(ready)] > n
                 THEN Yield(t, status, ready, pri)
                 ELSE UNCHANGED sched
  /\ UNCHANGED << lockVars, semas, sleepers, pc, reg, panic >>

\* sema_down on a plain semaphore.
DownCall(t, s) ==
  /\ At(t, "user")
  /\ reg' = [reg EXCEPT ![t].on = s]
  /\ Goto(t, "down")
  /\ UNCHANGED << sched, prios, lockVars, semas, sleepers, panic >>

\* sema_up on a plain semaphore.
UpCall(t, s) ==
  /\ At(t, "user") /\ value[s] < MaxValue
  /\ SemaUp(t, s)
  /\ UNCHANGED << prios, lockVars, sleepers, pc, reg, panic >>

\* timer_sleep and thread_sleep_until.
Sleep(t) ==
  /\ At(t, "user") /\ "sleep" \in Clients
  /\ sleepers' = Append(sleepers, t)
  /\ Block(t)
  /\ UNCHANGED << prios, lockVars, semas, pc, reg, panic >>

-------------------------------------------------------------------------------
(* Interrupts                                                              *)

\* Interrupts are on, except in the loop of sema_down after a wakeup.
IntrOn == panic = "none" /\ (cur # Idle => pc[cur] # "retry")

\* thread_unblock of the threads us, in order, from an interrupt handler: when
\* one has the higher priority, thread_yield fails its assertion that it is not
\* in interrupt context.
WakeInIntr(us) ==
  /\ ready' = InsertEach(ready, us, pri)
  /\ status' = [t \in Threads |-> IF t \in Range(us) THEN "ready" ELSE status[t]]
  /\ panic' = IF cur \in {t \in Threads : \E u \in Range(us) : pri[t] < pri[u]}
                THEN "intr" ELSE panic
  /\ UNCHANGED cur

\* A device's handler calls sema_up.
IntrUp(s) ==
  /\ IntrOn /\ value[s] < MaxValue
  /\ value' = [value EXCEPT ![s] = @ + 1]
  /\ IF waiters[s] = << >>
       THEN UNCHANGED << waiters, sched, panic >>
       ELSE LET q == Sorted(waiters[s], pri)
            IN waiters' = [waiters EXCEPT ![s] = Tail(q)] /\ WakeInIntr(<< Head(q) >>)
  /\ UNCHANGED << prios, lockVars, sleepers, pc, reg >>

\* The elements of the list q that are in the set S, in their order.
Those(q, S) ==
  LET upTo[k \in 0 .. Len(q)] ==
        IF k = 0 THEN << >>
        ELSE IF q[k] \in S THEN Append(upTo[k - 1], q[k]) ELSE upTo[k - 1]
  IN upTo[Len(q)]

\* thread_awake: the timer wakes the sleepers whose time has come.
Awake(due) ==
  /\ IntrOn
  /\ sleepers' = Those(sleepers, Threads \ due)
  /\ WakeInIntr(Those(sleepers, due))
  /\ UNCHANGED << prios, lockVars, semas, pc, reg >>

\* thread_tick at the end of a slice: intr_yield_on_return.
Preempt ==
  /\ IntrOn /\ cur # Idle
  /\ Yield(cur, status, ready, pri)
  /\ UNCHANGED << prios, lockVars, semas, sleepers, pc, reg, panic >>

\* The idle thread blocks itself whenever it runs, to let others run.
IdleBlock ==
  /\ panic = "none" /\ cur = Idle /\ ready # << >>
  /\ Switch(status, ready)
  /\ UNCHANGED << prios, lockVars, semas, sleepers, pc, reg, panic >>

LockStep(t) ==
  \/ AcquireWait(t) \/ Donate(t) \/ DonateDangling(t) \/ DonateEnd(t)
  \/ Down(t) \/ DownWait(t) \/ AcquireOwn(t) \/ AcquireList(t)
  \/ ReleaseUp(t) \/ ReleaseRemove(t) \/ ReleaseRestore(t) \/ ExitNext(t)

Next ==
  \/ \E t \in Threads :
       \/ \E l \in Locks : AcquireRead(t, l) \/ Release(t, l)
       \/ LockStep(t)
       \/ \E n \in Pri : SetPriority(t, n)
       \/ \E s \in Semas : DownCall(t, s) \/ UpCall(t, s)
       \/ Sleep(t)
       \/ Exit(t)
  \/ \E s \in Semas : IntrUp(s)
  \/ \E due \in SUBSET Range(sleepers) : due # {} /\ Awake(due)
  \/ Preempt
  \/ IdleBlock

Spec == Init /\ [][Next]_vars

-------------------------------------------------------------------------------
\* The types of the kernel's variables; sema->value is unsigned and never wraps
\* below zero, whoever passes between a wakeup and the woken thread's look.
TypeOK ==
  /\ cur \in Threads \union {Idle}
  /\ ready \in Seq(Threads)
  /\ status \in [Threads -> {"running", "ready", "blocked", "dead"}]
  /\ pri \in [Threads -> Pri] /\ orig \in [Threads -> Pri]
  /\ waiting \in [Threads -> Locks \union {NoLock}]
  /\ locks \in [Threads -> Seq(Locks)]
  /\ holder \in [Locks -> Threads \union {Idle}]
  /\ lockPri \in [Locks -> Pri]
  /\ elemOf \in [Locks -> Threads \union {Idle}]
  /\ value \in [Sema -> Nat]
  /\ waiters \in [Sema -> Seq(Threads)]
  /\ sleepers \in Seq(Threads)

\* A thread is on exactly the list its status calls for, and there once: `elem'
\* can serve the ready list and a semaphore's waiters only because they exclude
\* each other.
OneList ==
  /\ IsInjective(ready) /\ IsInjective(sleepers)
  /\ \A x \in Sema : IsInjective(waiters[x])
  /\ \A t \in Threads :
       /\ status[t] = "running" <=> cur = t
       /\ status[t] = "ready" <=> t \in Range(ready)
       /\ status[t] = "blocked" <=>
            t \in Range(sleepers) \/ \E x \in Sema : t \in Range(waiters[x])
       /\ \A x \in Sema : t \in Range(waiters[x]) =>
            t \notin Range(sleepers) /\ \A y \in Sema \ {x} : t \notin Range(waiters[y])

\* The threads between sema_down and sema_up of lock l.
Owners(l) ==
  {t \in Threads : \/ holder[l] = t
                   \/ pc[t] \in {"acq_own", "acq_list", "rel_up"} /\ reg[t].on = l}

\* A lock has at most one owner, and its semaphore is 1 just when it has none,
\* whatever order threads were woken, preempted or overtaken in.
MutualExclusion ==
  \A l \in Locks :
    \/ value[l] = 1 /\ Owners(l) = {}
    \/ value[l] = 0 /\ \E t \in Threads : Owners(l) = {t}

\* No wakeup is lost: while threads wait for x, every unit of its value has a
\* thread that was woken for it and has yet to look.
NoLostWakeup ==
  \A x \in Sema :
    waiters[x] # << >> =>
      value[x] <= Cardinality({t \in Threads :
                     pc[t] = "retry" /\ reg[t].on = x /\ status[t] # "blocked"})

\* A lock's holder runs at no lower a priority than any thread that waits for
\* the lock: a thread that blocks acquiring it donates its priority
\* (tests/threads/priority-donate-one.c:3).
DonationCovers ==
  \A l \in Locks : holder[l] # Idle =>
    \A w \in Range(waiters[l]) : pri[holder[l]] >= pri[w]

\* The priority lock_release gives back covers the donors of the locks that are
\* still held: it takes the highest of their priorities (synch.c:295).
RestoredCovers ==
  \A t \in Threads :
    panic = "none" /\ pc[t] = "rel_restore" =>
      \A l \in Range(locks[t]) : \A w \in Range(waiters[l]) : Restored(t) >= pri[w]

\* A thread never runs below its own priority, original_priority: donation can
\* only raise it (thread.h:95).
NeverBelowOwn == \A t \in Threads : pri[t] >= orig[t]

\* The foremost entry of ready_list has the highest priority (thread.c:443), as
\* next_thread_to_run takes it for granted.
ReadyFrontHighest ==
  \A i \in DOMAIN ready : pri[ready[1]] >= pri[ready[i]]

\* thread_unblock does not preempt the running thread (thread.c:298), so that an
\* interrupt handler may call it: thread_tick does, and sema_up may (synch.c:112).
NoYieldInInterrupt == panic # "intr"

\* lock_release runs to its end: the element it removes after the wakeup is
\* still on the releaser's list (synch.c:285).
NoListCorruption == panic # "list"

\* The holder that a donor follows is still a thread (synch.c:215, "current
\* holder thread").
NoDanglingHolder == panic # "dangling"
===============================================================================
