-------------------------------- MODULE Mlfqs --------------------------------
(***************************************************************************)
(* The scheduler of project 1 (threads/thread.c, devices/timer.c), run as  *)
(* the multi-level feedback queue ("-o mlfqs"): the timer interrupt counts *)
(* recent_cpu, the load average and the priorities in fixed point, ends    *)
(* sleeps and time slices; threads are created and exit, sleep, wait for a *)
(* semaphore, and change their nice value and their priority.  What a call *)
(* does with interrupts on is a step each, and the timer may come between  *)
(* any two of them.                                                        *)
(*                                                                         *)
(* list_max takes the first of the highest priority; here it is any of     *)
(* them.  all_threads_max_priority goes through all_list with interrupts   *)
(* on, here in one step.  Left out: locks (their donation is off under -o  *)
(* mlfqs), but for what a thread that holds one finds when it sets its     *)
(* priority; the start of a thread_create, and one that finds no memory.   *)
(***************************************************************************)
EXTENDS Integers, FiniteSets

CONSTANTS
  Threads,    \* thread structures, the idle thread's excepted
  Idle,       \* the idle thread
  F,          \* f of float.h, the fixed point for 1 (2^14)
  TIMER_FREQ, \* timer ticks per second (100)
  TIME_SLICE, \* ticks to give each thread (4)
  PRI_MAX,    \* the highest priority (63); the lowest is 0
  Priorities, \* the priorities threads are given
  Nices,      \* the values threads are nice by
  MaxSleep,   \* bound on the ticks of a sleep
  MaxTicks    \* bound on the ticks altogether

ASSUME ThreadsAssumption == IsFiniteSet(Threads) /\ Idle \notin Threads
ASSUME FixedAssumption == F \in Nat \ {0}
ASSUME TimerAssumption == /\ TIMER_FREQ \in Nat \ {0} /\ TIME_SLICE \in Nat \ {0}
                          /\ MaxTicks \in Nat /\ MaxSleep \in Nat
ASSUME PriorityAssumption == PRI_MAX \in Nat /\ Priorities \subseteq 0 .. PRI_MAX
ASSUME NicesAssumption == Nices \subseteq -20 .. 20

VARIABLES
  cur,          \* the running thread
  status,       \* status[t]; "none" if t does not exist
  priority,     \* priority[t]
  nice,         \* nice[t]
  recent_cpu,   \* recent_cpu[t], in fixed point
  ticks_remain, \* ticks_remain[t]
  load_avg,     \* in fixed point
  ticks,        \* since the machine was booted
  thread_ticks, \* since the last switch
  call,         \* call[t]: what is left of the call that t is in
  given,        \* history: threads whose priority has not been computed since
                \* it was set, or was computed before the last fourth tick
  lag           \* history: ticks that cur has run below a ready thread

tvars == << nice, recent_cpu, ticks_remain, load_avg, ticks >>
vars == << cur, status, priority, thread_ticks, call, given, lag, tvars >>

\* A call is at op: thread_set_nice has to "price" and to "store" the priority
\* pri, which may be "late" by then; thread_create, sema_up and
\* thread_set_priority have to see who outranks the caller: a thread "created"
\* with pri, the thread of that "woke", or anybody; and there is the "yield".
Ops == {"none", "price", "store", "late", "created", "woke", "anybody", "yield"}
Calls == [op : Ops, pri : 0 .. PRI_MAX, of : Threads \union {Idle}]
NoCall == [op |-> "none", pri |-> 0, of |-> Idle]

Exists(t) == status[t] # "none"
Ready(st) == {t \in Threads : st[t] = "ready"}

\* Division in C truncates towards zero.
Div(a, b) == IF a >= 0 THEN a \div b ELSE -((-a) \div b)

\* CONVERT_X_TO_INTEGER_NEAREST.
Nearest(x) == IF x >= 0 THEN Div(x + F \div 2, F) ELSE Div(x - F \div 2, F)

\* Mutant of PriorityOf: it is not kept between the bounds.
PriorityOfUnbound(recent, n) == PRI_MAX - Nearest(Div(recent, 4)) - 2 * n

\* What update_priority computes.
PriorityOf(recent, n) ==
  LET p == PRI_MAX - Nearest(Div(recent, 4)) - 2 * n
  IN  IF p > PRI_MAX THEN PRI_MAX ELSE IF p < 0 THEN 0 ELSE p

Init ==
  /\ \E t \in Threads :
       /\ cur = t
       /\ status = [u \in Threads |-> IF u = t THEN "running" ELSE "none"]
       /\ given = {t}
  /\ priority = [t \in Threads |-> IF t = cur THEN PRI_MAX \div 2 ELSE 0]
  /\ nice = [t \in Threads |-> 0]
  /\ recent_cpu = [t \in Threads |-> 0]
  /\ ticks_remain = [t \in Threads |-> 0]
  /\ call = [t \in Threads |-> NoCall]
  /\ load_avg = 0 /\ ticks = 0 /\ thread_ticks = 0 /\ lag = 0

-------------------------------------------------------------------------------
\* Mutant of Highest: the first of the list runs, whatever its priority.
HighestNot(st, pri) == Ready(st)

\* next_thread_to_run: who may run next.
Highest(st, pri) ==
  IF Ready(st) = {} THEN {Idle}
  ELSE {t \in Ready(st) : \A u \in Ready(st) : pri[u] <= pri[t]}

\* schedule, after cur has got another status: st and pri hold by now.
Schedule(st, pri) ==
  /\ \E t \in Highest(st, pri) :
       /\ cur' = t
       /\ status' = [u \in Threads |-> IF u = t THEN "running" ELSE st[u]]
  /\ priority' = pri
  /\ thread_ticks' = 0

\* The running thread goes on.
GoesOn(st, pri) ==
  /\ status' = st /\ priority' = pri
  /\ UNCHANGED << cur, thread_ticks >>

With(st, c, s) == [t \in Threads |-> IF t = c THEN s ELSE st[t]]

\* thread_yield.
Yield(st, pri) == Schedule(With(st, cur, "ready"), pri)

-------------------------------------------------------------------------------
\* The running thread is at op, and goes on to c.
IsAt(op) == cur # Idle /\ call[cur].op = op
Then(c) == call' = [call EXCEPT ![cur] = c]
To(op) == [NoCall EXCEPT !.op = op]

\* The running thread is switched from, its status being s from now on.
Leaves(s) ==
  /\ Schedule(With(status, cur, s), priority)
  /\ UNCHANGED call

\* thread_create, up to thread_unblock, and thread_exit, of whose thread
\* structure nothing is left.
thread_create(t, pri) ==
  /\ IsAt("none") /\ ~Exists(t)
  /\ GoesOn(With(status, t, "ready"), [priority EXCEPT ![t] = pri])
  /\ Then([To("created") EXCEPT !.pri = pri])
  /\ nice' = [nice EXCEPT ![t] = 0]
  /\ recent_cpu' = [recent_cpu EXCEPT ![t] = 0]
  /\ ticks_remain' = [ticks_remain EXCEPT ![t] = 0]
  /\ given' = given \union {t}
  /\ UNCHANGED << load_avg, ticks >>

thread_exit ==
  /\ IsAt("none")
  /\ Schedule(With(status, cur, "none"), [priority EXCEPT ![cur] = 0])
  /\ nice' = [nice EXCEPT ![cur] = 0]
  /\ recent_cpu' = [recent_cpu EXCEPT ![cur] = 0]
  /\ given' = given \ {cur}
  /\ UNCHANGED << ticks_remain, load_avg, ticks, call >>

\* timer_sleep; a sleep of no ticks does nothing.
timer_sleep(n) ==
  /\ IsAt("none") /\ n > 0
  /\ ticks_remain' = [ticks_remain EXCEPT ![cur] = n]
  /\ Leaves("blocked")
  /\ UNCHANGED << nice, recent_cpu, load_avg, ticks, given >>

\* sema_down of a semaphore that is down.
sema_down ==
  /\ IsAt("none")
  /\ Leaves("blocked")
  /\ UNCHANGED << tvars, given >>

\* sema_up: of the threads that wait, one of the highest priority is unblocked;
\* nobody waiting, the caller yields.
sema_up ==
  /\ IsAt("none")
  /\ LET waiters == {t \in Threads : status[t] = "blocked" /\ ticks_remain[t] = 0}
     IN  \/ waiters = {} /\ GoesOn(status, priority) /\ Then(To("yield"))
         \/ \E t \in waiters :
              /\ \A u \in waiters : priority[u] <= priority[t]
              /\ GoesOn(With(status, t, "ready"), priority)
              /\ Then([To("woke") EXCEPT !.of = t])
  /\ UNCHANGED << tvars, given >>

\* thread_set_nice sets nice, computes a priority, stores it and yields.
thread_set_nice(n) ==
  /\ IsAt("none")
  /\ nice' = [nice EXCEPT ![cur] = n]
  /\ Then(To("price"))
  /\ UNCHANGED << cur, status, priority, recent_cpu, ticks_remain, load_avg, ticks,
                  thread_ticks, given >>

\* Mutant of update_priority: it computes from a nice of 0.
update_priorityPlain ==
  /\ IsAt("price")
  /\ Then([To("store") EXCEPT !.pri = PriorityOf(recent_cpu[cur], 0)])
  /\ UNCHANGED << cur, status, priority, thread_ticks, given, tvars >>

\* update_priority, called with interrupts on, up to where it stores the result.
update_priority ==
  /\ IsAt("price")
  /\ Then([To("store") EXCEPT !.pri = PriorityOf(recent_cpu[cur], nice[cur])])
  /\ UNCHANGED << cur, status, priority, thread_ticks, given, tvars >>

StorePriority ==
  /\ cur # Idle /\ call[cur].op \in {"store", "late"}
  /\ GoesOn(status, [priority EXCEPT ![cur] = call[cur].pri])
  /\ Then(To("yield"))
  /\ given' = IF call[cur].op = "late" THEN given \union {cur} ELSE given \ {cur}
  /\ UNCHANGED tvars

\* thread_set_priority; one that holds a lock only raises its priority.
thread_set_priority(p, holds) ==
  /\ IsAt("none")
  /\ IF holds => p > priority[cur]
       THEN /\ GoesOn(status, [priority EXCEPT ![cur] = p])
            /\ given' = given \union {cur}
       ELSE GoesOn(status, priority) /\ UNCHANGED given
  /\ Then(To("anybody"))
  /\ UNCHANGED tvars

\* Whether the caller of thread_create, sema_up or thread_set_priority yields.
\* A thread that it woke and that has exited since has any priority.
Compare ==
  /\ cur # Idle
  /\ \E outranked \in BOOLEAN :
       /\ LET c == call[cur] IN
            \/ c.op = "created" /\ outranked = (priority[cur] < c.pri)
            \/ c.op = "woke" /\ (Exists(c.of) => outranked = (priority[c.of] > priority[cur]))
            \/ /\ c.op = "anybody"
               /\ outranked = \E t \in Threads : Exists(t) /\ priority[cur] < priority[t]
       /\ Then(IF outranked THEN To("yield") ELSE NoCall)
  /\ UNCHANGED << cur, status, priority, thread_ticks, given, tvars >>

\* The thread_yield at the end of a call.
thread_yield ==
  /\ IsAt("yield")
  /\ Yield(status, priority)
  /\ Then(NoCall)
  /\ UNCHANGED << tvars, given >>

\* idle blocks again after every interrupt.
idle ==
  /\ cur = Idle
  /\ Schedule(status, priority)
  /\ UNCHANGED << tvars, call, given >>

-------------------------------------------------------------------------------
\* The timer interrupt.

\* check_remain for every thread: who has slept its time is unblocked.
Sleepers == {t \in Threads : status[t] = "blocked" /\ ticks_remain[t] > 0}
Awoken == [t \in Threads |-> IF t \in Sleepers /\ ticks_remain[t] = 1 THEN "ready"
                             ELSE status[t]]

\* Mutant of update_load_avg: the load is added whole.
update_load_avgWhole(n) == Div(59 * load_avg, 60) + n * F

\* update_load_avg, with n threads ready or running.
update_load_avg(n) == Div(59 * load_avg, 60) + Div(n * F, 60)

\* inc_recent_cpu.
Counted == [t \in Threads |-> recent_cpu[t] + (IF t = cur THEN F ELSE 0)]

\* update_recent_cpu of a thread that has r and is nice by n, under load l.
update_recent_cpu(r, n, l) == Div(Div(2 * l * F, 2 * l + F) * r, F) + n * F

EverySecond == (ticks + 1) % TIMER_FREQ = 0
EveryFourth == (ticks + 1) % 4 = 0

\* update_priority of every thread, from what recent is by now.
Repriced(recent) ==
  [t \in Threads |-> IF EveryFourth /\ Exists(t) THEN PriorityOf(recent[t], nice[t])
                     ELSE priority[t]]

\* timer_interrupt: the slice is over when thread_ticks gets to TIME_SLICE.
timer_interrupt ==
  /\ ticks < MaxTicks
  /\ ticks' = ticks + 1
  /\ ticks_remain' = [t \in Threads |-> IF t \in Sleepers THEN ticks_remain[t] - 1
                                        ELSE ticks_remain[t]]
  /\ LET n == Cardinality({t \in Threads : Awoken[t] \in {"ready", "running"}})
     IN  load_avg' = IF EverySecond THEN update_load_avg(n) ELSE load_avg
  /\ recent_cpu' = [t \in Threads |->
                      IF EverySecond /\ Exists(t)
                        THEN update_recent_cpu(Counted[t], nice[t], load_avg')
                        ELSE Counted[t]]
  /\ LET pri == Repriced(recent_cpu')
     IN  \/ /\ thread_ticks + 1 >= TIME_SLICE
            /\ Yield(Awoken, pri)
         \/ /\ thread_ticks + 1 < TIME_SLICE
            /\ thread_ticks' = thread_ticks + 1
            /\ status' = Awoken /\ priority' = pri
            /\ UNCHANGED cur
  /\ call' = [t \in Threads |-> IF EveryFourth /\ call[t].op = "store"
                                THEN [call[t] EXCEPT !.op = "late"] ELSE call[t]]
  /\ given' = IF EveryFourth THEN {} ELSE given
  /\ UNCHANGED nice

Step ==
  \/ \E t \in Threads, p \in Priorities : thread_create(t, p)
  \/ thread_exit \/ sema_down \/ sema_up \/ Compare \/ thread_yield
  \/ \E n \in 1 .. MaxSleep : timer_sleep(n)
  \/ \E n \in Nices : thread_set_nice(n)
  \/ update_priority \/ StorePriority
  \/ \E p \in Priorities, holds \in BOOLEAN : thread_set_priority(p, holds)
  \/ idle \/ timer_interrupt

\* A ready thread has a higher priority than the running one.
Outranked == \E t \in Ready(status) : cur = Idle \/ priority[t] > priority[cur]

Next ==
  /\ Step
  /\ lag' = IF Outranked /\ Outranked' THEN lag + (ticks' - ticks) ELSE 0

Spec == Init /\ [][Next]_vars

-------------------------------------------------------------------------------
\* Properties

\* The type of every variable.
TypeOK ==
  /\ cur \in Threads \union {Idle}
  /\ status \in [Threads -> {"none", "ready", "running", "blocked"}]
  /\ priority \in [Threads -> 0 .. PRI_MAX]
  /\ nice \in [Threads -> -20 .. 20] /\ recent_cpu \in [Threads -> Int]
  /\ ticks_remain \in [Threads -> Nat]
  /\ load_avg \in Nat /\ ticks \in Nat /\ thread_ticks \in 0 .. TIME_SLICE - 1
  /\ call \in [Threads -> Calls] /\ given \subseteq Threads /\ lag \in Nat

\* The load average stays between nothing and the number of threads, so the
\* products of update_load_avg and update_recent_cpu fit an int (float.h).
LoadBounded == load_avg <= F * Cardinality(Threads)

\* A thread that has become ready is kept waiting by one of lower priority for
\* less than a time slice, although an interrupt that wakes or promotes it does
\* not preempt, and priorities change under the ready list.
PreemptedSoon == Outranked => lag < TIME_SLICE

\* After every fourth tick, and until the next tick, the priorities are what
\* recent_cpu and nice say, the decay of the same tick included.  Excepted are a
\* thread in the middle of thread_set_nice, and one whose priority is what
\* thread_create or thread_set_priority was given, or what thread_set_nice has
\* computed before the tick and stored after it.
PriorityCurrent ==
  ticks % 4 = 0 =>
    \A t \in Threads :
      Exists(t) /\ t \notin given /\ call[t].op \notin {"price", "store", "late"}
        => priority[t] = PriorityOf(recent_cpu[t], nice[t])
===============================================================================
