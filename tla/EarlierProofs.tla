------------------------------ MODULE EarlierProofs ------------------------------
(***************************************************************************)
(* The programs that came before the kernel of project 4.                  *)
(*                                                                         *)
(* The scheduler of project 1, for any number of threads, any fixed point, *)
(* frequency and slice: the types, the bound of the load average, that     *)
(* priorities are current, and that no ready thread is kept waiting by a   *)
(* lower one for a time slice.                                             *)
(*                                                                         *)
(* The two monitors of cs140-ps0, for any number of threads and whatever   *)
(* cond_wait does: no train is overfull, no passenger sleeps beside a free *)
(* place, and every water takes two atoms of hydrogen.                     *)
(***************************************************************************)
EXTENDS Mlfqs, CalTrain, Reaction, TLAPS, FiniteSetTheorems

-------------------------------------------------------------------------------
(* The scheduler.  HighestRunsSoon rests on two facts: a switch leaves nobody *)
(* outranked, and thread_ticks counts at least the ticks since then.          *)

\* PreemptedSoon, as it is kept from step to step.
LagCounted == Outranked => lag <= thread_ticks

MlfqsInv == TypeOK /\ LoadBounded /\ LagCounted

\* Division in C of and by integers is an integer, and not negative when the
\* dividend is not.
LEMMA DivType ==
  ASSUME NEW a \in Int, NEW b \in Nat \ {0}
  PROVE  Div(a, b) \in Int /\ (a >= 0 => Div(a, b) \in Nat)
<1>1. CASE a >= 0
  <2>1. a \div b \in Int /\ a \div b >= 0
    BY <1>1, SMTT(30)
  <2> QED
    BY <1>1, <2>1 DEF Div
<1>2. CASE ~(a >= 0)
  <2>1. (-a) \div b \in Int
    BY SMT
  <2> QED
    BY <1>2, <2>1 DEF Div
<1> QED
  BY <1>1, <1>2

\* update_priority keeps the priority between the bounds.
LEMMA PriorityType ==
  ASSUME NEW r \in Int, NEW n \in Int
  PROVE  PriorityOf(r, n) \in 0 .. PRI_MAX
<1>1. Div(r, 4) \in Int
  BY DivType
<1>2. F \in Nat \ {0} /\ F \div 2 \in Int
  BY FixedAssumption, SMT
<1>3. Nearest(Div(r, 4)) \in Int
  <2> DEFINE x == Div(r, 4)
  <2>1. x + F \div 2 \in Int /\ x - F \div 2 \in Int
    BY <1>1, <1>2
  <2> HIDE DEF x
  <2>2. Div(x + F \div 2, F) \in Int /\ Div(x - F \div 2, F) \in Int
    BY <2>1, <1>2, DivType
  <2>3. Nearest(x) \in Int
    BY <2>2 DEF Nearest
  <2> QED
    BY <2>3 DEF x
<1> DEFINE p == PRI_MAX - Nearest(Div(r, 4)) - 2 * n
<1>4. p \in Int
  BY <1>3, PriorityAssumption
<1>5. PriorityOf(r, n) = IF p > PRI_MAX THEN PRI_MAX ELSE IF p < 0 THEN 0 ELSE p
  BY DEF PriorityOf
<1> HIDE DEF p
<1> QED
  BY <1>4, <1>5, PriorityAssumption

\* The load average of n threads does not pass n, since a sixtieth of what is
\* lost is at most what n threads add.
LEMMA LoadStep ==
  ASSUME NEW N \in Nat, NEW n \in Nat, n <= N, load_avg \in Nat, load_avg <= F * N
  PROVE  update_load_avg(n) \in Nat /\ update_load_avg(n) <= F * N
<1>1. F * N \in Nat /\ n * F \in Nat /\ n * F <= F * N
  BY FixedAssumption, SMTT(30)
<1> DEFINE B == F * N
           d == n * F
<1>2. B \in Nat /\ d \in Nat /\ d <= B /\ load_avg <= B
  BY <1>1
<1>3. update_load_avg(n) = Div(59 * load_avg, 60) + Div(d, 60)
  BY DEF update_load_avg
<1> HIDE DEF B, d
<1>4. Div(59 * load_avg, 60) = (59 * load_avg) \div 60 /\ Div(d, 60) = d \div 60
  BY <1>2 DEF Div
<1>5. /\ (59 * load_avg) \div 60 + d \div 60 \in Nat
      /\ (59 * load_avg) \div 60 + d \div 60 <= B
  BY <1>2, SMTT(30)
<1> QED
  BY <1>3, <1>4, <1>5 DEF B

Statuses == {"none", "ready", "running", "blocked"}

\* After a switch nobody who is ready outranks the running thread.
LEMMA SwitchRanks ==
  ASSUME TypeOK, NEW st \in [Threads -> Statuses], NEW pri \in [Threads -> 0 .. PRI_MAX],
         Schedule(st, pri)
  PROVE  /\ cur' \in Threads \union {Idle}
         /\ status' \in [Threads -> Statuses]
         /\ priority' = pri /\ thread_ticks' = 0
         /\ ~Outranked'
<1>1. PICK t \in Highest(st, pri) :
         cur' = t /\ status' = [u \in Threads |-> IF u = t THEN "running" ELSE st[u]]
  BY DEF Schedule
<1>2. priority' = pri /\ thread_ticks' = 0
  BY DEF Schedule
<1>3. CASE Ready(st) = {}
  <2>1. t = Idle
    BY <1>1, <1>3 DEF Highest
  <2>2. status' = st
    BY <1>1, <2>1, ThreadsAssumption
  <2>3. ~Outranked'
    BY <1>3, <2>2 DEF Outranked, Ready
  <2> QED
    BY <1>1, <1>2, <2>1, <2>2, <2>3
<1>4. CASE Ready(st) # {}
  <2>1. t \in Threads /\ \A u \in Ready(st) : pri[u] <= pri[t]
    BY <1>1, <1>4 DEF Highest, Ready
  <2>2. status' \in [Threads -> Statuses]
    BY <1>1 DEF Statuses
  <2>3. \A u \in Threads : status'[u] = "ready" => u \in Ready(st)
    BY <1>1 DEF Ready
  <2>4. \A u \in Threads : status'[u] = "ready" => ~(priority'[u] > priority'[cur'])
    BY <1>1, <1>2, <2>1, <2>3
  <2>5. ~Outranked'
    BY <1>1, <2>1, <2>4, ThreadsAssumption DEF Outranked, Ready
  <2> QED
    BY <1>1, <1>2, <2>1, <2>2, <2>5
<1> QED
  BY <1>3, <1>4

\* The same of thread_yield.
LEMMA YieldRanks ==
  ASSUME TypeOK, NEW st \in [Threads -> Statuses], NEW pri \in [Threads -> 0 .. PRI_MAX],
         Yield(st, pri)
  PROVE  /\ cur' \in Threads \union {Idle}
         /\ status' \in [Threads -> Statuses]
         /\ priority' = pri /\ thread_ticks' = 0
         /\ ~Outranked'
<1>1. With(st, cur, "ready") \in [Threads -> Statuses]
  BY DEF With, Statuses
<1> QED
  BY <1>1, SwitchRanks DEF Yield

\* How Next keeps lag.
LagStep == lag' = IF Outranked /\ Outranked' THEN lag + (ticks' - ticks) ELSE 0

\* A step between two ticks, in which cur gives the processor up or goes on.
LEMMA BetweenTicks ==
  ASSUME MlfqsInv, LagStep, NEW st \in [Threads -> Statuses],
         NEW pri \in [Threads -> 0 .. PRI_MAX],
         Schedule(st, pri) \/ Yield(st, pri) \/ GoesOn(st, pri),
         ticks' = ticks, load_avg' = load_avg, nice' \in [Threads -> -20 .. 20],
         recent_cpu' \in [Threads -> Int], ticks_remain' \in [Threads -> Nat],
         call' \in [Threads -> Calls], given' \subseteq Threads
  PROVE  MlfqsInv'
<1>1. CASE Schedule(st, pri) \/ Yield(st, pri)
  <2>1. /\ cur' \in Threads \union {Idle} /\ status' \in [Threads -> Statuses]
        /\ priority' = pri /\ thread_ticks' = 0 /\ ~Outranked'
    BY <1>1, SwitchRanks, YieldRanks DEF MlfqsInv
  <2>2. lag' = 0
    BY <2>1 DEF LagStep
  <2>3. TypeOK'
    BY <2>1, <2>2, TimerAssumption DEF MlfqsInv, TypeOK, Statuses
  <2> QED
    BY <2>1, <2>3 DEF MlfqsInv, LoadBounded, LagCounted
<1>2. CASE GoesOn(st, pri)
  <2>1. /\ cur' = cur /\ status' = st /\ priority' = pri
        /\ thread_ticks' = thread_ticks
    BY <1>2 DEF GoesOn
  <2>2. lag' \in Nat /\ LagCounted'
    BY <2>1 DEF LagStep, MlfqsInv, LagCounted, TypeOK
  <2>3. TypeOK'
    BY <2>1, <2>2 DEF MlfqsInv, TypeOK, Statuses
  <2> QED
    BY <2>2, <2>3 DEF MlfqsInv, LoadBounded
<1> QED
  BY <1>1, <1>2

\* What the timer interrupt makes of the numbers.
LEMMA TickNumbers ==
  ASSUME MlfqsInv, timer_interrupt
  PROVE  /\ load_avg' \in Nat /\ load_avg' <= F * Cardinality(Threads)
         /\ recent_cpu' \in [Threads -> Int]
         /\ ticks_remain' \in [Threads -> Nat]
         /\ Repriced(recent_cpu') \in [Threads -> 0 .. PRI_MAX]
         /\ Awoken \in [Threads -> Statuses]
<1> DEFINE S == {t \in Threads : Awoken[t] \in {"ready", "running"}}
<1>1. Cardinality(S) \in Nat /\ Cardinality(S) <= Cardinality(Threads)
  BY FS_Subset, FS_CardinalityType, ThreadsAssumption
<1>2. Cardinality(Threads) \in Nat
  BY FS_CardinalityType, ThreadsAssumption
<1>3. load_avg' \in Nat /\ load_avg' <= F * Cardinality(Threads)
  <2>1. load_avg' = update_load_avg(Cardinality(S)) \/ load_avg' = load_avg
    BY DEF timer_interrupt
  <2> HIDE DEF S
  <2> QED
    BY <1>1, <1>2, <2>1, LoadStep DEF MlfqsInv, TypeOK, LoadBounded
<1>4. Counted \in [Threads -> Int]
  BY FixedAssumption DEF Counted, MlfqsInv, TypeOK
<1>5. ASSUME NEW r \in Int, NEW n \in -20 .. 20
      PROVE  update_recent_cpu(r, n, load_avg') \in Int
  <2> DEFINE l == load_avg'
             a == Div(2 * l * F, 2 * l + F)
  <2>1. l \in Nat /\ F \in Nat \ {0}
    BY <1>3, FixedAssumption
  <2> HIDE DEF l
  <2>2. 2 * l * F \in Int /\ 2 * l + F \in Nat \ {0}
    BY <2>1
  <2>3. a \in Int
    BY <2>2, DivType
  <2> HIDE DEF a
  <2>4. a * r \in Int /\ n * F \in Int
    BY <2>1, <2>3
  <2>5. Div(a * r, F) + n * F \in Int
    BY <2>1, <2>4, DivType
  <2> QED
    BY <2>5 DEF update_recent_cpu, a, l
<1>6. recent_cpu' \in [Threads -> Int]
  <2>1. \A t \in Threads : recent_cpu'[t] \in Int
    BY <1>4, <1>5 DEF timer_interrupt, MlfqsInv, TypeOK
  <2> QED
    BY <2>1 DEF timer_interrupt
<1>7. ticks_remain' \in [Threads -> Nat]
  BY DEF timer_interrupt, Sleepers, MlfqsInv, TypeOK
<1>8. Repriced(recent_cpu') \in [Threads -> 0 .. PRI_MAX]
  <2>0. \A t \in Threads : recent_cpu'[t] \in Int /\ nice[t] \in Int
    BY <1>6 DEF MlfqsInv, TypeOK
  <2>1. \A t \in Threads : PriorityOf(recent_cpu'[t], nice[t]) \in 0 .. PRI_MAX
    BY <2>0, PriorityType, Zenon
  <2> QED
    BY <2>1 DEF Repriced, MlfqsInv, TypeOK
<1>9. Awoken \in [Threads -> Statuses]
  BY DEF Awoken, Statuses, MlfqsInv, TypeOK
<1> QED
  BY <1>3, <1>6, <1>7, <1>8, <1>9

\* A tick counts in lag what it counts in thread_ticks, or switches.
LEMMA TickStep ==
  ASSUME MlfqsInv, LagStep, timer_interrupt
  PROVE  MlfqsInv'
<1> DEFINE pri == Repriced(recent_cpu')
<1>1. /\ load_avg' \in Nat /\ load_avg' <= F * Cardinality(Threads)
      /\ recent_cpu' \in [Threads -> Int] /\ ticks_remain' \in [Threads -> Nat]
      /\ pri \in [Threads -> 0 .. PRI_MAX] /\ Awoken \in [Threads -> Statuses]
  BY TickNumbers
<1>2. ticks' = ticks + 1 /\ nice' = nice /\ given' \subseteq Threads
  BY DEF timer_interrupt, MlfqsInv, TypeOK
<1>6. call' \in [Threads -> Calls]
  <2>1. \A t \in Threads : call[t] \in Calls /\ [call[t] EXCEPT !.op = "late"] \in Calls
    BY DEF MlfqsInv, TypeOK, Calls, Ops
  <2> QED
    BY <2>1 DEF timer_interrupt
<1>3. \/ Yield(Awoken, pri)
      \/ /\ thread_ticks + 1 < TIME_SLICE /\ thread_ticks' = thread_ticks + 1
         /\ status' = Awoken /\ priority' = pri /\ cur' = cur
  BY DEF timer_interrupt
<1> HIDE DEF pri
<1>4. CASE Yield(Awoken, pri)
  <2>1. /\ cur' \in Threads \union {Idle} /\ status' \in [Threads -> Statuses]
        /\ priority' = pri /\ thread_ticks' = 0 /\ ~Outranked'
    BY <1>1, <1>4, YieldRanks DEF MlfqsInv
  <2>2. lag' = 0
    BY <2>1 DEF LagStep
  <2>3. TypeOK'
    BY <1>1, <1>2, <1>6, <2>1, <2>2, TimerAssumption DEF MlfqsInv, TypeOK, Statuses
  <2> QED
    BY <1>1, <2>1, <2>3 DEF MlfqsInv, LoadBounded, LagCounted
<1>5. CASE /\ thread_ticks + 1 < TIME_SLICE /\ thread_ticks' = thread_ticks + 1
           /\ status' = Awoken /\ priority' = pri /\ cur' = cur
  <2>1. lag' \in Nat /\ LagCounted'
    BY <1>2, <1>5 DEF LagStep, MlfqsInv, LagCounted, TypeOK
  <2>2. TypeOK'
    BY <1>1, <1>2, <1>5, <1>6, <2>1, TimerAssumption DEF MlfqsInv, TypeOK, Statuses
  <2> QED
    BY <1>1, <2>1, <2>2 DEF MlfqsInv, LoadBounded
<1> QED
  BY <1>3, <1>4, <1>5

\* Every other action is a step between two ticks.
LEMMA OtherSteps ==
  ASSUME MlfqsInv, LagStep, Step, ~timer_interrupt
  PROVE  MlfqsInv'
<1> USE DEF Statuses
<1>0. /\ status \in [Threads -> Statuses] /\ priority \in [Threads -> 0 .. PRI_MAX]
      /\ nice \in [Threads -> -20 .. 20] /\ recent_cpu \in [Threads -> Int]
      /\ ticks_remain \in [Threads -> Nat] /\ given \subseteq Threads
      /\ cur \in Threads \union {Idle} /\ call \in [Threads -> Calls]
  BY DEF MlfqsInv, TypeOK
\* The ends of a call, and a step that leaves the numbers alone.
<1>a. \A c \in Calls : Then(c) => call' \in [Threads -> Calls]
  BY <1>0 DEF Then
<1>b. /\ NoCall \in Calls /\ \A op \in Ops : To(op) \in Calls
      /\ \A op \in Ops, p \in 0 .. PRI_MAX : [To(op) EXCEPT !.pri = p] \in Calls
      /\ \A op \in Ops, t \in Threads : [To(op) EXCEPT !.of = t] \in Calls
  <2>1. 0 \in 0 .. PRI_MAX /\ "none" \in Ops
    BY PriorityAssumption DEF Ops
  <2>2. NoCall \in Calls
    BY <2>1 DEF NoCall, Calls
  <2>3. \A op \in Ops : To(op) \in Calls
    BY <2>2 DEF To, Calls
  <2> QED
    BY <2>2, <2>3 DEF Calls
<1>c. ASSUME UNCHANGED tvars, NEW st \in [Threads -> Statuses],
             NEW pri \in [Threads -> 0 .. PRI_MAX],
             Schedule(st, pri) \/ Yield(st, pri) \/ GoesOn(st, pri),
             call' \in [Threads -> Calls], given' \subseteq Threads
      PROVE  MlfqsInv'
  <2>1. /\ ticks' = ticks /\ load_avg' = load_avg
        /\ nice' = nice /\ recent_cpu' = recent_cpu /\ ticks_remain' = ticks_remain
    BY <1>c DEF tvars
  <2> QED
    BY <1>0, <1>c, <2>1, BetweenTicks
<1>d. \A s \in Statuses : With(status, cur, s) \in [Threads -> Statuses]
  BY <1>0 DEF With
<1>e. UNCHANGED << cur, status, priority, thread_ticks >> => GoesOn(status, priority)
  BY DEF GoesOn
<1>1. ASSUME NEW t \in Threads, NEW p \in Priorities, thread_create(t, p)
      PROVE  MlfqsInv'
  <2> DEFINE st == With(status, t, "ready")
             new == [priority EXCEPT ![t] = p]
  <2>0. p \in 0 .. PRI_MAX
    BY PriorityAssumption
  <2>1. st \in [Threads -> Statuses] /\ new \in [Threads -> 0 .. PRI_MAX]
    BY <1>0, <2>0 DEF With
  <2>2. GoesOn(st, new)
    BY <1>1 DEF thread_create
  <2>3. /\ ticks' = ticks /\ load_avg' = load_avg /\ given' \subseteq Threads
        /\ nice' \in [Threads -> -20 .. 20] /\ recent_cpu' \in [Threads -> Int]
        /\ ticks_remain' \in [Threads -> Nat]
    BY <1>0, <1>1 DEF thread_create
  <2>4. call' \in [Threads -> Calls]
    BY <1>1, <1>a, <1>b, <2>0 DEF thread_create, Ops
  <2> HIDE DEF st, new
  <2> QED
    BY <2>1, <2>2, <2>3, <2>4, BetweenTicks
<1>2. ASSUME thread_exit PROVE MlfqsInv'
  <2> DEFINE new == [priority EXCEPT ![cur] = 0]
  <2>0. 0 \in 0 .. PRI_MAX /\ 0 \in -20 .. 20 /\ cur \in Threads
    BY <1>0, <1>2, PriorityAssumption DEF thread_exit, IsAt
  <2>1. new \in [Threads -> 0 .. PRI_MAX] /\ With(status, cur, "none") \in [Threads -> Statuses]
    BY <1>0, <1>d, <2>0
  <2>2. /\ ticks' = ticks /\ load_avg' = load_avg /\ given' \subseteq Threads
        /\ nice' \in [Threads -> -20 .. 20] /\ recent_cpu' \in [Threads -> Int]
        /\ ticks_remain' = ticks_remain /\ call' = call
        /\ Schedule(With(status, cur, "none"), new)
    BY <1>0, <1>2, <2>0 DEF thread_exit
  <2> HIDE DEF new
  <2> QED
    BY <1>0, <2>1, <2>2, BetweenTicks
<1>3. ASSUME sema_down PROVE MlfqsInv'
  <2>1. UNCHANGED tvars /\ call' = call /\ given' = given
        /\ Schedule(With(status, cur, "blocked"), priority)
    BY <1>3 DEF sema_down, Leaves
  <2> QED
    BY <1>0, <1>c, <1>d, <2>1
<1>4. ASSUME sema_up PROVE MlfqsInv'
  <2>1. \A t \in Threads : With(status, t, "ready") \in [Threads -> Statuses]
    BY <1>0 DEF With
  <2>2. PICK st \in [Threads -> Statuses] : GoesOn(st, priority)
    BY <1>0, <1>4, <2>1 DEF sema_up
  <2>3. UNCHANGED tvars /\ given' = given /\ call' \in [Threads -> Calls]
    BY <1>4, <1>a, <1>b DEF sema_up, Ops
  <2> QED
    BY <1>0, <1>c, <2>2, <2>3
<1>5. ASSUME idle PROVE MlfqsInv'
  <2>1. UNCHANGED tvars /\ call' = call /\ given' = given /\ Schedule(status, priority)
    BY <1>5 DEF idle
  <2> QED
    BY <1>0, <1>c, <2>1
<1>6. ASSUME NEW n \in 1 .. MaxSleep, timer_sleep(n) PROVE MlfqsInv'
  <2>1. With(status, cur, "blocked") \in [Threads -> Statuses]
    BY <1>d
  <2>2. n \in Nat
    BY TimerAssumption
  <2>3. /\ ticks' = ticks /\ load_avg' = load_avg /\ given' = given
        /\ nice' = nice /\ recent_cpu' = recent_cpu /\ call' = call
        /\ ticks_remain' = [ticks_remain EXCEPT ![cur] = n]
        /\ Schedule(With(status, cur, "blocked"), priority)
    BY <1>6 DEF timer_sleep, Leaves
  <2>4. ticks_remain' \in [Threads -> Nat]
    BY <1>0, <2>2, <2>3
  <2> QED
    BY <1>0, <2>1, <2>3, <2>4, BetweenTicks
<1>7. ASSUME NEW n \in Nices, thread_set_nice(n) PROVE MlfqsInv'
  <2>1. n \in -20 .. 20
    BY NicesAssumption
  <2>2. /\ ticks' = ticks /\ load_avg' = load_avg /\ given' = given
        /\ recent_cpu' = recent_cpu /\ ticks_remain' = ticks_remain
        /\ nice' = [nice EXCEPT ![cur] = n] /\ GoesOn(status, priority)
    BY <1>7, <1>e DEF thread_set_nice
  <2>3. call' \in [Threads -> Calls]
    BY <1>7, <1>a, <1>b DEF thread_set_nice, Ops
  <2>4. nice' \in [Threads -> -20 .. 20]
    BY <1>0, <2>1, <2>2
  <2> QED
    BY <1>0, <2>2, <2>3, <2>4, BetweenTicks
<1>8. ASSUME update_priority PROVE MlfqsInv'
  <2>1. cur \in Threads /\ recent_cpu[cur] \in Int /\ nice[cur] \in Int
    BY <1>0, <1>8 DEF update_priority, IsAt
  <2>2. PriorityOf(recent_cpu[cur], nice[cur]) \in 0 .. PRI_MAX
    BY <2>1, PriorityType
  <2>3. call' \in [Threads -> Calls]
    BY <1>8, <1>a, <1>b, <2>2 DEF update_priority, Ops
  <2>4. UNCHANGED tvars /\ given' = given /\ GoesOn(status, priority)
    BY <1>8, <1>e DEF update_priority
  <2> QED
    BY <1>0, <1>c, <2>3, <2>4
<1>9. ASSUME StorePriority PROVE MlfqsInv'
  <2> DEFINE new == [priority EXCEPT ![cur] = call[cur].pri]
  <2>1. cur \in Threads /\ call[cur].pri \in 0 .. PRI_MAX
    BY <1>0, <1>9 DEF StorePriority, Calls
  <2>2. new \in [Threads -> 0 .. PRI_MAX]
    BY <1>0, <2>1
  <2>3. call' \in [Threads -> Calls]
    BY <1>9, <1>a, <1>b DEF StorePriority, Ops
  <2>4. UNCHANGED tvars /\ given' \subseteq Threads /\ GoesOn(status, new)
    BY <1>0, <1>9, <2>1 DEF StorePriority
  <2> HIDE DEF new
  <2> QED
    BY <1>0, <1>c, <2>2, <2>3, <2>4
<1>10. ASSUME NEW p \in Priorities, NEW holds \in BOOLEAN, thread_set_priority(p, holds)
       PROVE  MlfqsInv'
  <2> DEFINE new == [priority EXCEPT ![cur] = p]
  <2>1. cur \in Threads /\ p \in 0 .. PRI_MAX
    BY <1>0, <1>10, PriorityAssumption DEF thread_set_priority, IsAt
  <2>2. new \in [Threads -> 0 .. PRI_MAX]
    BY <1>0, <2>1
  <2>3. call' \in [Threads -> Calls]
    BY <1>10, <1>a, <1>b DEF thread_set_priority, Ops
  <2>4. /\ UNCHANGED tvars /\ given' \subseteq Threads
        /\ GoesOn(status, new) \/ GoesOn(status, priority)
    BY <1>0, <1>10, <2>1 DEF thread_set_priority
  <2> HIDE DEF new
  <2> QED
    BY <1>0, <1>c, <2>2, <2>3, <2>4
<1>11. ASSUME Compare PROVE MlfqsInv'
  <2>1. call' \in [Threads -> Calls]
    BY <1>11, <1>a, <1>b DEF Compare, Ops
  <2>2. UNCHANGED tvars /\ given' = given /\ GoesOn(status, priority)
    BY <1>11, <1>e DEF Compare
  <2> QED
    BY <1>0, <1>c, <2>1, <2>2
<1>12. ASSUME thread_yield PROVE MlfqsInv'
  <2>1. call' \in [Threads -> Calls]
    BY <1>12, <1>a, <1>b DEF thread_yield
  <2>2. UNCHANGED tvars /\ given' = given /\ Yield(status, priority)
    BY <1>12 DEF thread_yield
  <2> QED
    BY <1>0, <1>c, <2>1, <2>2
<1> QED
  BY <1>1, <1>2, <1>3, <1>4, <1>5, <1>6, <1>7, <1>8, <1>9, <1>10, <1>11, <1>12 DEF Step

\* The invariant of the scheduler, for every number of threads and every choice
\* of the numbers: a tick and the steps between two ticks keep it.
THEOREM MlfqsInvariant == Spec => []MlfqsInv
<1>1. Init => MlfqsInv
  <2> SUFFICES ASSUME Init PROVE MlfqsInv
    OBVIOUS
  <2>1. PRI_MAX \div 2 \in 0 .. PRI_MAX
    BY PriorityAssumption, SMT
  <2>2. TypeOK
    <3>1. NoCall \in Calls
      BY PriorityAssumption DEF NoCall, Calls, Ops
    <3>2. call \in [Threads -> Calls] /\ given \subseteq Threads
      BY <3>1 DEF Init
    <3> QED
      BY <2>1, <3>2, TimerAssumption, PriorityAssumption DEF Init, TypeOK
  <2>3. LoadBounded
    BY FS_CardinalityType, ThreadsAssumption, FixedAssumption DEF Init, LoadBounded
  <2>4. LagCounted
    BY DEF Init, LagCounted
  <2> QED
    BY <2>2, <2>3, <2>4 DEF MlfqsInv
<1>2. MlfqsInv /\ [Next]_vars => MlfqsInv'
  <2> SUFFICES ASSUME MlfqsInv, [Next]_vars PROVE MlfqsInv'
    OBVIOUS
  <2>1. CASE Next
    BY <2>1, TickStep, OtherSteps DEF Next, LagStep
  <2>2. CASE UNCHANGED vars
    BY <2>2 DEF vars, tvars, MlfqsInv, TypeOK, LoadBounded, LagCounted, Outranked, Ready
  <2> QED
    BY <2>1, <2>2
<1> QED
  BY <1>1, <1>2, PTL DEF Spec

\* The type of every variable: priorities stay between the bounds and
\* thread_ticks below TIME_SLICE.
THEOREM MlfqsTyped == Spec => []TypeOK
  BY MlfqsInvariant, PTL DEF MlfqsInv

\* update_load_avg keeps the load average below the number of threads.
THEOREM LoadStaysBounded == Spec => []LoadBounded
  BY MlfqsInvariant, PTL DEF MlfqsInv

\* A ready thread does not wait for a lower one as long as a time slice:
\* schedule takes the highest, and the tick that ends the slice yields.
THEOREM HighestRunsSoon == Spec => []PreemptedSoon
<1>1. MlfqsInv => PreemptedSoon
  BY TimerAssumption DEF MlfqsInv, TypeOK, LagCounted, PreemptedSoon
<1> QED
  BY <1>1, MlfqsInvariant, PTL
-------------------------------------------------------------------------------
\* The running thread is one that was created and has not exited.
CurExists == cur \in Threads => Exists(cur)

\* A thread that does not exist is in no call.
Uncalled == \A t \in Threads : Exists(t) \/ call[t].op = "none"

\* A priority that has been computed and not stored is what recent_cpu and nice
\* say, unless a fourth tick has come since.
ComputedCurrent ==
  ticks % 4 = 0 =>
    \A t \in Threads :
      call[t].op = "store" => call[t].pri = PriorityOf(recent_cpu[t], nice[t])

\* PriorityCurrent, as it is kept from step to step.
PriceInv == CurExists /\ Uncalled /\ ComputedCurrent /\ PriorityCurrent

\* A switch makes no thread exist, and runs one that does.
LEMMA SwitchExists ==
  ASSUME NEW st, NEW pri, Schedule(st, pri)
  PROVE  /\ \A t \in Threads : Exists(t)' <=> st[t] # "none"
         /\ CurExists' /\ priority' = pri
<1>1. PICK h \in Highest(st, pri) :
         cur' = h /\ status' = [u \in Threads |-> IF u = h THEN "running" ELSE st[u]]
  BY DEF Schedule
<1>2. h \in Threads => st[h] = "ready"
  BY ThreadsAssumption DEF Highest, Ready
<1>3. \A t \in Threads : status'[t] = IF t = h THEN "running" ELSE st[t]
  BY <1>1
<1> QED
  BY <1>1, <1>2, <1>3 DEF Schedule, CurExists, Exists

\* The same of the running thread's own switch, its status s, and of going on.
LEMMA RunExists ==
  ASSUME CurExists, NEW st, NEW pri, NEW s, s # "none",
         \A t \in Threads : st[t] # "none" <=> Exists(t),
         Schedule(With(st, cur, s), pri) \/ GoesOn(st, pri)
  PROVE  /\ \A t \in Threads : Exists(t)' <=> Exists(t)
         /\ CurExists' /\ priority' = pri
<1>1. CASE Schedule(With(st, cur, s), pri)
  <2>1. /\ \A t \in Threads : Exists(t)' <=> With(st, cur, s)[t] # "none"
        /\ CurExists' /\ priority' = pri
    BY <1>1, SwitchExists
  <2>2. \A t \in Threads : With(st, cur, s)[t] = IF t = cur THEN s ELSE st[t]
    BY DEF With
  <2> QED
    BY <2>1, <2>2 DEF CurExists
<1>2. CASE GoesOn(st, pri)
  BY <1>2 DEF GoesOn, CurExists, Exists
<1> QED
  BY <1>1, <1>2

\* What a step leaves alone of t.
Unmoved(t) == /\ priority'[t] = priority[t] /\ recent_cpu'[t] = recent_cpu[t]
              /\ nice'[t] = nice[t] /\ call'[t] = call[t]
              /\ (t \in given' <=> t \in given) /\ (Exists(t)' <=> Exists(t))

\* The ops of a call in which the priority may be anything, and in which it may
\* not be what recent_cpu and nice say.
Pricing == {"price", "store", "late"}

\* A step without a tick, which leaves every thread alone but n, and what
\* PriceInv says of n.
LEMMA PricesKept ==
  ASSUME PriceInv, ticks' = ticks, CurExists', NEW n,
         \A t \in Threads : t # n => Unmoved(t),
         n \in Threads => Exists(n)' \/ call'[n].op = "none",
         n \in Threads /\ ticks % 4 = 0 =>
           /\ call'[n].op = "store" => call'[n].pri = PriorityOf(recent_cpu'[n], nice'[n])
           /\ Exists(n)' /\ n \notin given' /\ call'[n].op \notin Pricing
                => priority'[n] = PriorityOf(recent_cpu'[n], nice'[n])
  PROVE  PriceInv'
<1>1. Uncalled'
  BY DEF PriceInv, Uncalled, Unmoved
<1>2. ComputedCurrent'
  BY DEF PriceInv, ComputedCurrent, Unmoved
<1>3. PriorityCurrent'
  BY DEF PriceInv, PriorityCurrent, Unmoved, Pricing
<1> QED
  BY <1>1, <1>2, <1>3 DEF PriceInv

\* A new thread is one of those given their priority, and the caller goes on.
LEMMA CreatePrices ==
  ASSUME TypeOK, PriceInv, NEW n \in Threads, NEW p \in Priorities, thread_create(n, p)
  PROVE  PriceInv'
<1>1. /\ cur \in Threads /\ cur # n /\ Exists(cur) /\ ~Exists(n)
      /\ call[cur].op = "none" /\ call[n].op = "none"
  BY DEF thread_create, IsAt, TypeOK, PriceInv, CurExists, Uncalled
<1>2. /\ ticks' = ticks /\ cur' = cur /\ status' = With(status, n, "ready")
      /\ priority' = [priority EXCEPT ![n] = p] /\ nice' = [nice EXCEPT ![n] = 0]
      /\ recent_cpu' = [recent_cpu EXCEPT ![n] = 0] /\ given' = given \union {n}
      /\ call' = [call EXCEPT ![cur] = [To("created") EXCEPT !.pri = p]]
  BY DEF thread_create, GoesOn, Then
<1>3. [To("created") EXCEPT !.pri = p].op = "created"
  BY DEF To, NoCall
<1>4. \A t \in Threads : /\ t # n => status'[t] = status[t]
                         /\ t # n => priority'[t] = priority[t] /\ nice'[t] = nice[t]
                         /\ t # n => recent_cpu'[t] = recent_cpu[t]
                         /\ t # n => (t \in given' <=> t \in given)
                         /\ t # cur => call'[t] = call[t]
  BY <1>2 DEF With, TypeOK
<1>5. status'[n] = "ready" /\ n \in given' /\ call'[cur].op = "created"
  BY <1>1, <1>2, <1>3 DEF With, TypeOK
<1>6. CurExists'
  BY <1>1, <1>2, <1>4 DEF CurExists, Exists
<1>7. Uncalled'
  BY <1>1, <1>4, <1>5 DEF PriceInv, Uncalled, Exists
<1>8. ComputedCurrent'
  <2>1. \A t \in Threads : call'[t].op = "store" => t # n /\ t # cur
    BY <1>1, <1>4, <1>5
  <2> QED
    BY <1>2, <1>4, <2>1 DEF PriceInv, ComputedCurrent
<1>9. PriorityCurrent'
  <2>1. ASSUME NEW t \in Threads, Exists(t)', t \notin given', call'[t].op \notin Pricing
        PROVE  /\ Exists(t) /\ t \notin given /\ call[t].op \notin Pricing
               /\ priority'[t] = priority[t] /\ nice'[t] = nice[t]
               /\ recent_cpu'[t] = recent_cpu[t]
    <3>1. t # n
      BY <1>5, <2>1
    <3>2. call[t].op \notin Pricing
      BY <1>1, <1>4, <2>1 DEF Pricing
    <3> QED
      BY <1>4, <2>1, <3>1, <3>2 DEF Exists
  <2> QED
    BY <1>2, <2>1 DEF PriceInv, PriorityCurrent, Pricing
<1> QED
  BY <1>6, <1>7, <1>8, <1>9 DEF PriceInv

\* What a step leaves when it changes no number and no call but the caller's.
Calm(pri) ==
  /\ ticks' = ticks /\ nice' = nice /\ recent_cpu' = recent_cpu
  /\ \A t \in Threads : Exists(t)' <=> Exists(t)
  /\ CurExists' /\ priority' = pri
  /\ \A t \in Threads : t # cur => call'[t] = call[t]

\* Between two ticks the running thread is the only one whose numbers and whose
\* call change, but for a thread it creates.
LEMMA OtherPrices ==
  ASSUME TypeOK, PriceInv, Step, ~timer_interrupt
  PROVE  PriceInv'
<1>0. /\ CurExists /\ \A t \in Threads : status[t] # "none" <=> Exists(t)
      /\ cur \in Threads => Exists(cur)
  BY DEF PriceInv, Exists, CurExists
<1>a. ASSUME NEW c, Then(c)
      PROVE  /\ \A t \in Threads : t # cur => call'[t] = call[t]
             /\ cur \in Threads => call'[cur] = c
  BY <1>a DEF Then, TypeOK
<1>c. \A op : /\ To(op).op = op
              /\ \A p : [To(op) EXCEPT !.pri = p].op = op
              /\ \A p : [To(op) EXCEPT !.pri = p].pri = p
              /\ \A t : [To(op) EXCEPT !.of = t].op = op
  BY DEF To, NoCall
<1>d. NoCall.op = "none"
  BY DEF NoCall
<1>e. ASSUME NEW s, s # "none",
             Schedule(With(status, cur, s), priority) \/ GoesOn(status, priority)
      PROVE  /\ CurExists' /\ priority' = priority
             /\ \A t \in Threads : Exists(t)' <=> Exists(t)
  BY <1>0, <1>e, RunExists
<1>f. ASSUME Calm(priority), given' = given,
             cur \in Threads => /\ call'[cur].op # "store"
                                /\ call'[cur].op \in Pricing \/ call[cur].op \notin Pricing
      PROVE  PriceInv'
  <2>1. \A t \in Threads : t # cur => Unmoved(t)
    BY <1>f DEF Calm, Unmoved
  <2>2. ASSUME NEW t \in Threads, t = cur, Exists(t)', t \notin given',
               call'[t].op \notin Pricing, ticks % 4 = 0
        PROVE  priority'[t] = PriorityOf(recent_cpu'[t], nice'[t])
    <3>1. Exists(t) /\ t \notin given /\ call[t].op \notin Pricing
      BY <1>f, <2>2 DEF Calm
    <3>2. priority[t] = PriorityOf(recent_cpu[t], nice[t])
      BY <2>2, <3>1 DEF PriceInv, PriorityCurrent, Pricing
    <3> QED
      BY <1>f, <3>2 DEF Calm
  <2> QED
    BY <1>0, <1>f, <2>1, <2>2, PricesKept DEF Calm
<1>1. \A t \in Threads, p \in Priorities : thread_create(t, p) => PriceInv'
  BY CreatePrices
<1>2. ASSUME thread_exit PROVE PriceInv'
  <2>1. /\ ticks' = ticks /\ call' = call /\ given' = given \ {cur}
        /\ nice' = [nice EXCEPT ![cur] = 0] /\ recent_cpu' = [recent_cpu EXCEPT ![cur] = 0]
        /\ Schedule(With(status, cur, "none"), [priority EXCEPT ![cur] = 0])
        /\ cur \in Threads /\ call[cur].op = "none"
    BY <1>2 DEF thread_exit, IsAt, TypeOK
  <2>2. /\ \A t \in Threads : Exists(t)' <=> With(status, cur, "none")[t] # "none"
        /\ CurExists' /\ priority' = [priority EXCEPT ![cur] = 0]
    BY <2>1, SwitchExists
  <2>3. \A t \in Threads : /\ t = cur => ~Exists(t)'
                           /\ t # cur => (Exists(t)' <=> Exists(t))
    BY <2>2 DEF With, Exists
  <2>4. \A t \in Threads : t # cur => Unmoved(t)
    BY <2>1, <2>2, <2>3 DEF Unmoved, TypeOK
  <2> QED
    BY <2>1, <2>2, <2>3, <2>4, PricesKept
<1>3. ASSUME sema_down \/ \E n \in 1 .. MaxSleep : timer_sleep(n) PROVE PriceInv'
  <2>1. /\ ticks' = ticks /\ nice' = nice /\ recent_cpu' = recent_cpu /\ call' = call
        /\ given' = given /\ Schedule(With(status, cur, "blocked"), priority)
        /\ call[cur].op = "none"
    BY <1>3 DEF sema_down, timer_sleep, Leaves, tvars, IsAt
  <2>2. Calm(priority)
    BY <1>e, <2>1 DEF Calm
  <2> QED
    BY <1>f, <2>1, <2>2 DEF Pricing
<1>4. ASSUME sema_up PROVE PriceInv'
  <2>1. PICK st, c : /\ GoesOn(st, priority) /\ Then(c) /\ c.op \in {"yield", "woke"}
                     /\ st = status \/ \E t \in Threads : /\ status[t] = "blocked"
                                                          /\ st = With(status, t, "ready")
    BY <1>4, <1>c DEF sema_up
  <2>2. \A t \in Threads : st[t] # "none" <=> Exists(t)
    BY <2>1 DEF With, Exists
  <2>3. /\ CurExists' /\ priority' = priority
        /\ \A t \in Threads : Exists(t)' <=> Exists(t)
    BY <1>0, <2>1, <2>2, RunExists
  <2>4. /\ ticks' = ticks /\ nice' = nice /\ recent_cpu' = recent_cpu /\ given' = given
        /\ cur \in Threads /\ call[cur].op = "none"
    BY <1>4 DEF sema_up, tvars, IsAt, TypeOK
  <2>5. Calm(priority)
    BY <1>a, <2>1, <2>3, <2>4 DEF Calm
  <2> QED
    BY <1>a, <1>f, <2>1, <2>4, <2>5 DEF Pricing
<1>5. ASSUME NEW n \in Nices, thread_set_nice(n) PROVE PriceInv'
  <2>1. /\ ticks' = ticks /\ recent_cpu' = recent_cpu /\ given' = given
        /\ nice' = [nice EXCEPT ![cur] = n] /\ cur \in Threads /\ Then(To("price"))
        /\ GoesOn(status, priority)
    BY <1>5 DEF thread_set_nice, GoesOn, IsAt, TypeOK
  <2>2. /\ CurExists' /\ priority' = priority
        /\ \A t \in Threads : Exists(t)' <=> Exists(t)
    BY <1>e, <2>1
  <2>3. \A t \in Threads : t # cur => Unmoved(t)
    BY <1>a, <2>1, <2>2 DEF Unmoved, TypeOK
  <2>4. call'[cur].op = "price"
    BY <1>a, <1>c, <2>1
  <2> QED
    BY <1>0, <2>1, <2>2, <2>3, <2>4, PricesKept DEF Pricing
<1>6. ASSUME update_priority PROVE PriceInv'
  <2> DEFINE p == PriorityOf(recent_cpu[cur], nice[cur])
  <2>1. /\ ticks' = ticks /\ recent_cpu' = recent_cpu /\ given' = given /\ nice' = nice
        /\ cur \in Threads /\ Then([To("store") EXCEPT !.pri = p])
        /\ GoesOn(status, priority)
    BY <1>6 DEF update_priority, GoesOn, IsAt, TypeOK, tvars
  <2>2. /\ CurExists' /\ priority' = priority
        /\ \A t \in Threads : Exists(t)' <=> Exists(t)
    BY <1>e, <2>1
  <2>3. \A t \in Threads : t # cur => Unmoved(t)
    BY <1>a, <2>1, <2>2 DEF Unmoved, TypeOK
  <2>4. PICK c : c = [To("store") EXCEPT !.pri = p]
    OBVIOUS
  <2>5. Then(c) /\ c.op = "store" /\ c.pri = p
    BY <1>c, <2>1, <2>4
  <2> HIDE DEF p
  <2>6. call'[cur].op = "store" /\ call'[cur].pri = p
    BY <1>a, <2>1, <2>5
  <2> QED
    BY <1>0, <2>1, <2>2, <2>3, <2>6, PricesKept DEF Pricing, p
<1>7. ASSUME StorePriority PROVE PriceInv'
  <2> DEFINE new == [priority EXCEPT ![cur] = call[cur].pri]
  <2>1. /\ ticks' = ticks /\ recent_cpu' = recent_cpu /\ nice' = nice
        /\ given' = IF call[cur].op = "late" THEN given \union {cur} ELSE given \ {cur}
        /\ cur \in Threads /\ call[cur].op \in {"store", "late"} /\ Then(To("yield"))
        /\ GoesOn(status, new)
    BY <1>7 DEF StorePriority, TypeOK, tvars
  <2>2. new[cur] = call[cur].pri /\ \A t \in Threads : t # cur => new[t] = priority[t]
    BY <2>1 DEF TypeOK
  <2> HIDE DEF new
  <2>3. "ready" # "none"
    OBVIOUS
  <2>4. /\ CurExists' /\ priority' = new
        /\ \A t \in Threads : Exists(t)' <=> Exists(t)
    BY <1>0, <2>1, <2>3, RunExists
  <2>5. \A t \in Threads : t # cur => Unmoved(t)
    BY <1>a, <2>1, <2>2, <2>4 DEF Unmoved
  <2>6. call'[cur].op = "yield"
    BY <1>a, <1>c, <2>1
  <2>7. ticks % 4 = 0 /\ cur \notin given' =>
           priority'[cur] = PriorityOf(recent_cpu'[cur], nice'[cur])
    BY <2>1, <2>2, <2>4 DEF PriceInv, ComputedCurrent
  <2> QED
    BY <1>0, <2>1, <2>4, <2>5, <2>6, <2>7, PricesKept
<1>8. ASSUME NEW p \in Priorities, NEW holds \in BOOLEAN, thread_set_priority(p, holds)
      PROVE  PriceInv'
  <2>1. /\ ticks' = ticks /\ recent_cpu' = recent_cpu /\ nice' = nice
        /\ cur \in Threads /\ call[cur].op = "none" /\ Then(To("anybody"))
    BY <1>8 DEF thread_set_priority, TypeOK, tvars, IsAt
  <2>2. call'[cur].op = "anybody"
    BY <1>a, <1>c, <2>1
  <2>3. CASE GoesOn(status, priority) /\ given' = given
    <3>1. Calm(priority)
      BY <1>a, <1>e, <2>1, <2>3 DEF Calm
    <3> QED
      BY <1>f, <2>1, <2>2, <2>3, <3>1 DEF Pricing
  <2>4. CASE GoesOn(status, [priority EXCEPT ![cur] = p]) /\ given' = given \union {cur}
    <3> DEFINE new == [priority EXCEPT ![cur] = p]
    <3>1. \A t \in Threads : t # cur => new[t] = priority[t]
      BY DEF TypeOK
    <3>2. GoesOn(status, new)
      BY <2>4
    <3> HIDE DEF new
    <3>3. "ready" # "none"
      OBVIOUS
    <3>4. /\ CurExists' /\ priority' = new
          /\ \A t \in Threads : Exists(t)' <=> Exists(t)
      BY <1>0, <3>2, <3>3, RunExists
    <3>5. \A t \in Threads : t # cur => Unmoved(t)
      BY <1>a, <2>1, <2>4, <3>1, <3>4 DEF Unmoved
    <3> QED
      BY <1>0, <2>1, <2>2, <2>4, <3>4, <3>5, PricesKept
  <2> QED
    BY <1>8, <2>3, <2>4 DEF thread_set_priority
<1>9. ASSUME Compare PROVE PriceInv'
  <2>1. /\ ticks' = ticks /\ recent_cpu' = recent_cpu /\ nice' = nice /\ given' = given
        /\ cur \in Threads /\ call[cur].op \in {"created", "woke", "anybody"}
        /\ Then(To("yield")) \/ Then(NoCall)
        /\ GoesOn(status, priority)
    BY <1>9 DEF Compare, GoesOn, TypeOK, tvars
  <2>2. call'[cur].op \in {"yield", "none"} /\ Calm(priority)
    BY <1>a, <1>c, <1>d, <1>e, <2>1 DEF Calm
  <2> QED
    BY <1>f, <2>1, <2>2 DEF Pricing
<1>10. ASSUME thread_yield PROVE PriceInv'
  <2>1. /\ ticks' = ticks /\ recent_cpu' = recent_cpu /\ nice' = nice /\ given' = given
        /\ cur \in Threads /\ call[cur].op = "yield" /\ Then(NoCall)
        /\ Schedule(With(status, cur, "ready"), priority)
    BY <1>10 DEF thread_yield, Yield, TypeOK, tvars, IsAt
  <2>2. call'[cur].op = "none" /\ Calm(priority)
    BY <1>a, <1>d, <1>e, <2>1 DEF Calm
  <2> QED
    BY <1>f, <2>1, <2>2 DEF Pricing
<1>11. ASSUME idle PROVE PriceInv'
  <2>1. /\ ticks' = ticks /\ recent_cpu' = recent_cpu /\ nice' = nice /\ given' = given
        /\ cur \notin Threads /\ call' = call /\ Schedule(status, priority)
    BY <1>11, ThreadsAssumption DEF idle, tvars
  <2>2. Calm(priority)
    BY <1>0, <2>1, SwitchExists DEF Calm
  <2> QED
    BY <1>f, <2>1, <2>2
<1> QED
  BY <1>1, <1>2, <1>3, <1>4, <1>5, <1>6, <1>7, <1>8, <1>9, <1>10, <1>11 DEF Step

\* A tick in which the priorities are left alone leads away from a multiple of
\* four; in any other every thread is priced by the numbers of the same tick.
LEMMA TickPrices ==
  ASSUME TypeOK, PriceInv, timer_interrupt
  PROVE  PriceInv'
<1> DEFINE pri == Repriced(recent_cpu')
<1>1. /\ ticks' = ticks + 1 /\ nice' = nice
      /\ given' = IF EveryFourth THEN {} ELSE given
  BY DEF timer_interrupt
<1>2. EveryFourth => \A t \in Threads : Exists(t) =>
         pri[t] = PriorityOf(recent_cpu'[t], nice[t])
  BY DEF Repriced
<1>3. Yield(Awoken, pri) \/ (status' = Awoken /\ priority' = pri /\ cur' = cur)
  BY DEF timer_interrupt
<1> HIDE DEF pri
<1>4. CurExists' /\ priority' = pri /\ \A t \in Threads : Exists(t)' <=> Exists(t)
  <2>1. \A t \in Threads : Awoken[t] # "none" <=> Exists(t)
    BY DEF Awoken, Sleepers, Exists
  <2>2. CASE Yield(Awoken, pri)
    BY <2>1, <2>2, RunExists DEF PriceInv, Yield
  <2>3. CASE status' = Awoken /\ priority' = pri /\ cur' = cur
    BY <2>1, <2>3 DEF PriceInv, CurExists, Exists
  <2> QED
    BY <1>3, <2>2, <2>3
<1>5. \A t \in Threads : /\ call'[t].op = "none" <=> call[t].op = "none"
                         /\ EveryFourth => call'[t].op # "store"
  <2>1. \A t \in Threads : call[t] \in Calls /\ [call[t] EXCEPT !.op = "late"].op = "late"
    BY DEF TypeOK, Calls
  <2> QED
    BY <2>1 DEF timer_interrupt
<1>6. Uncalled'
  BY <1>4, <1>5 DEF PriceInv, Uncalled
<1>7. CASE EveryFourth
  BY <1>1, <1>2, <1>4, <1>5, <1>6, <1>7 DEF PriceInv, ComputedCurrent, PriorityCurrent
<1>8. CASE ~EveryFourth
  <2>1. ~(ticks' % 4 = 0)
    BY <1>1, <1>8 DEF EveryFourth
  <2> QED
    BY <1>4, <1>6, <2>1 DEF PriceInv, ComputedCurrent, PriorityCurrent
<1> QED
  BY <1>7, <1>8

\* After every fourth tick and until the next the priorities are those of
\* recent_cpu and nice: update_priority comes after update_recent_cpu in the
\* interrupt, and what thread_set_nice has computed stays right until the next
\* tick.  A thread whose priority is set or stored past that is one of given.
THEOREM PrioritiesCurrent == Spec => []PriorityCurrent
<1>1. Init => PriceInv
  <2> SUFFICES ASSUME Init PROVE PriceInv
    OBVIOUS
  <2>1. \A t \in Threads : call[t].op = "none"
    BY DEF Init, NoCall
  <2> QED
    BY <2>1 DEF Init, PriceInv, CurExists, Uncalled, ComputedCurrent, PriorityCurrent, Exists
<1>2. TypeOK /\ PriceInv /\ [Next]_vars => PriceInv'
  <2> SUFFICES ASSUME TypeOK, PriceInv, [Next]_vars PROVE PriceInv'
    OBVIOUS
  <2>1. CASE Next
    BY <2>1, TickPrices, OtherPrices DEF Next
  <2>2. CASE UNCHANGED vars
    BY <2>2 DEF vars, tvars, PriceInv, CurExists, Uncalled, ComputedCurrent,
                PriorityCurrent, Exists
  <2> QED
    BY <2>1, <2>2
<1>3. PriceInv => PriorityCurrent
  BY DEF PriceInv
<1> QED
  BY <1>1, <1>2, <1>3, MlfqsTyped, PTL DEF Spec

-------------------------------------------------------------------------------
(* The station. *)

Travellers == Passengers \union {Train}

StationNumbers ==
  /\ seat_num \in Int
  /\ board_passengers \in Int
  /\ places \in Nat
  /\ aboard \in Nat
  /\ pc \in [Travellers -> States]

\* The two counts of struct station differ by the places left on the train,
\* although each of them may be too low by any number of late passengers.
PlacesLeft == seat_num - board_passengers = places - aboard

NoTrain == pc[Train] = "away" => places = 0 /\ aboard = 0

StationInv == StationNumbers /\ PlacesLeft /\ NoTrain /\ NeverOverfull /\ NoneOverlooked

-------------------------------------------------------------------------------
LEMMA InitStation == StationInit => StationInv
BY SeatsAssumption
DEF StationInit, StationInv, StationNumbers, PlacesLeft, NoTrain, NeverOverfull,
    NoneOverlooked, Travellers, States

\* A train that calls the passengers leaves none asleep, and one that leaves
\* resets both counts.
LEMMA TrainStep ==
  ASSUME StationInv,
         (\E count \in 0 .. MaxSeats : LoadTrain(count)) \/ TrainWakes
  PROVE StationInv'
<1> USE DEF StationInv, StationNumbers, PlacesLeft, NoTrain, NeverOverfull, NoneOverlooked
<1>1. ASSUME NEW n \in Nat, CallPassengers(seat_num + n), places' = places + n
      PROVE StationInv'
  <2>1. /\ pc' \in [Travellers -> States]
        /\ pc'[Train] = "waiting"
        /\ \A p \in Passengers : pc'[p] # "waiting"
    BY <1>1, TrainAssumption DEF CallPassengers, Broadcast, Travellers, States
  <2> QED BY <1>1, <2>1 DEF CallPassengers
<1>2. ASSUME NEW n \in Nat, Leave(seat_num + n), places' = 0 PROVE StationInv'
  <2>1. pc' \in [Travellers -> States] /\ pc'[Train] = "away"
    BY <1>2 DEF Leave, Travellers, States
  <2> QED BY <1>2, <2>1 DEF Leave
<1>3. ASSUME NEW count \in 0 .. MaxSeats, LoadTrain(count) PROVE StationInv'
  <2>1. count \in Nat /\ places + count = count
    BY <1>3, SeatsAssumption DEF LoadTrain
  <2>2. CASE CallPassengers(seat_num + count) /\ places' = count
    BY ONLY <1>1, <2>1, <2>2
  <2>3. CASE Leave(seat_num + count) /\ places' = 0
    BY ONLY <1>2, <2>1, <2>3
  <2> QED BY ONLY <1>3, <2>2, <2>3 DEF LoadTrain
<1>4. CASE TrainWakes
  <2>1. seat_num + 0 = seat_num /\ places + 0 = places OBVIOUS
  <2> QED BY <1>1, <1>2, <1>4, <2>1 DEF TrainWakes
<1> QED BY <1>3, <1>4

\* A passenger who sleeps found no place, and one who boards takes one.
LEMMA SeatStep ==
  ASSUME StationInv, NEW p \in Passengers,
         NoSeat(p) \/ Board(p), UNCHANGED << seat_num, places >>
  PROVE StationInv'
<1> USE DEF StationInv, StationNumbers, PlacesLeft, NoTrain, NeverOverfull, NoneOverlooked
<1>1. /\ pc' \in [Travellers -> States]
      /\ pc'[Train] = pc[Train]
      /\ \A q \in Passengers \ {p} : pc'[q] = pc[q]
  BY TrainAssumption DEF NoSeat, Board, Travellers, States
<1>2. CASE NoSeat(p) BY <1>1, <1>2 DEF NoSeat
<1>3. CASE Board(p)
  <2>1. pc'[p] = "boarded" BY <1>3 DEF Board, Travellers
  <2> QED BY <1>1, <1>3, <2>1 DEF Board
<1> QED BY <1>2, <1>3

\* A passenger who sits lowers both counts together.
LEMMA SitStep ==
  ASSUME StationInv, NEW p \in Passengers, OnBoard(p)
  PROVE StationInv'
<1> USE DEF StationInv, StationNumbers, PlacesLeft, NoTrain, NeverOverfull, NoneOverlooked
<1>1. /\ pc' \in [Travellers -> States]
      /\ pc'[p] = "seated"
      /\ pc'[Train] = pc[Train] \/ (pc[Train] = "waiting" /\ pc'[Train] = "woken")
      /\ \A q \in Passengers \ {p} : pc'[q] = pc[q]
  BY TrainAssumption DEF OnBoard, Travellers, States
<1>2. /\ seat_num' = seat_num - 1
      /\ board_passengers' = board_passengers - 1
      /\ places' = places /\ aboard' = aboard
  BY DEF OnBoard
<1>3. StationNumbers' /\ PlacesLeft' /\ NeverOverfull' BY <1>1, <1>2
<1>4. NoTrain' BY <1>1, <1>2
<1>5. NoneOverlooked' BY <1>1, <1>2
<1> QED BY <1>3, <1>4, <1>5

\* A spurious wakeup only takes a thread off a list.
LEMMA StationWakes == ASSUME StationInv, NEW t \in Travellers, Wakes(t) PROVE StationInv'
BY DEF StationInv, StationNumbers, PlacesLeft, NoTrain, NeverOverfull, NoneOverlooked,
       Wakes, station, Travellers, States

\* The invariant holds at all times.
THEOREM StationInvariant == StationSpec => []StationInv
<1>1. ASSUME StationInv, [StationNext]_station_vars PROVE StationInv'
  <2>1. CASE StationNext
    <3>1. ASSUME NEW p \in Passengers, WaitForTrain(p) \/ PassengerWakes(p) PROVE StationInv'
      BY <1>1, <3>1, SeatStep DEF WaitForTrain, PassengerWakes
    <3> QED BY <1>1, <2>1, <3>1, TrainStep, SitStep, StationWakes
            DEF StationNext, PassengerStep, Travellers
  <2>2. CASE UNCHANGED station_vars
    BY <1>1, <2>2 DEF station_vars, station, StationInv, StationNumbers, PlacesLeft, NoTrain,
                      NeverOverfull, NoneOverlooked
  <2> QED BY <1>1, <2>1, <2>2
<1> QED BY <1>1, InitStation, PTL DEF StationSpec

\* No train takes on more passengers than it came with free seats, and none
\* board without a train (station_wait_for_train).
THEOREM TrainsNotOverfull == StationSpec => []NeverOverfull
BY StationInvariant, PTL DEF StationInv

\* While a train waits with a place left, every passenger in
\* station_wait_for_train has been woken.
THEOREM PassengersCalled == StationSpec => []NoneOverlooked
BY StationInvariant, PTL DEF StationInv

-------------------------------------------------------------------------------
(* The reaction. *)

\* The threads that have come to reaction_h: their atoms are free, or in the
\* water made so far.  So, when water is made, enough of them have come; whom the
\* signals of reaction_o find on the list is another matter, and the list is empty
\* only when all of them have left.
Arrived == {h \in Hydrogen : atom[h] # "away"}
ArrivedCounted == Cardinality(Arrived) = h_num + 2 * water

ReactionInv == ReactionTypeOK /\ ArrivedCounted /\ HydrogenBonded

\* The threads that have come, and those that have left, are finitely many.
LEMMA AtomsFinite ==
  /\ IsFiniteSet(Arrived) /\ IsFiniteSet(Left)
  /\ Cardinality(Arrived) \in Nat /\ Cardinality(Left) \in Nat
<1>1. Arrived \in SUBSET Hydrogen /\ Left \in SUBSET Hydrogen
  BY DEF Arrived, Left, At
<1> QED BY <1>1, AtomsAssumption, FS_Subset, FS_CardinalityType

LEMMA InitReaction == ReactionInit => ReactionInv
<1> SUFFICES ASSUME ReactionInit PROVE ReactionInv OBVIOUS
<1>1. Arrived = {} /\ Left = {}
  BY DEF ReactionInit, Atoms, Arrived, Left, At
<1>2. ReactionTypeOK
  BY DEF ReactionInit, ReactionTypeOK, AtomStates
<1>3. h_num = 0 /\ water = 0 /\ early = 0 BY DEF ReactionInit
<1> QED
  BY <1>1, <1>2, <1>3, FS_EmptySet DEF ReactionInv, ArrivedCounted, HydrogenBonded

\* The counts stay when nobody comes or leaves.
LEMMA SameCounts ==
  ASSUME ReactionInv, Arrived' = Arrived, Left' = Left,
         UNCHANGED << h_num, water, early >>
  PROVE  ArrivedCounted' /\ HydrogenBonded'
BY DEF ReactionInv, ArrivedCounted, HydrogenBonded

\* A thread of hydrogen that comes is counted, and leaves later.
LEMMA HydrogenComes ==
  ASSUME ReactionInv, NEW h \in Hydrogen, ReactionH(h)
  PROVE  ReactionInv'
<1>1. PICK W \in SUBSET Oxygen :
         atom' = [Woken(W, atom) EXCEPT ![h] = "waiting"]
  BY DEF ReactionH, Signalled, At
<1>2. /\ atom[h] = "away" /\ h_num' = h_num + 1
      /\ UNCHANGED << water, early >>
  BY DEF ReactionH
<1>3. ReactionTypeOK
  BY DEF ReactionInv
<1>4. /\ atom' \in [Atoms -> AtomStates]
      /\ atom'[h] = "waiting"
      /\ \A g \in Hydrogen \ {h} : atom'[g] = atom[g]
  BY <1>1, <1>3, AtomsAssumption DEF ReactionTypeOK, Woken, Atoms, AtomStates
<1>5. Arrived' = Arrived \union {h} /\ h \notin Arrived /\ Left' = Left
  BY <1>2, <1>4 DEF Arrived, Left, At
<1>6. Cardinality(Arrived') = Cardinality(Arrived) + 1
  BY <1>5, AtomsFinite, FS_AddElement
<1>7. ArrivedCounted' /\ HydrogenBonded'
  BY <1>2, <1>3, <1>5, <1>6, AtomsFinite
  DEF ReactionInv, ReactionTypeOK, ArrivedCounted, HydrogenBonded
<1> QED
  BY <1>2, <1>3, <1>4, <1>7 DEF ReactionInv, ReactionTypeOK

\* reaction_o takes two threads of hydrogen off the list, or all there are.
LEMMA WaterMade ==
  ASSUME ReactionInv, NEW o \in Oxygen, MakeWater(o)
  PROVE  ReactionInv'
<1>1. PICK W \in Signalled(Hydrogen, 2) :
         atom' = [Woken(W, atom) EXCEPT ![o] = "returned"]
  BY DEF MakeWater
<1>2. h_num >= 2 /\ h_num' = h_num - 2 /\ water' = water + 1 /\ early' = early
  BY DEF MakeWater
<1>3. ReactionTypeOK
  BY DEF ReactionInv
<1>4. W \in SUBSET Hydrogen /\ \A h \in W : atom[h] = "waiting"
  BY DEF Signalled, At
<1>5. /\ atom' \in [Atoms -> AtomStates]
      /\ \A h \in Hydrogen : atom'[h] = IF h \in W THEN "woken" ELSE atom[h]
  BY <1>1, <1>3, AtomsAssumption DEF ReactionTypeOK, Woken, Atoms, AtomStates
<1>6. /\ Arrived' = Arrived
      /\ Left' = Left \union W
      /\ Left \intersect W = {}
  BY <1>4, <1>5 DEF Arrived, Left, At
<1>7. IsFiniteSet(W) /\ Cardinality(W) \in Nat
  BY <1>4, AtomsAssumption, FS_Subset, FS_CardinalityType
<1>8. Cardinality(Left') = Cardinality(Left) + Cardinality(W)
  <2> DEFINE L == Left
  <2>1. IsFiniteSet(L) /\ Cardinality(L) \in Nat
    BY AtomsFinite
  <2>2. L \intersect W = {}
    BY <1>6
  <2> HIDE DEF L
  <2>3. Cardinality(L \union W) = Cardinality(L) + Cardinality(W) - Cardinality(L \intersect W)
    BY <1>7, <2>1, FS_Union
  <2>4. Cardinality(L \union W) = Cardinality(L) + Cardinality(W)
    BY <1>7, <2>1, <2>2, <2>3, FS_EmptySet
  <2> QED
    BY <1>6, <2>4 DEF L
<1>9. ArrivedCounted'
  BY <1>2, <1>3, <1>6 DEF ReactionInv, ArrivedCounted, ReactionTypeOK
<1>10. Cardinality(W) <= 2
  BY <1>7 DEF Signalled
<1>11. Cardinality(Left') >= 2 * water'
  <2>1. CASE Cardinality(W) = 2
    BY <1>2, <1>3, <1>8, <2>1, AtomsFinite DEF ReactionInv, HydrogenBonded, ReactionTypeOK
  <2>2. CASE W = At(Hydrogen, "waiting")
    <3>1. Left' = Arrived'
      BY <1>3, <1>5, <1>6, <2>2
      DEF Arrived, Left, At, ReactionTypeOK, Atoms, AtomStates
    <3> QED
      BY <1>2, <1>3, <1>9, <3>1 DEF ArrivedCounted, ReactionTypeOK
  <2> QED
    BY <2>1, <2>2 DEF Signalled
<1>12. HydrogenBonded'
  BY <1>2, <1>3, <1>8, <1>10, <1>11, <1>7, AtomsFinite
  DEF ReactionInv, HydrogenBonded, ReactionTypeOK
<1> QED
  BY <1>2, <1>3, <1>5, <1>9, <1>12 DEF ReactionInv, ReactionTypeOK

\* A thread of hydrogen that wakes without a signal is one that leaves in excess.
LEMMA SpuriousWake ==
  ASSUME ReactionInv, NEW a \in Atoms, AtomWakes(a)
  PROVE  ReactionInv'
<1>1. ReactionTypeOK
  BY DEF ReactionInv
<1>2. /\ atom[a] = "waiting" /\ atom' = [atom EXCEPT ![a] = "woken"]
      /\ early' = IF a \in Hydrogen THEN early + 1 ELSE early
      /\ UNCHANGED << h_num, water >>
  BY DEF AtomWakes
<1>3. ReactionTypeOK'
  BY <1>1, <1>2 DEF ReactionTypeOK, AtomStates
<1>4. Arrived' = Arrived
  BY <1>1, <1>2 DEF Arrived, ReactionTypeOK, Atoms
<1>5. CASE a \in Hydrogen
  <2>1. Left' = Left \union {a} /\ a \notin Left
    BY <1>1, <1>2, <1>5 DEF Left, At, ReactionTypeOK, Atoms
  <2>2. Cardinality(Left') = Cardinality(Left) + 1
    BY <2>1, AtomsFinite, FS_AddElement
  <2> QED
    BY <1>1, <1>2, <1>3, <1>4, <1>5, <2>2, AtomsFinite
    DEF ReactionInv, ArrivedCounted, HydrogenBonded, ReactionTypeOK
<1>6. CASE a \notin Hydrogen
  <2>1. Left' = Left
    BY <1>1, <1>2, <1>6 DEF Left, At, ReactionTypeOK, Atoms
  <2> QED
    BY <1>2, <1>3, <1>4, <1>6, <2>1, SameCounts DEF ReactionInv
<1> QED
  BY <1>5, <1>6

\* The other steps let nobody out of the reaction.
LEMMA NobodyLeaves ==
  ASSUME ReactionInv,
         \/ \E h \in Hydrogen : HydrogenReturns(h)
         \/ \E o \in Oxygen : OxygenWaits(o)
  PROVE  ReactionInv'
<1>1. ReactionTypeOK
  BY DEF ReactionInv
<1>2. UNCHANGED << h_num, water, early >>
  BY DEF HydrogenReturns, OxygenWaits
<1>3. ReactionTypeOK'
  BY <1>1, <1>2 DEF HydrogenReturns, OxygenWaits, ReactionTypeOK, AtomStates
<1>4. Arrived' = Arrived /\ Left' = Left
  BY <1>1, AtomsAssumption
  DEF HydrogenReturns, OxygenWaits, ReactionTypeOK, Atoms, Arrived, Left, At
<1> QED
  BY <1>2, <1>3, <1>4, SameCounts DEF ReactionInv

\* Two threads of hydrogen leave the reaction for each water that is made, and
\* one more for each that cond_wait let go without a signal (reaction_h).
THEOREM WaterTakesTwo == ReactionSpec => []HydrogenBonded
<1>1. ASSUME ReactionInv, [ReactionNext]_reaction_vars PROVE ReactionInv'
  <2>1. CASE ReactionNext
    BY <1>1, <2>1, HydrogenComes, WaterMade, SpuriousWake, NobodyLeaves
    DEF ReactionNext, OxygenStep
  <2>2. CASE UNCHANGED reaction_vars
    <3>1. UNCHANGED << h_num, atom, water, early >>
      BY <2>2 DEF reaction_vars
    <3>2. ReactionTypeOK' /\ Arrived' = Arrived /\ Left' = Left
      BY <1>1, <3>1 DEF ReactionInv, ReactionTypeOK, Arrived, Left, At
    <3> QED
      BY <1>1, <3>1, <3>2, SameCounts DEF ReactionInv
  <2> QED
    BY <1>1, <2>1, <2>2
<1>2. ReactionInv => HydrogenBonded
  BY DEF ReactionInv
<1> QED
  BY <1>1, <1>2, InitReaction, PTL DEF ReactionSpec
================================================================================
