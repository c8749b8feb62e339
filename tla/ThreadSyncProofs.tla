--------------------------- MODULE ThreadSyncProofs ---------------------------
(***************************************************************************)
(* Mutual exclusion of the locks of threads/synch.c, for any number of     *)
(* threads, locks, semaphores and priorities.  The argument needs nothing  *)
(* of the lists or of the scheduler: whatever thread is woken, preempted   *)
(* or chosen next, the semaphore of a lock is down exactly while some      *)
(* thread is between its sema_down and its sema_up, and that thread is     *)
(* the only one that touches lock->holder.                                 *)
(***************************************************************************)
EXTENDS ThreadSync, FiniteSetTheorems, TLAPS

\* The types of what the argument is about; nothing else of reg matters.
LockTypes ==
  /\ holder \in [Locks -> Threads \union {Idle}]
  /\ value \in [Sema -> Int]
  /\ DOMAIN pc = Threads /\ DOMAIN reg = Threads
  /\ \A t \in Threads :
       /\ "on" \in DOMAIN reg[t]
       /\ pc[t] \in {"down", "retry"} => reg[t].on \in Sema
       /\ pc[t] \in {"acq_wait", "acq_donate", "acq_own", "acq_list", "rel_up"}
            => reg[t].on \in Locks

\* The owner is the holder from the assignment in lock_acquire to the one in
\* lock_release, and only then.
HolderOwns ==
  \A t \in Threads :
    /\ pc[t] = "acq_list" => holder[reg[t].on] = t
    /\ pc[t] = "rel_up" => holder[reg[t].on] = Idle

\* MutualExclusion with what makes it inductive.
LockInv == LockTypes /\ HolderOwns /\ MutualExclusion

\* Thread t is between the sema_down and the sema_up of lock l.
Owns(t, l) ==
  \/ holder[l] = t
  \/ pc[t] \in {"acq_own", "acq_list", "rel_up"} /\ reg[t].on = l

\* MutualExclusion, read thread by thread.
OneOwner ==
  \A l \in Locks :
    \/ value[l] = 1 /\ \A t \in Threads : ~ Owns(t, l)
    \/ /\ value[l] = 0
       /\ \E t \in Threads : Owns(t, l) /\ \A u \in Threads : Owns(u, l) => u = t

LEMMA OwnersByThread == MutualExclusion <=> OneOwner
  BY DEF MutualExclusion, OneOwner, Owners, Owns

LEMMA OwnersByThreadNext == MutualExclusion' <=> OneOwner'
  BY DEF MutualExclusion, OneOwner, Owners, Owns

\* A step of thread t that touches no holder and no lock's value, and that
\* neither enters nor leaves a section in which pc decides about ownership.
LEMMA QuietStep ==
  ASSUME LockInv, NEW t \in Threads, holder' = holder, value' = value,
         DOMAIN pc' = Threads, DOMAIN reg' = Threads, "on" \in DOMAIN reg'[t],
         \A u \in Threads \ {t} : pc'[u] = pc[u] /\ reg'[u] = reg[u],
         pc[t] \notin {"acq_own", "acq_list", "rel_up"},
         pc'[t] \notin {"acq_own", "acq_list", "rel_up"},
         pc'[t] \in {"down", "retry"} => reg'[t].on \in Sema,
         pc'[t] \in {"acq_wait", "acq_donate"} => reg'[t].on \in Locks
  PROVE  LockInv'
<1>1. LockTypes'
  BY DEF LockInv, LockTypes
<1>2. HolderOwns'
  BY DEF LockInv, HolderOwns
<1>3. OneOwner'
  <2>1. \A u \in Threads, l \in Locks : Owns(u, l)' <=> Owns(u, l)
    BY DEF Owns
  <2> QED
    BY <2>1, OwnersByThread DEF LockInv, OneOwner
<1> QED
  BY <1>1, <1>2, <1>3, OwnersByThreadNext DEF LockInv

\* A step that touches nothing of the argument but a plain semaphore's value.
LEMMA StillStep ==
  ASSUME LockInv, holder' = holder, pc' = pc, reg' = reg,
         value' \in [Sema -> Int], \A l \in Locks : value'[l] = value[l]
  PROVE  LockInv'
<1>1. LockTypes' /\ HolderOwns'
  BY DEF LockInv, LockTypes, HolderOwns
<1>2. OneOwner'
  <2>1. \A u \in Threads, l \in Locks : Owns(u, l)' <=> Owns(u, l)
    BY DEF Owns
  <2> QED
    BY <2>1, OwnersByThread DEF LockInv, OneOwner
<1> QED
  BY <1>1, <1>2, OwnersByThreadNext DEF LockInv

\* sema_down by a thread that finds the value positive.
LEMMA DownStep ==
  ASSUME LockInv, NEW t \in Threads, Down(t)
  PROVE  LockInv'
<1> DEFINE x == reg[t].on
<1>1. x \in Sema /\ pc[t] \in {"down", "retry"} /\ value[x] > 0
  BY DEF Down, At, LockInv, LockTypes
<1>2. value' = [value EXCEPT ![x] = value[x] - 1] /\ holder' = holder
  BY DEF Down, lockVars
<1>3. CASE x \notin Locks
  <2>1. x \in Semas /\ pc' = [pc EXCEPT ![t] = "user"] /\ reg' = [reg EXCEPT ![t] = NoReg]
    BY <1>1, <1>3 DEF Down, Goto, Sema
  <2>2. LockTypes' /\ HolderOwns'
    BY <1>1, <1>2, <2>1 DEF LockInv, LockTypes, HolderOwns, NoReg, Sema
  <2>3. \A u \in Threads, l \in Locks : Owns(u, l)' <=> Owns(u, l)
    BY <1>1, <1>2, <2>1 DEF Owns, LockInv, LockTypes
  <2>4. \A l \in Locks : value'[l] = value[l]
    BY <1>2, <1>3 DEF LockInv, LockTypes, Sema
  <2> QED
    BY <2>2, <2>3, <2>4, OwnersByThread, OwnersByThreadNext DEF LockInv, OneOwner
<1>4. CASE x \in Locks
  <2>1. pc' = [pc EXCEPT ![t] = "acq_own"] /\ reg' = reg
    BY <1>4 DEF Down, Goto
  <2>2. LockTypes' /\ HolderOwns'
    BY <1>1, <1>2, <1>4, <2>1 DEF LockInv, LockTypes, HolderOwns, Sema
  <2>3. value[x] = 1 /\ \A u \in Threads : ~ Owns(u, x)
    BY <1>1, <1>4, OwnersByThread DEF LockInv, OneOwner
  <2>4. value'[x] = 0 /\ \A l \in Locks \ {x} : value'[l] = value[l]
    BY <1>1, <1>2, <2>3 DEF LockInv, LockTypes, Sema
  <2>5. \A u \in Threads, l \in Locks :
          Owns(u, l)' <=> (Owns(u, l) \/ (u = t /\ l = x))
    BY <1>1, <1>2, <2>1 DEF Owns, LockInv, LockTypes
  <2>6. OneOwner'
    BY <2>3, <2>4, <2>5, OwnersByThread DEF LockInv, OneOwner
  <2> QED
    BY <2>2, <2>6, OwnersByThreadNext DEF LockInv
<1> QED
  BY <1>3, <1>4

\* The new owner of a lock becomes its holder.
LEMMA OwnStep ==
  ASSUME LockInv, NEW t \in Threads, AcquireOwn(t)
  PROVE  LockInv'
<1> DEFINE x == reg[t].on
<1>1. x \in Locks /\ pc[t] = "acq_own" /\ Owns(t, x)
  BY DEF AcquireOwn, At, LockInv, LockTypes, Owns
<1>2. /\ holder' = [holder EXCEPT ![x] = t] /\ value' = value /\ reg' = reg
      /\ pc' = [pc EXCEPT ![t] = "acq_list"]
  BY DEF AcquireOwn, Goto, semas
<1>3. value[x] = 0 /\ \A u \in Threads : Owns(u, x) => u = t
  BY <1>1, OwnersByThread DEF LockInv, OneOwner
<1>4. LockTypes'
  BY <1>1, <1>2 DEF LockInv, LockTypes
<1>5. HolderOwns'
  BY <1>1, <1>2, <1>3 DEF LockInv, HolderOwns, LockTypes, Owns
<1>6. \A u \in Threads, l \in Locks : Owns(u, l)' <=> Owns(u, l)
  BY <1>1, <1>2, <1>3 DEF Owns, LockInv, LockTypes
<1> QED
  BY <1>2, <1>4, <1>5, <1>6, OwnersByThread, OwnersByThreadNext DEF LockInv, OneOwner

\* The end of lock_acquire: the holder is set, pc no longer matters.
LEMMA ListStep ==
  ASSUME LockInv, NEW t \in Threads, AcquireList(t)
  PROVE  LockInv'
<1>1. /\ pc[t] = "acq_list" /\ holder[reg[t].on] = t /\ reg[t].on \in Locks
  BY DEF AcquireList, At, LockInv, LockTypes, HolderOwns
<1>2. /\ holder' = holder /\ value' = value /\ reg' = [reg EXCEPT ![t] = NoReg]
      /\ pc' = [pc EXCEPT ![t] = "user"]
  BY DEF AcquireList, Goto, semas
<1>3. LockTypes' /\ HolderOwns'
  BY <1>1, <1>2 DEF LockInv, LockTypes, HolderOwns, NoReg
<1>4. \A u \in Threads, l \in Locks : Owns(u, l)' <=> Owns(u, l)
  BY <1>1, <1>2 DEF Owns, LockInv, LockTypes
<1> QED
  BY <1>2, <1>3, <1>4, OwnersByThread, OwnersByThreadNext DEF LockInv, OneOwner

\* lock_release gives up the holder and still owns the lock.
LEMMA DisownStep ==
  ASSUME LockInv, NEW t \in Threads, NEW l \in Locks, Disown(t, l),
         holder[l] = t, pc[t] \in {"user", "exit_next"},
         DOMAIN reg' = Threads, "on" \in DOMAIN reg'[t], reg'[t].on = l,
         \A u \in Threads \ {t} : reg'[u] = reg[u]
  PROVE  LockInv'
<1>1. /\ holder' = [holder EXCEPT ![l] = Idle] /\ value' = value
      /\ pc' = [pc EXCEPT ![t] = "rel_up"]
  BY DEF Disown, Goto, semas
<1>2. Owns(t, l) /\ \A u \in Threads : Owns(u, l) => u = t
  BY OwnersByThread DEF LockInv, OneOwner, Owns
<1>3. LockTypes'
  BY <1>1 DEF LockInv, LockTypes
<1>4. HolderOwns'
  BY <1>1, <1>2 DEF LockInv, HolderOwns, LockTypes, Owns
<1>5. \A u \in Threads, m \in Locks : Owns(u, m)' <=> Owns(u, m)
  BY <1>1, <1>2, ThreadAssumption DEF Owns, LockInv, LockTypes
<1> QED
  BY <1>1, <1>3, <1>4, <1>5, OwnersByThread, OwnersByThreadNext DEF LockInv, OneOwner

\* sema_up in lock_release: the lock is free, even when the releaser yields here.
LEMMA UpStep ==
  ASSUME LockInv, NEW t \in Threads, ReleaseUp(t)
  PROVE  LockInv'
<1> DEFINE x == reg[t].on
<1>1. x \in Locks /\ pc[t] = "rel_up" /\ holder[x] = Idle /\ Owns(t, x)
  BY DEF ReleaseUp, At, LockInv, LockTypes, HolderOwns, Owns
<1>2. /\ holder' = holder /\ value' = [value EXCEPT ![x] = value[x] + 1] /\ reg' = reg
      /\ pc' = [pc EXCEPT ![t] = "rel_remove"]
  BY DEF ReleaseUp, SemaUp, Goto, lockVars
<1>3. value[x] = 0 /\ \A u \in Threads : Owns(u, x) => u = t
  BY <1>1, OwnersByThread DEF LockInv, OneOwner
<1>4. LockTypes' /\ HolderOwns'
  BY <1>1, <1>2 DEF LockInv, LockTypes, HolderOwns, Sema
<1>5. value'[x] = 1 /\ \A l \in Locks \ {x} : value'[l] = value[l]
  BY <1>1, <1>2, <1>3 DEF LockInv, LockTypes, Sema
<1>6. \A u \in Threads, l \in Locks : Owns(u, l)' <=> (Owns(u, l) /\ l # x)
  BY <1>1, <1>2, <1>3, ThreadAssumption DEF Owns, LockInv, LockTypes
<1>7. OneOwner'
  BY <1>5, <1>6, OwnersByThread DEF LockInv, OneOwner
<1> QED
  BY <1>4, <1>7, OwnersByThreadNext DEF LockInv

\* One iteration of thread_exit's loop, from the call or from the last one.
LEMMA ExitStep ==
  ASSUME LockInv, NEW t \in Threads, NEW l, ExitRelease(t, l),
         pc[t] \in {"user", "exit_next"}
  PROVE  LockInv'
<1>1. /\ reg' = [reg EXCEPT ![t].on = l, ![t].exit = TRUE]
      /\ DOMAIN reg' = Threads /\ "on" \in DOMAIN reg'[t] /\ reg'[t].on = l
      /\ \A u \in Threads \ {t} : reg'[u] = reg[u]
  BY DEF ExitRelease, LockInv, LockTypes
<1>2. CASE l \in {m \in Locks : holder[m] = t}
  BY <1>1, <1>2, DisownStep DEF ExitRelease
<1>3. CASE l \notin {m \in Locks : holder[m] = t}
  <2>1. holder' = holder /\ value' = value /\ pc' = pc
    BY <1>3 DEF ExitRelease, lockVars, semas
  <2> QED
    BY <1>1, <2>1, QuietStep DEF LockInv, LockTypes
<1> QED
  BY <1>2, <1>3

\* The end of thread_exit.
LEMMA DieStep ==
  ASSUME LockInv, NEW t \in Threads, Die(t), pc[t] \in {"user", "exit_next"},
         reg' = reg \/ reg' = [reg EXCEPT ![t] = NoReg]
  PROVE  LockInv'
<1>1. holder' = holder /\ value' = value /\ pc' = [pc EXCEPT ![t] = "dead"]
  BY DEF Die, Goto, lockVars, semas
<1> QED
  BY <1>1, QuietStep DEF LockInv, LockTypes, NoReg

\* The invariant holds from boot and through every step of the kernel.
THEOREM LockInvInductive == Spec => []LockInv
<1>1. Init => LockInv
  <2> SUFFICES ASSUME Init PROVE LockInv
    OBVIOUS
  <2>1. LockTypes
    BY DEF Init, LockTypes, NoReg, Sema
  <2>2. HolderOwns
    BY DEF Init, HolderOwns
  <2>3. OneOwner
    BY ThreadAssumption DEF Init, OneOwner, Owns, Sema
  <2> QED
    BY <2>1, <2>2, <2>3, OwnersByThread DEF LockInv
<1>2. LockInv /\ [Next]_vars => LockInv'
  <2> SUFFICES ASSUME LockInv, [Next]_vars PROVE LockInv'
    OBVIOUS
  <2> USE DEF lockVars, semas, At, Goto
  <2>1. ASSUME NEW t \in Threads, NEW l \in Locks, AcquireRead(t, l) PROVE LockInv'
    BY <2>1, QuietStep DEF AcquireRead, LockInv, LockTypes, NoReg
  <2>2. ASSUME NEW t \in Threads, NEW l \in Locks, Release(t, l) PROVE LockInv'
    BY <2>2, DisownStep DEF Release, LockInv, LockTypes
  <2>3. ASSUME NEW t \in Threads, AcquireWait(t) PROVE LockInv'
    BY <2>3, QuietStep DEF AcquireWait, LockInv, LockTypes
  <2>4. ASSUME NEW t \in Threads, Donate(t) PROVE LockInv'
    <3>1. /\ pc[t] = "acq_donate" /\ holder' = holder /\ value' = value
          /\ \/ pc' = [pc EXCEPT ![t] = "down"] /\ reg' = reg
             \/ /\ pc' = pc
                /\ reg' = [reg EXCEPT ![t].at = waiting[reg[t].h],
                                      ![t].h = holder[waiting[reg[t].h]]]
      BY <2>4 DEF Donate
    <3> QED
      BY <3>1, QuietStep DEF LockInv, LockTypes, Sema
  <2>5. ASSUME NEW t \in Threads, DonateDangling(t) PROVE LockInv'
    BY <2>5, StillStep DEF DonateDangling, LockInv, LockTypes
  <2>6. ASSUME NEW t \in Threads, DonateEnd(t) PROVE LockInv'
    BY <2>6, QuietStep DEF DonateEnd, LockInv, LockTypes, Sema
  <2>7. ASSUME NEW t \in Threads, DownWait(t) PROVE LockInv'
    BY <2>7, QuietStep DEF DownWait, LockInv, LockTypes
  <2>8. ASSUME NEW t \in Threads, ReleaseRemove(t) PROVE LockInv'
    BY <2>8, QuietStep DEF ReleaseRemove, LockInv, LockTypes
  <2>9. ASSUME NEW t \in Threads, ReleaseRestore(t) PROVE LockInv'
    BY <2>9, QuietStep DEF ReleaseRestore, LockInv, LockTypes, NoReg
  <2>10. ASSUME NEW t \in Threads, ExitNext(t) PROVE LockInv'
    <3>1. CASE elemOf[reg[t].on] # t
      BY <2>10, <3>1, StillStep DEF ExitNext, LockInv, LockTypes
    <3>2. CASE elemOf[reg[t].on] = t
      BY <2>10, <3>2, DieStep, ExitStep DEF ExitNext
    <3> QED
      BY <3>1, <3>2
  <2>11. ASSUME NEW t \in Threads, Exit(t) PROVE LockInv'
    BY <2>11, DieStep, ExitStep DEF Exit
  <2>12. ASSUME NEW t \in Threads, NEW n \in Pri, SetPriority(t, n) PROVE LockInv'
    BY <2>12, StillStep DEF SetPriority, LockInv, LockTypes
  <2>13. ASSUME NEW t \in Threads, NEW s \in Semas, DownCall(t, s) PROVE LockInv'
    BY <2>13, QuietStep DEF DownCall, LockInv, LockTypes, Sema
  <2>14. ASSUME NEW t \in Threads, NEW s \in Semas, UpCall(t, s) PROVE LockInv'
    <3>1. holder' = holder /\ pc' = pc /\ reg' = reg /\ value' = [value EXCEPT ![s] = value[s] + 1]
      BY <2>14 DEF UpCall, SemaUp
    <3> QED
      BY <3>1, StillStep, SemaAssumption DEF LockInv, LockTypes, Sema
  <2>15. ASSUME NEW t \in Threads, Sleep(t) PROVE LockInv'
    BY <2>15, StillStep DEF Sleep, LockInv, LockTypes
  <2>16. ASSUME NEW s \in Semas, IntrUp(s) PROVE LockInv'
    <3>1. holder' = holder /\ pc' = pc /\ reg' = reg /\ value' = [value EXCEPT ![s] = value[s] + 1]
      BY <2>16 DEF IntrUp
    <3> QED
      BY <3>1, StillStep, SemaAssumption DEF LockInv, LockTypes, Sema
  <2>17. ASSUME NEW due, Awake(due) PROVE LockInv'
    BY <2>17, StillStep DEF Awake, LockInv, LockTypes
  <2>18. CASE Preempt
    BY <2>18, StillStep DEF Preempt, LockInv, LockTypes
  <2>19. CASE IdleBlock
    BY <2>19, StillStep DEF IdleBlock, LockInv, LockTypes
  <2>20. CASE UNCHANGED vars
    BY <2>20, StillStep DEF vars, LockInv, LockTypes
  <2> QED
    BY <2>1, <2>2, <2>3, <2>4, <2>5, <2>6, <2>7, <2>8, <2>9, <2>10, <2>11, <2>12,
       <2>13, <2>14, <2>15, <2>16, <2>17, <2>18, <2>19, <2>20,
       DownStep, OwnStep, ListStep, UpStep
       DEF Next, LockStep
<1> QED
  BY <1>1, <1>2, PTL DEF Spec

\* A lock has at most one owner at any time, however the scheduler interleaves
\* lock_acquire, lock_release, thread_exit and interrupts.
THEOREM LocksExclude == Spec => []MutualExclusion
<1>1. LockInv => MutualExclusion
  BY DEF LockInv
<1> QED
  BY <1>1, LockInvInductive, PTL
-------------------------------------------------------------------------------
(* Lists.  What a list of the kernel holds, whatever its order: no list     *)
(* function loses an element, adds one, or links one twice.                 *)

\* A set of numbers that is not empty has a least one.
LEMMA LeastOne ==
  ASSUME NEW T \in SUBSET Nat, T # {}
  PROVE  \E m \in T : \A k \in T : m <= k
<1> DEFINE R == {p \in Nat \X Nat : p[1] < p[2]}
<1>1. IsWellFoundedOn(R, Nat)
  <2>1. OpToRel(<, Nat) = {p \in Nat \X Nat : p[1] < p[2]}
    BY Zenon DEF OpToRel
  <2> QED
    BY <2>1, NatLessThanWellFounded, Zenon
<1> HIDE DEF R
<1>2. PICK m \in T : \A k \in T : ~ (<< k, m >> \in R)
  BY <1>1, WFMin
<1>3. \A k, n \in Nat : << k, n >> \in R <=> k < n
  BY DEF R
<1>4. ASSUME NEW k \in T PROVE m <= k
  <2>1. m \in Nat /\ k \in Nat /\ ~ (<< k, m >> \in R)
    BY <1>2
  <2>2. ~ (k < m)
    BY <1>3, <2>1
  <2> QED
    BY <2>1, <2>2
<1> QED
  BY <1>4

\* A set with 0 and, with each number below n, the next, has all of 0 .. n.
LEMMA UpTo ==
  ASSUME NEW n \in Nat, NEW G, 0 \in G,
         \A k \in 1 .. n : k - 1 \in G => k \in G
  PROVE  \A k \in 0 .. n : k \in G
<1> SUFFICES ASSUME NEW j \in 0 .. n, j \notin G PROVE FALSE
  OBVIOUS
<1> DEFINE T == {k \in 0 .. n : k \notin G}
<1>1. T \in SUBSET Nat /\ T # {}
  OBVIOUS
<1>2. PICK m \in T : \A k \in T : m <= k
  BY <1>1, LeastOne
<1>3. m \in 1 .. n /\ m \notin G
  BY <1>2
<1>4. m - 1 \in 0 .. n /\ ~ (m <= m - 1)
  BY <1>3
<1>5. m - 1 \in G
  BY <1>2, <1>4
<1> QED
  BY <1>3, <1>5

\* The list q holds the elements of S, each once.
Holds(q, S) == q \in Seq(S) /\ IsInjective(q) /\ Range(q) = S

\* The list r is q with e put in place k.
WithAt(S, q, e, k, r) ==
  /\ r \in Seq(S \union {e}) /\ Len(r) = Len(q) + 1
  /\ \A j \in 1 .. k - 1 : r[j] = q[j]
  /\ r[k] = e
  /\ \A j \in k .. Len(q) : r[j + 1] = q[j]

LEMMA InsertedAt ==
  ASSUME NEW S, NEW q \in Seq(S), NEW e, NEW k \in 1 .. Len(q) + 1,
         NEW r, r = InsertAt(q, k, e)
  PROVE  WithAt(S, q, e, k, r)
<1> DEFINE a == SubSeq(q, 1, k - 1)
           b == SubSeq(q, k, Len(q))
<1>1. r = a \o << e >> \o b
  BY DEF InsertAt
<1>2. a \in Seq(S \union {e}) /\ Len(a) = k - 1 /\ \A j \in 1 .. k - 1 : a[j] = q[j]
  OBVIOUS
<1>3. b \in Seq(S \union {e}) /\ Len(b) = Len(q) + 1 - k
      /\ \A j \in 1 .. Len(q) + 1 - k : b[j] = q[j + k - 1]
  <2>1. b \in Seq(S) /\ Len(b) = Len(q) + 1 - k
        /\ \A j \in 1 .. Len(q) + 1 - k : b[j] = q[k + j - 1]
    OBVIOUS
  <2> HIDE DEF b
  <2>2. b \in Seq(S \union {e})
    BY <2>1
  <2>3. \A j \in 1 .. Len(q) + 1 - k : k + j - 1 = j + k - 1
    OBVIOUS
  <2> QED
    BY <2>1, <2>2, <2>3
<1> HIDE DEF a, b
<1> DEFINE c == a \o << e >>
<1>4. c \in Seq(S \union {e}) /\ Len(c) = k
      /\ \A j \in 1 .. k : c[j] = IF j < k THEN a[j] ELSE e
  BY <1>2
<1> HIDE DEF c
<1>5. c \o b \in Seq(S \union {e}) /\ Len(c \o b) = Len(q) + 1
  <2>1. c \in Seq(S \union {e}) /\ b \in Seq(S \union {e})
    BY <1>3, <1>4
  <2>2. c \o b \in Seq(S \union {e}) /\ Len(c \o b) = Len(c) + Len(b)
    BY <2>1
  <2> QED
    BY <1>3, <1>4, <2>2
<1>6. \A j \in 1 .. Len(q) + 1 : (c \o b)[j] = IF j <= k THEN c[j] ELSE b[j - k]
  BY <1>3, <1>4
<1>7. ASSUME NEW j \in 1 .. k - 1 PROVE (c \o b)[j] = q[j]
  BY <1>2, <1>4, <1>6
<1>8. (c \o b)[k] = e
  BY <1>4, <1>6
<1>9. ASSUME NEW j \in k .. Len(q) PROVE (c \o b)[j + 1] = q[j]
  <2>1. j + 1 - k \in 1 .. Len(q) + 1 - k /\ (j + 1 - k) + k - 1 = j /\ j + 1 \in 1 .. Len(q) + 1
    OBVIOUS
  <2>2. b[j + 1 - k] = q[j]
    BY <1>3, <2>1
  <2>3. (c \o b)[j + 1] = b[(j + 1) - k]
    <3>1. j + 1 \in 1 .. Len(q) + 1 /\ ~ (j + 1 <= k)
      BY <2>1
    <3> QED
      BY <1>6, <3>1
  <2> QED
    BY <2>2, <2>3
<1> QED
  BY <1>1, <1>5, <1>7, <1>8, <1>9 DEF c, WithAt

\* list_insert_ordered adds its element, and nothing else changes.
LEMMA InsertOrderedHolds ==
  ASSUME NEW q, NEW S, Holds(q, S), NEW e, e \notin S, NEW key
  PROVE  Holds(InsertOrdered(q, e, key), S \union {e})
<1> DEFINE lower == {i \in DOMAIN q : key[q[i]] < key[e]}
           place == IF lower = {} THEN Len(q) + 1 ELSE Min(lower)
<1>0. PICK k : k = place
  OBVIOUS
<1>1. PICK r : r = InsertAt(q, k, e)
  OBVIOUS
<1>2. q \in Seq(S) /\ DOMAIN q = 1 .. Len(q)
  BY DEF Holds
<1>3. k \in 1 .. Len(q) + 1
  <2>1. CASE lower = {}
    BY <1>0, <1>2, <2>1
  <2>2. CASE lower # {}
    <3>1. lower \in SUBSET Nat
      BY <1>2
    <3>2. \E m \in lower : \A j \in lower : m <= j
      BY <2>2, <3>1, LeastOne
    <3>3. Min(lower) \in lower
      BY <3>2 DEF Min
    <3> QED
      BY <1>0, <1>2, <2>2, <3>3
  <2> QED
    BY <2>1, <2>2
<1>4. /\ r \in Seq(S \union {e}) /\ Len(r) = Len(q) + 1
      /\ \A j \in 1 .. k - 1 : r[j] = q[j]
      /\ r[k] = e
      /\ \A j \in k .. Len(q) : r[j + 1] = q[j]
  <2>1. WithAt(S, q, e, k, r)
    BY <1>1, <1>2, <1>3, InsertedAt
  <2> QED
    BY <2>1 DEF WithAt
<1>5. DOMAIN r = 1 .. Len(q) + 1
  BY <1>4
<1>6. \A j \in 1 .. Len(q) : q[j] \in S
  BY <1>2
<1>7. IsInjective(r)
  <2> DEFINE old(j) == IF j < k THEN j ELSE j - 1
  <2>1. ASSUME NEW j \in 1 .. Len(q) + 1, j # k
        PROVE  old(j) \in 1 .. Len(q) /\ r[j] = q[old(j)]
    <3>1. CASE j < k
      BY <1>3, <1>4, <2>1, <3>1
    <3>2. CASE ~ (j < k)
      <4>1. j - 1 \in k .. Len(q) /\ (j - 1) + 1 = j
        BY <1>2, <1>3, <2>1, <3>2
      <4> QED
        BY <1>3, <1>4, <3>2, <4>1
    <3> QED
      BY <3>1, <3>2
  <2>2. \A i, j \in 1 .. Len(q) : q[i] = q[j] => i = j
    BY <1>2 DEF Holds, IsInjective
  <2> SUFFICES ASSUME NEW i \in 1 .. Len(q) + 1, NEW j \in 1 .. Len(q) + 1, r[i] = r[j]
               PROVE  i = j
    BY <1>5 DEF IsInjective
  <2>3. CASE i # k /\ j # k
    <3>1. old(i) = old(j)
      BY <2>1, <2>2, <2>3
    <3> QED
      BY <1>2, <1>3, <2>3, <3>1
  <2>4. CASE i = k \/ j = k
    <3> HIDE DEF old
    <3> QED
      BY <1>4, <1>6, <2>1, <2>4
  <2> QED
    BY <2>3, <2>4
<1>8. Range(r) = S \union {e}
  <2>1. \A j \in 1 .. Len(q) + 1 : r[j] \in S \union {e}
    BY <1>4
  <2>2. ASSUME NEW s \in S PROVE \E j \in 1 .. Len(q) + 1 : r[j] = s
    <3>1. PICK i \in 1 .. Len(q) : q[i] = s
      BY <1>2 DEF Holds, Range
    <3>2. CASE i < k
      BY <1>2, <1>3, <1>4, <3>1, <3>2
    <3>3. CASE ~ (i < k)
      <4>1. i \in k .. Len(q) /\ i + 1 \in 1 .. Len(q) + 1
        BY <1>2, <1>3, <3>3
      <4> QED
        BY <1>4, <3>1, <4>1
    <3> QED
      BY <3>2, <3>3
  <2>3. Range(r) = {r[j] : j \in 1 .. Len(q) + 1}
    BY <1>5 DEF Range
  <2>4. \E j \in 1 .. Len(q) + 1 : r[j] = e
    BY <1>3, <1>4
  <2>5. \A s \in S \union {e} : \E j \in 1 .. Len(q) + 1 : r[j] = s
    BY <2>2, <2>4
  <2> QED
    BY <2>1, <2>3, <2>5
<1> QED
  BY <1>0, <1>1, <1>4, <1>7, <1>8 DEF Holds, InsertOrdered
\* Inserting es into q one by one: what the list is after each of the first n.
InsertSteps(q, es, key, n, f) ==
  f = [k \in 0 .. n |-> IF k = 0 THEN q ELSE InsertOrdered(f[k - 1], es[k], key)]

LEMMA InsertStepsExist ==
  ASSUME NEW q, NEW es, NEW key, NEW n \in Nat
  PROVE  \E f : InsertSteps(q, es, key, n, f)
<1> DEFINE G == {m \in 0 .. n : \E f : InsertSteps(q, es, key, m, f)}
<1>1. 0 \in G
  <2>1. PICK f : f = [k \in 0 .. 0 |-> q]
    OBVIOUS
  <2>2. f = [k \in 0 .. 0 |-> IF k = 0 THEN q ELSE InsertOrdered(f[k - 1], es[k], key)]
    BY <2>1
  <2> QED
    BY <2>2 DEF InsertSteps
<1>2. ASSUME NEW m \in 1 .. n, m - 1 \in G PROVE m \in G
  <2>1. PICK f : InsertSteps(q, es, key, m - 1, f)
    BY <1>2
  <2>2. PICK g : g = [k \in 0 .. m |-> IF k < m THEN f[k]
                                       ELSE InsertOrdered(f[m - 1], es[m], key)]
    OBVIOUS
  <2>3. \A k \in 0 .. m - 1 : g[k] = f[k]
    BY <2>2
  <2>4. g[m] = InsertOrdered(g[m - 1], es[m], key)
    BY <2>2, <2>3
  <2>5. \A k \in 0 .. m - 1 :
          g[k] = IF k = 0 THEN q ELSE InsertOrdered(g[k - 1], es[k], key)
    <3> SUFFICES ASSUME NEW k \in 0 .. m - 1
                 PROVE  g[k] = IF k = 0 THEN q ELSE InsertOrdered(g[k - 1], es[k], key)
      OBVIOUS
    <3>1. f[k] = IF k = 0 THEN q ELSE InsertOrdered(f[k - 1], es[k], key)
      BY <2>1 DEF InsertSteps
    <3>2. g[k] = f[k] /\ (k # 0 => g[k - 1] = f[k - 1])
      BY <2>3
    <3> QED
      BY <3>1, <3>2
  <2>6. \A k \in 0 .. m :
          g[k] = IF k = 0 THEN q ELSE InsertOrdered(g[k - 1], es[k], key)
    BY <2>4, <2>5
  <2>7. InsertSteps(q, es, key, m, g)
    BY <2>2, <2>6 DEF InsertSteps
  <2> QED
    BY <2>7
<1> HIDE DEF G
<1>3. n \in G
  BY <1>1, <1>2, UpTo
<1> QED
  BY <1>3 DEF G

\* list_insert_ordered of each element of es adds them all, and nothing else.
LEMMA InsertEachHolds ==
  ASSUME NEW q, NEW S, Holds(q, S), NEW es, NEW T, Holds(es, T), S \intersect T = {},
         NEW key
  PROVE  Holds(InsertEach(q, es, key), S \union T)
<1> DEFINE first(k) == {es[i] : i \in 1 .. k}
<1>1. Len(es) \in Nat /\ DOMAIN es = 1 .. Len(es)
  BY DEF Holds
<1>2. PICK f : InsertSteps(q, es, key, Len(es), f) /\ InsertEach(q, es, key) = f[Len(es)]
  <2>1. PICK f : f = CHOOSE g : InsertSteps(q, es, key, Len(es), g)
    OBVIOUS
  <2>2. InsertEach(q, es, key) = f[Len(es)]
    BY <2>1 DEF InsertEach, InsertSteps
  <2>3. InsertSteps(q, es, key, Len(es), f)
    BY <1>1, <2>1, InsertStepsExist
  <2> QED
    BY <2>2, <2>3
<1>3. \A k \in 0 .. Len(es) :
        f[k] = IF k = 0 THEN q ELSE InsertOrdered(f[k - 1], es[k], key)
  BY <1>2 DEF InsertSteps
<1> DEFINE G == {k \in 0 .. Len(es) : Holds(f[k], S \union first(k))}
<1>4. 0 \in G
  <2>1. first(0) = {}
    OBVIOUS
  <2>2. f[0] = q
    BY <1>1, <1>3
  <2> QED
    BY <1>1, <2>1, <2>2
<1>5. ASSUME NEW k \in 1 .. Len(es), k - 1 \in G PROVE k \in G
  <2>1. f[k] = InsertOrdered(f[k - 1], es[k], key)
    BY <1>1, <1>3
  <2>2. es[k] \in T /\ es[k] \notin S
    BY <1>1 DEF Holds
  <2>3. es[k] \notin first(k - 1)
    <3>1. \A i \in 1 .. k - 1 : i \in 1 .. Len(es) /\ i # k
      BY <1>1
    <3> QED
      BY <1>1, <3>1 DEF Holds, IsInjective
  <2>4. first(k) = first(k - 1) \union {es[k]}
    BY <1>1
  <2>5. Holds(f[k - 1], S \union first(k - 1)) /\ es[k] \notin S \union first(k - 1)
    BY <1>5, <2>2, <2>3
  <2> HIDE DEF first
  <2>6. Holds(f[k], (S \union first(k - 1)) \union {es[k]})
    BY <2>1, <2>5, InsertOrderedHolds
  <2>7. (S \union first(k - 1)) \union {es[k]} = S \union first(k)
    BY <2>4
  <2>8. Holds(f[k], S \union first(k))
    BY <2>6, <2>7, Zenon
  <2> QED
    BY <2>8
<1>6. Len(es) \in G
  <2> HIDE DEF G
  <2>1. \A k \in 1 .. Len(es) : k - 1 \in G => k \in G
    BY <1>5
  <2>2. \A k \in 0 .. Len(es) : k \in G
    BY <1>1, <1>4, <2>1, UpTo
  <2> QED
    BY <1>1, <2>2
<1>7. first(Len(es)) = T
  BY <1>1 DEF Holds, Range
<1> QED
  BY <1>2, <1>6, <1>7

\* list_sort keeps what is in the list.
LEMMA SortedHolds ==
  ASSUME NEW q, NEW S, Holds(q, S), NEW key
  PROVE  Holds(Sorted(q, key), S)
<1>1. Holds(<< >>, {})
  BY DEF Holds, IsInjective, Range
<1>2. Holds(InsertEach(<< >>, q, key), {} \union S)
  BY <1>1, InsertEachHolds
<1> QED
  BY <1>2 DEF Sorted

\* list_pop_front.
LEMMA FrontTaken ==
  ASSUME NEW q, NEW S, Holds(q, S), q # << >>
  PROVE  Head(q) \in S /\ Holds(Tail(q), S \ {Head(q)})
<1>1. /\ q \in Seq(S) /\ Len(q) \in Nat \ {0} /\ DOMAIN q = 1 .. Len(q) /\ Head(q) = q[1]
      /\ S = {q[i] : i \in 1 .. Len(q)}
      /\ \A i, j \in 1 .. Len(q) : q[i] = q[j] => i = j
  BY DEF Holds, IsInjective, Range
<1>2. PICK r : r = Tail(q)
  OBVIOUS
<1>3. /\ r \in Seq(S) /\ DOMAIN r = 1 .. Len(q) - 1 /\ Len(r) = Len(q) - 1
      /\ \A i \in 1 .. Len(q) - 1 : r[i] = q[i + 1]
  BY <1>1, <1>2
<1>4. \A i \in 1 .. Len(q) - 1 : r[i] \in S \ {q[1]}
  BY <1>1, <1>3
<1>5. r \in Seq(S \ {q[1]})
  BY <1>3, <1>4
<1>6. IsInjective(r)
  <2> SUFFICES ASSUME NEW i \in 1 .. Len(q) - 1, NEW j \in 1 .. Len(q) - 1, r[i] = r[j]
               PROVE  i = j
    BY <1>3 DEF IsInjective
  <2>1. q[i + 1] = q[j + 1] /\ i + 1 \in 1 .. Len(q) /\ j + 1 \in 1 .. Len(q)
    BY <1>1, <1>3
  <2>2. i + 1 = j + 1
    BY <1>1, <2>1
  <2> QED
    BY <2>2
<1>7. ASSUME NEW s \in S \ {q[1]} PROVE \E i \in 1 .. Len(q) - 1 : r[i] = s
  <2>1. PICK j \in 1 .. Len(q) : q[j] = s
    BY <1>1
  <2>2. j - 1 \in 1 .. Len(q) - 1 /\ (j - 1) + 1 = j
    BY <1>1, <2>1
  <2> QED
    BY <1>3, <2>1, <2>2
<1>8. Range(r) = S \ {q[1]}
  <2>1. Range(r) = {r[i] : i \in 1 .. Len(q) - 1}
    BY <1>3 DEF Range
  <2> QED
    BY <1>4, <1>7, <2>1
<1> QED
  BY <1>1, <1>2, <1>5, <1>6, <1>8 DEF Holds

\* list_push_back.
LEMMA BackAdded ==
  ASSUME NEW q, NEW S, Holds(q, S), NEW e, e \notin S
  PROVE  Holds(Append(q, e), S \union {e})
<1>1. /\ q \in Seq(S) /\ Len(q) \in Nat /\ DOMAIN q = 1 .. Len(q)
      /\ S = {q[i] : i \in 1 .. Len(q)}
      /\ \A i, j \in 1 .. Len(q) : q[i] = q[j] => i = j
  BY DEF Holds, IsInjective, Range
<1>2. PICK r : r = Append(q, e)
  OBVIOUS
<1>3. q \in Seq(S \union {e})
  BY <1>1
<1>4. /\ r \in Seq(S \union {e}) /\ DOMAIN r = 1 .. Len(q) + 1
      /\ \A i \in 1 .. Len(q) : r[i] = q[i]
      /\ r[Len(q) + 1] = e
  BY <1>1, <1>2, <1>3
<1>5. IsInjective(r)
  BY <1>1, <1>4 DEF IsInjective
<1>6. Range(r) = S \union {e}
  BY <1>1, <1>4 DEF Range
<1> QED
  BY <1>2, <1>4, <1>5, <1>6 DEF Holds
\* The elements of q in S, one by one.
ThoseSteps(q, S, n, f) ==
  f = [k \in 0 .. n |-> IF k = 0 THEN << >>
                        ELSE IF q[k] \in S THEN Append(f[k - 1], q[k]) ELSE f[k - 1]]

LEMMA ThoseStepsExist ==
  ASSUME NEW q, NEW S, NEW n \in Nat
  PROVE  \E f : ThoseSteps(q, S, n, f)
<1> DEFINE more(s, k) == IF q[k] \in S THEN Append(s, q[k]) ELSE s
           G == {m \in 0 .. n : \E f : ThoseSteps(q, S, m, f)}
<1>1. 0 \in G
  <2>1. PICK f : f = [k \in 0 .. 0 |-> << >>]
    OBVIOUS
  <2>2. f = [k \in 0 .. 0 |-> IF k = 0 THEN << >> ELSE more(f[k - 1], k)]
    BY <2>1
  <2> QED
    BY <2>2 DEF ThoseSteps
<1>2. ASSUME NEW m \in 1 .. n, m - 1 \in G PROVE m \in G
  <2>1. PICK f : ThoseSteps(q, S, m - 1, f)
    BY <1>2
  <2>2. PICK g : g = [k \in 0 .. m |-> IF k < m THEN f[k] ELSE more(f[m - 1], m)]
    OBVIOUS
  <2>3. \A k \in 0 .. m - 1 : g[k] = f[k]
    BY <2>2
  <2>4. g[m] = more(g[m - 1], m)
    BY <2>2, <2>3
  <2>5. \A k \in 0 .. m - 1 : g[k] = IF k = 0 THEN << >> ELSE more(g[k - 1], k)
    <3> SUFFICES ASSUME NEW k \in 0 .. m - 1
                 PROVE  g[k] = IF k = 0 THEN << >> ELSE more(g[k - 1], k)
      OBVIOUS
    <3>1. f[k] = IF k = 0 THEN << >> ELSE more(f[k - 1], k)
      BY <2>1 DEF ThoseSteps
    <3>2. g[k] = f[k] /\ (k # 0 => g[k - 1] = f[k - 1])
      BY <2>3
    <3> QED
      BY <3>1, <3>2
  <2>6. \A k \in 0 .. m : g[k] = IF k = 0 THEN << >> ELSE more(g[k - 1], k)
    BY <2>4, <2>5
  <2>7. ThoseSteps(q, S, m, g)
    BY <2>2, <2>6 DEF ThoseSteps
  <2> QED
    BY <2>7
<1> HIDE DEF G
<1>3. n \in G
  BY <1>1, <1>2, UpTo
<1> QED
  BY <1>3 DEF G

\* The elements of a list that are in S, each once.
LEMMA ThoseHolds ==
  ASSUME NEW q, NEW T, Holds(q, T), NEW S
  PROVE  Holds(Those(q, S), T \intersect S)
<1> DEFINE first(k) == {q[i] : i \in 1 .. k}
<1>1. Len(q) \in Nat /\ DOMAIN q = 1 .. Len(q)
  BY DEF Holds
<1>2. PICK f : ThoseSteps(q, S, Len(q), f) /\ Those(q, S) = f[Len(q)]
  <2>1. PICK f : f = CHOOSE g : ThoseSteps(q, S, Len(q), g)
    OBVIOUS
  <2>2. Those(q, S) = f[Len(q)]
    BY <2>1 DEF Those, ThoseSteps
  <2>3. ThoseSteps(q, S, Len(q), f)
    BY <1>1, <2>1, ThoseStepsExist
  <2> QED
    BY <2>2, <2>3
<1>3. \A k \in 0 .. Len(q) :
        f[k] = IF k = 0 THEN << >>
               ELSE IF q[k] \in S THEN Append(f[k - 1], q[k]) ELSE f[k - 1]
  BY <1>2 DEF ThoseSteps
<1> DEFINE G == {k \in 0 .. Len(q) : Holds(f[k], first(k) \intersect S)}
<1>4. 0 \in G
  <2>1. first(0) \intersect S = {}
    OBVIOUS
  <2>2. f[0] = << >>
    BY <1>1, <1>3
  <2>3. Holds(<< >>, {})
    BY DEF Holds, IsInjective, Range
  <2>4. Holds(f[0], first(0) \intersect S)
    BY <2>1, <2>2, <2>3, Zenon
  <2> QED
    BY <1>1, <2>4
<1>5. ASSUME NEW k \in 1 .. Len(q), k - 1 \in G PROVE k \in G
  <2>1. f[k] = IF q[k] \in S THEN Append(f[k - 1], q[k]) ELSE f[k - 1]
    BY <1>1, <1>3
  <2>2. q[k] \notin first(k - 1)
    <3>1. \A i \in 1 .. k - 1 : i \in 1 .. Len(q) /\ i # k
      BY <1>1
    <3> QED
      BY <1>1, <3>1 DEF Holds, IsInjective
  <2>3. first(k) = first(k - 1) \union {q[k]}
    BY <1>1
  <2>4. Holds(f[k - 1], first(k - 1) \intersect S)
    BY <1>5
  <2> HIDE DEF first
  <2>5. CASE q[k] \in S
    <3>1. Holds(Append(f[k - 1], q[k]), (first(k - 1) \intersect S) \union {q[k]})
      BY <2>2, <2>4, BackAdded
    <3>2. (first(k - 1) \intersect S) \union {q[k]} = first(k) \intersect S
      BY <2>3, <2>5
    <3>3. f[k] = Append(f[k - 1], q[k])
      BY <2>1, <2>5
    <3>4. Holds(f[k], first(k) \intersect S)
      BY <3>1, <3>2, <3>3, Zenon
    <3> QED
      BY <3>4
  <2>6. CASE q[k] \notin S
    <3>1. first(k - 1) \intersect S = first(k) \intersect S
      BY <2>3, <2>6
    <3>2. f[k] = f[k - 1]
      BY <2>1, <2>6
    <3>3. Holds(f[k], first(k) \intersect S)
      BY <2>4, <3>1, <3>2, Zenon
    <3> QED
      BY <3>3
  <2> QED
    BY <2>5, <2>6
<1>6. Len(q) \in G
  <2> HIDE DEF G
  <2>1. \A k \in 1 .. Len(q) : k - 1 \in G => k \in G
    BY <1>5
  <2>2. \A k \in 0 .. Len(q) : k \in G
    BY <1>1, <1>4, <2>1, UpTo
  <2> QED
    BY <1>1, <2>2
<1>7. first(Len(q)) = T
  BY <1>1 DEF Holds, Range
<1>8. Holds(f[Len(q)], first(Len(q)) \intersect S)
  BY <1>6
<1> HIDE DEF first
<1> QED
  BY <1>2, <1>7, <1>8, Zenon
-------------------------------------------------------------------------------
(* The scheduler.                                                           *)

Statuses == {"running", "ready", "blocked", "dead"}

\* The thread that runs is c, and the list q holds those that are ready in st.
Scheduled(c, q, st) ==
  /\ c \in Threads \union {Idle}
  /\ st \in [Threads -> Statuses]
  /\ \A t \in Threads : st[t] = "running" <=> c = t
  /\ Holds(q, {t \in Threads : st[t] = "ready"})

\* schedule, when the thread that ran has its new status.
LEMMA SwitchSchedules ==
  ASSUME NEW st \in [Threads -> Statuses], \A t \in Threads : st[t] # "running",
         NEW q, Holds(q, {t \in Threads : st[t] = "ready"}), Switch(st, q)
  PROVE  /\ Scheduled(cur', ready', status')
         /\ \A t \in Threads : status'[t] = "blocked" <=> st[t] = "blocked"
<1> DEFINE R == {t \in Threads : st[t] = "ready"}
<1>1. CASE q = << >>
  <2>1. cur' = Idle /\ ready' = q /\ status' = st
    BY <1>1 DEF Switch
  <2> QED
    BY <2>1, ThreadAssumption DEF Scheduled
<1>2. CASE q # << >>
  <2>1. PICK h : h = Head(q)
    OBVIOUS
  <2>2. cur' = h /\ ready' = Tail(q) /\ status' = [st EXCEPT ![h] = "running"]
    BY <1>2, <2>1 DEF Switch
  <2>3. h \in R /\ Holds(ready', R \ {h})
    BY <1>2, <2>1, <2>2, FrontTaken
  <2>4. \A t \in Threads : status'[t] = IF t = h THEN "running" ELSE st[t]
    BY <2>2
  <2>5. status' \in [Threads -> Statuses]
    BY <2>2 DEF Statuses
  <2>6. R \ {h} = {t \in Threads : status'[t] = "ready"}
    BY <2>4
  <2>7. Holds(ready', {t \in Threads : status'[t] = "ready"})
    BY <2>3, <2>6, Zenon
  <2> QED
    BY <2>2, <2>3, <2>4, <2>5, <2>7 DEF Scheduled
<1> QED
  BY <1>1, <1>2

\* thread_yield.
LEMMA YieldSchedules ==
  ASSUME NEW st, NEW q, NEW t \in Threads, Scheduled(t, q, st), NEW p, Yield(t, st, q, p)
  PROVE  /\ Scheduled(cur', ready', status')
         /\ \A u \in Threads : status'[u] = "blocked" <=> st[u] = "blocked"
<1>1. PICK mid : mid = [st EXCEPT ![t] = "ready"]
  OBVIOUS
<1>2. /\ mid \in [Threads -> Statuses]
      /\ \A u \in Threads : mid[u] = IF u = t THEN "ready" ELSE st[u]
  BY <1>1 DEF Scheduled, Statuses
<1>3. PICK r : r = InsertOrdered(q, t, p)
  OBVIOUS
<1>4. Switch(mid, r)
  BY <1>1, <1>3 DEF Yield
<1>5. Holds(r, {u \in Threads : mid[u] = "ready"})
  <2>1. Holds(q, {u \in Threads : st[u] = "ready"}) /\ t \notin {u \in Threads : st[u] = "ready"}
    BY DEF Scheduled
  <2>2. Holds(r, {u \in Threads : st[u] = "ready"} \union {t})
    BY <1>3, <2>1, InsertOrderedHolds
  <2>3. {u \in Threads : st[u] = "ready"} \union {t} = {u \in Threads : mid[u] = "ready"}
    BY <1>2
  <2> QED
    BY <2>2, <2>3, Zenon
<1>6. \A u \in Threads : mid[u] # "running"
  BY <1>2 DEF Scheduled
<1>7. /\ Scheduled(cur', ready', status')
      /\ \A u \in Threads : status'[u] = "blocked" <=> mid[u] = "blocked"
  BY <1>2, <1>4, <1>5, <1>6, SwitchSchedules
<1> QED
  BY <1>2, <1>7 DEF Scheduled

\* The running thread leaves the processor with the status s.
LEMMA LeaveSchedules ==
  ASSUME NEW t \in Threads, Scheduled(t, ready, status), NEW s \in {"blocked", "dead"},
         Switch([status EXCEPT ![t] = s], ready)
  PROVE  /\ Scheduled(cur', ready', status')
         /\ \A u \in Threads : status'[u] = "blocked" <=>
              status[u] = "blocked" \/ (u = t /\ s = "blocked")
<1>1. PICK mid : mid = [status EXCEPT ![t] = s]
  OBVIOUS
<1>2. /\ mid \in [Threads -> Statuses]
      /\ \A u \in Threads : mid[u] = IF u = t THEN s ELSE status[u]
  BY <1>1 DEF Scheduled, Statuses
<1>3. {u \in Threads : status[u] = "ready"} = {u \in Threads : mid[u] = "ready"}
  BY <1>2 DEF Scheduled
<1>4. Holds(ready, {u \in Threads : mid[u] = "ready"})
  BY <1>3, Zenon DEF Scheduled
<1>5. \A u \in Threads : mid[u] # "running"
  BY <1>2 DEF Scheduled
<1>6. /\ Scheduled(cur', ready', status')
      /\ \A u \in Threads : status'[u] = "blocked" <=> mid[u] = "blocked"
  BY <1>1, <1>2, <1>4, <1>5, SwitchSchedules
<1>7. status[t] = "running"
  BY DEF Scheduled
<1>8. \A u \in Threads : mid[u] = "blocked" <=>
        status[u] = "blocked" \/ (u = t /\ s = "blocked")
  BY <1>2, <1>7
<1> QED
  BY <1>6, <1>8

\* The scheduler with thread u awake: c runs, q is the ready list.
Awakes(c, q, st, u) ==
  /\ Scheduled(c, q, st)
  /\ \A v \in Threads : st[v] = "blocked" <=> status[v] = "blocked" /\ v # u

\* A blocked thread becomes ready, on the list q.
LEMMA WakeSchedules ==
  ASSUME NEW c, Scheduled(c, ready, status), NEW u \in Threads, status[u] = "blocked",
         NEW st, st = [status EXCEPT ![u] = "ready"],
         NEW key, NEW q, q = InsertOrdered(ready, u, key)
  PROVE  Awakes(c, q, st, u)
<1>1. /\ st \in [Threads -> Statuses]
      /\ \A v \in Threads : st[v] = IF v = u THEN "ready" ELSE status[v]
  BY DEF Scheduled, Statuses
<1>2. /\ Holds(ready, {v \in Threads : status[v] = "ready"})
      /\ u \notin {v \in Threads : status[v] = "ready"}
  BY DEF Scheduled
<1>3. Holds(q, {v \in Threads : status[v] = "ready"} \union {u})
  BY <1>2, InsertOrderedHolds
<1>4. {v \in Threads : status[v] = "ready"} \union {u} = {v \in Threads : st[v] = "ready"}
  BY <1>1
<1>5. Holds(q, {v \in Threads : st[v] = "ready"})
  BY <1>3, <1>4, Zenon
<1> QED
  BY <1>1, <1>5 DEF Scheduled, Awakes

\* thread_unblock.
LEMMA UnblockSchedules ==
  ASSUME NEW t \in Threads, Scheduled(t, ready, status), NEW u \in Threads,
         status[u] = "blocked", Unblock(t, u)
  PROVE  /\ Scheduled(cur', ready', status')
         /\ \A v \in Threads : status'[v] = "blocked" <=> status[v] = "blocked" /\ v # u
<1>1. PICK q, st : q = InsertOrdered(ready, u, pri) /\ st = [status EXCEPT ![u] = "ready"]
  OBVIOUS
<1>a. Awakes(t, q, st, u)
  BY <1>1, WakeSchedules
<1>2. /\ Scheduled(t, q, st)
      /\ \A v \in Threads : st[v] = "blocked" <=> status[v] = "blocked" /\ v # u
  BY <1>a DEF Awakes
<1>3. Yield(t, st, q, pri) \/ (cur' = t /\ ready' = q /\ status' = st)
  BY <1>1 DEF Unblock
<1>4. CASE Yield(t, st, q, pri)
  BY <1>2, <1>4, YieldSchedules
<1> QED
  BY <1>2, <1>3, <1>4

\* The yield at the end of thread_set_priority and lock_release.
LEMMA SetOwnSchedules ==
  ASSUME NEW t \in Threads, Scheduled(t, ready, status), cur = t,
         NEW p, Yield(t, status, ready, p) \/ UNCHANGED sched
  PROVE  /\ Scheduled(cur', ready', status')
         /\ \A v \in Threads : status'[v] = "blocked" <=> status[v] = "blocked"
<1>1. CASE Yield(t, status, ready, p)
  BY <1>1, YieldSchedules
<1>2. CASE UNCHANGED sched
  BY <1>2 DEF sched
<1> QED
  BY <1>1, <1>2

\* thread_unblock of several threads from an interrupt handler.
LEMMA HandlerSchedules ==
  ASSUME Scheduled(cur, ready, status), NEW us, NEW U, Holds(us, U),
         U \subseteq {t \in Threads : status[t] = "blocked"}, WakeInIntr(us)
  PROVE  /\ Scheduled(cur', ready', status')
         /\ \A v \in Threads : status'[v] = "blocked" <=> status[v] = "blocked" /\ v \notin U
<1>1. Range(us) = U
  BY DEF Holds
<1>2. /\ cur' = cur /\ ready' = InsertEach(ready, us, pri)
      /\ status' = [t \in Threads |-> IF t \in U THEN "ready" ELSE status[t]]
  BY <1>1 DEF WakeInIntr
<1>3. /\ status' \in [Threads -> Statuses]
      /\ \A v \in Threads : status'[v] = IF v \in U THEN "ready" ELSE status[v]
  BY <1>2 DEF Scheduled, Statuses
<1>4. Holds(ready', {t \in Threads : status[t] = "ready"} \union U)
  <2>1. Holds(ready, {t \in Threads : status[t] = "ready"})
    BY DEF Scheduled
  <2>2. {t \in Threads : status[t] = "ready"} \intersect U = {}
    OBVIOUS
  <2> QED
    BY <1>2, <2>1, <2>2, InsertEachHolds
<1>5. {t \in Threads : status[t] = "ready"} \union U = {t \in Threads : status'[t] = "ready"}
  BY <1>3
<1>6. Holds(ready', {t \in Threads : status'[t] = "ready"})
  BY <1>4, <1>5, Zenon
<1>7. \A t \in Threads : status'[t] = "running" <=> cur' = t
  BY <1>2, <1>3 DEF Scheduled
<1> QED
  BY <1>2, <1>3, <1>6, <1>7 DEF Scheduled
-------------------------------------------------------------------------------
(* Each thread on its list.                                                 *)

\* Threads that sleep, and threads that wait for the semaphore x.
Asleep == {t \in Threads : status[t] = "blocked" /\ pc[t] = "user"}
WaitingFor(x) == {t \in Threads : status[t] = "blocked" /\ pc[t] = "retry" /\ reg[t].on = x}

\* The lists hold what they should, and a blocked thread has called timer_sleep
\* or is in the loop of sema_down.
ListInv ==
  /\ Scheduled(cur, ready, status)
  /\ Holds(sleepers, Asleep)
  /\ DOMAIN waiters = Sema
  /\ \A x \in Sema : Holds(waiters[x], WaitingFor(x))
  /\ \A t \in Threads : status[t] = "blocked" => pc[t] \in {"user", "retry"}

\* A step that blocks and wakes nobody and leaves the blocked threads alone.
LEMMA NobodyMoves ==
  ASSUME ListInv, Scheduled(cur', ready', status'),
         \A u \in Threads : status'[u] = "blocked" <=> status[u] = "blocked",
         \A u \in Threads : status[u] = "blocked" => pc'[u] = pc[u] /\ reg'[u] = reg[u],
         sleepers' = sleepers, waiters' = waiters
  PROVE  ListInv'
<1>1. Asleep' = Asleep
  BY DEF Asleep
<1>2. ASSUME NEW x \in Sema PROVE WaitingFor(x)' = WaitingFor(x)
  BY DEF WaitingFor
<1>3. Holds(sleepers, Asleep)'
  BY <1>1 DEF ListInv
<1>4. \A x \in Sema : Holds(waiters[x], WaitingFor(x))'
  BY <1>2 DEF ListInv
<1>5. \A t \in Threads : status'[t] = "blocked" => pc'[t] \in {"user", "retry"}
  BY DEF ListInv
<1> QED
  BY <1>3, <1>4, <1>5 DEF ListInv

\* A step of the running thread that touches neither scheduler nor lists.
LEMMA RunnerMoves ==
  ASSUME ListInv, NEW t \in Threads, cur = t, UNCHANGED << sched, sleepers, waiters >>,
         \A u \in Threads \ {t} : pc'[u] = pc[u] /\ reg'[u] = reg[u]
  PROVE  ListInv'
<1>1. cur' = cur /\ ready' = ready /\ status' = status
  BY DEF sched
<1>2. status[t] = "running"
  BY DEF ListInv, Scheduled
<1>3. Scheduled(cur', ready', status')
  BY <1>1 DEF ListInv
<1> QED
  BY <1>1, <1>2, <1>3, NobodyMoves

\* sema_down on zero.
LEMMA WaitLists ==
  ASSUME LockInv, ListInv, NEW t \in Threads, DownWait(t)
  PROVE  ListInv'
<1>1. PICK x : x = reg[t].on
  OBVIOUS
<1>2. /\ x \in Sema /\ cur = t /\ pc[t] \in {"down", "retry"}
      /\ waiters' = [waiters EXCEPT ![x] = InsertOrdered(waiters[x], t, pri)]
      /\ Block(t) /\ pc' = [pc EXCEPT ![t] = "retry"]
      /\ sleepers' = sleepers /\ reg' = reg
  BY <1>1 DEF DownWait, At, Goto, LockInv, LockTypes
<1>3. Scheduled(t, ready, status) /\ status[t] = "running"
  BY <1>2 DEF ListInv, Scheduled
<1>4. /\ Scheduled(cur', ready', status')
      /\ \A u \in Threads : status'[u] = "blocked" <=> status[u] = "blocked" \/ u = t
  <2>1. Switch([status EXCEPT ![t] = "blocked"], ready)
    BY <1>2 DEF Block
  <2> QED
    BY <1>3, <2>1, LeaveSchedules
<1>5. \A u \in Threads : pc'[u] = IF u = t THEN "retry" ELSE pc[u]
  BY <1>2 DEF LockInv, LockTypes
<1>6. Asleep' = Asleep
  BY <1>2, <1>3, <1>4, <1>5 DEF Asleep
<1>7. ASSUME NEW y \in Sema
      PROVE  WaitingFor(y)' = IF y = x THEN WaitingFor(x) \union {t} ELSE WaitingFor(y)
  BY <1>1, <1>2, <1>3, <1>4, <1>5 DEF WaitingFor
<1>8. Holds(sleepers, Asleep)'
  BY <1>2, <1>6 DEF ListInv
<1>9. ASSUME NEW y \in Sema PROVE Holds(waiters[y], WaitingFor(y))'
  <2>1. CASE y = x
    <3>1. Holds(waiters[x], WaitingFor(x)) /\ t \notin WaitingFor(x)
      BY <1>2, <1>3 DEF ListInv, WaitingFor
    <3>2. Holds(InsertOrdered(waiters[x], t, pri), WaitingFor(x) \union {t})
      BY <3>1, InsertOrderedHolds
    <3>3. waiters'[y] = InsertOrdered(waiters[x], t, pri)
      BY <1>2, <2>1 DEF ListInv
    <3>4. WaitingFor(y)' = WaitingFor(x) \union {t}
      BY <1>7, <2>1
    <3> QED
      BY <3>2, <3>3, <3>4
  <2>2. CASE y # x
    <3>1. waiters'[y] = waiters[y] /\ WaitingFor(y)' = WaitingFor(y)
      BY <1>2, <1>7, <2>2 DEF ListInv
    <3> QED
      BY <3>1 DEF ListInv
  <2> QED
    BY <2>1, <2>2
<1>10. \A u \in Threads : status'[u] = "blocked" => pc'[u] \in {"user", "retry"}
  BY <1>4, <1>5 DEF ListInv
<1> QED
  BY <1>2, <1>4, <1>8, <1>9, <1>10 DEF ListInv

\* timer_sleep.
LEMMA SleepLists ==
  ASSUME ListInv, NEW t \in Threads, Sleep(t)
  PROVE  ListInv'
<1>1. /\ cur = t /\ pc[t] = "user" /\ sleepers' = Append(sleepers, t)
      /\ Switch([status EXCEPT ![t] = "blocked"], ready)
      /\ waiters' = waiters /\ pc' = pc /\ reg' = reg
  BY DEF Sleep, At, Block, semas
<1>2. Scheduled(t, ready, status) /\ status[t] = "running"
  BY <1>1 DEF ListInv, Scheduled
<1>3. /\ Scheduled(cur', ready', status')
      /\ \A u \in Threads : status'[u] = "blocked" <=> status[u] = "blocked" \/ u = t
  BY <1>1, <1>2, LeaveSchedules
<1>4. Asleep' = Asleep \union {t} /\ t \notin Asleep
  BY <1>1, <1>2, <1>3 DEF Asleep
<1>5. ASSUME NEW x \in Sema PROVE WaitingFor(x)' = WaitingFor(x)
  BY <1>1, <1>3 DEF WaitingFor
<1>6. Holds(sleepers, Asleep)'
  <2>1. Holds(Append(sleepers, t), Asleep \union {t})
    BY <1>4, BackAdded DEF ListInv
  <2> QED
    BY <1>1, <1>4, <2>1
<1>7. \A x \in Sema : Holds(waiters[x], WaitingFor(x))'
  BY <1>1, <1>5 DEF ListInv
<1>8. \A u \in Threads : status'[u] = "blocked" => pc'[u] \in {"user", "retry"}
  BY <1>1, <1>3 DEF ListInv
<1> QED
  BY <1>1, <1>3, <1>6, <1>7, <1>8 DEF ListInv
\* A step that wakes u, and no other, from the semaphore x.
LEMMA OneWakes ==
  ASSUME ListInv, NEW x \in Sema, NEW u \in WaitingFor(x),
         NEW q, Holds(q, WaitingFor(x) \ {u}), waiters' = [waiters EXCEPT ![x] = q],
         Scheduled(cur', ready', status'),
         \A v \in Threads : status'[v] = "blocked" <=> status[v] = "blocked" /\ v # u,
         \A v \in Threads : status[v] = "blocked" => pc'[v] = pc[v] /\ reg'[v] = reg[v],
         sleepers' = sleepers
  PROVE  ListInv'
<1>1. u \in Threads /\ status[u] = "blocked" /\ pc[u] = "retry" /\ reg[u].on = x
  BY DEF WaitingFor
<1>2. Asleep' = Asleep
  BY <1>1 DEF Asleep
<1>3. ASSUME NEW y \in Sema
      PROVE  WaitingFor(y)' = IF y = x THEN WaitingFor(x) \ {u} ELSE WaitingFor(y)
  BY <1>1 DEF WaitingFor
<1>4. Holds(sleepers, Asleep)'
  BY <1>2 DEF ListInv
<1>5. ASSUME NEW y \in Sema PROVE Holds(waiters[y], WaitingFor(y))'
  <2>1. CASE y = x
    <3>1. waiters'[y] = q /\ WaitingFor(y)' = WaitingFor(x) \ {u}
      BY <1>3, <2>1 DEF ListInv
    <3> QED
      BY <3>1
  <2>2. CASE y # x
    <3>1. waiters'[y] = waiters[y] /\ WaitingFor(y)' = WaitingFor(y)
      BY <1>3, <2>2 DEF ListInv
    <3> QED
      BY <3>1 DEF ListInv
  <2> QED
    BY <2>1, <2>2
<1>6. \A v \in Threads : status'[v] = "blocked" => pc'[v] \in {"user", "retry"}
  BY DEF ListInv
<1> QED
  BY <1>4, <1>5, <1>6 DEF ListInv

\* The first of the sorted waiters, and the rest.
LEMMA FirstWaiter ==
  ASSUME ListInv, NEW x \in Sema, waiters[x] # << >>,
         NEW q, q = Sorted(waiters[x], pri)
  PROVE  Head(q) \in WaitingFor(x) /\ Holds(Tail(q), WaitingFor(x) \ {Head(q)})
<1>1. Holds(waiters[x], WaitingFor(x))
  BY DEF ListInv
<1>2. Holds(q, WaitingFor(x))
  BY <1>1, SortedHolds
<1>3. q # << >>
  <2>1. waiters[x] \in Seq(WaitingFor(x)) /\ waiters[x][1] \in WaitingFor(x)
    BY <1>1 DEF Holds
  <2>2. Range(<< >>) = {}
    BY DEF Range
  <2> QED
    BY <1>2, <2>1, <2>2 DEF Holds
<1> QED
  BY <1>2, <1>3, FrontTaken

\* sema_up by the running thread.
LEMMA UpLists ==
  ASSUME ListInv, NEW t \in Threads, cur = t, NEW x \in Sema, SemaUp(t, x),
         \A u \in Threads \ {t} : pc'[u] = pc[u] /\ reg'[u] = reg[u],
         sleepers' = sleepers
  PROVE  ListInv'
<1>1. Scheduled(t, ready, status) /\ status[t] = "running"
  BY DEF ListInv, Scheduled
<1>2. CASE waiters[x] = << >>
  <2>1. waiters' = waiters /\ UNCHANGED sched
    BY <1>2 DEF SemaUp
  <2> QED
    BY <2>1, RunnerMoves
<1>3. CASE waiters[x] # << >>
  <2>1. PICK q : q = Sorted(waiters[x], pri)
    OBVIOUS
  <2>2. PICK u, r : u = Head(q) /\ r = Tail(q)
    OBVIOUS
  <2>3. waiters' = [waiters EXCEPT ![x] = r] /\ Unblock(t, u)
    BY <1>3, <2>1, <2>2 DEF SemaUp
  <2>4. u \in WaitingFor(x) /\ Holds(r, WaitingFor(x) \ {u})
    BY <1>3, <2>1, <2>2, FirstWaiter
  <2>5. u \in Threads /\ status[u] = "blocked"
    BY <2>4 DEF WaitingFor
  <2>6. /\ Scheduled(cur', ready', status')
        /\ \A v \in Threads : status'[v] = "blocked" <=> status[v] = "blocked" /\ v # u
    BY <1>1, <2>3, <2>5, UnblockSchedules
  <2>7. \A v \in Threads : status[v] = "blocked" => pc'[v] = pc[v] /\ reg'[v] = reg[v]
    BY <1>1
  <2> QED
    BY <2>3, <2>4, <2>6, <2>7, OneWakes
<1> QED
  BY <1>2, <1>3

\* sema_up by a device's handler.
LEMMA IntrUpLists ==
  ASSUME ListInv, NEW s \in Semas, IntrUp(s)
  PROVE  ListInv'
<1>1. s \in Sema /\ sleepers' = sleepers /\ pc' = pc /\ reg' = reg
  BY DEF IntrUp, Sema
<1>2. CASE waiters[s] = << >>
  <2>1. waiters' = waiters /\ UNCHANGED sched
    BY <1>2 DEF IntrUp
  <2>2. cur' = cur /\ ready' = ready /\ status' = status
    BY <2>1 DEF sched
  <2>3. Scheduled(cur', ready', status')
    BY <2>2 DEF ListInv
  <2> QED
    BY <1>1, <2>1, <2>2, <2>3, NobodyMoves
<1>3. CASE waiters[s] # << >>
  <2>1. PICK q : q = Sorted(waiters[s], pri)
    OBVIOUS
  <2>2. PICK u, r : u = Head(q) /\ r = Tail(q)
    OBVIOUS
  <2>3. waiters' = [waiters EXCEPT ![s] = r] /\ WakeInIntr(<< u >>)
    BY <1>3, <2>1, <2>2 DEF IntrUp
  <2>4. u \in WaitingFor(s) /\ Holds(r, WaitingFor(s) \ {u})
    BY <1>1, <1>3, <2>1, <2>2, FirstWaiter
  <2>5. u \in Threads /\ status[u] = "blocked"
    BY <2>4 DEF WaitingFor
  <2>6. Holds(<< u >>, {u})
    BY DEF Holds, IsInjective, Range
  <2>7. /\ Scheduled(cur', ready', status')
        /\ \A v \in Threads : status'[v] = "blocked" <=> status[v] = "blocked" /\ v \notin {u}
    <3>1. {u} \subseteq {t \in Threads : status[t] = "blocked"}
      BY <2>5
    <3>2. Scheduled(cur, ready, status)
      BY DEF ListInv
    <3> QED
      BY <2>3, <2>6, <3>1, <3>2, HandlerSchedules
  <2>8. \A v \in Threads : status'[v] = "blocked" <=> status[v] = "blocked" /\ v # u
    BY <2>7
  <2> QED
    BY <1>1, <2>3, <2>4, <2>7, <2>8, OneWakes
<1> QED
  BY <1>2, <1>3

\* thread_awake.
LEMMA AwakeLists ==
  ASSUME ListInv, NEW due, Awake(due)
  PROVE  ListInv'
<1>1. PICK us : us = Those(sleepers, due)
  OBVIOUS
<1>2. /\ sleepers' = Those(sleepers, Threads \ due) /\ WakeInIntr(us)
      /\ waiters' = waiters /\ pc' = pc /\ reg' = reg
  BY <1>1 DEF Awake, semas
<1>3. Holds(sleepers, Asleep) /\ Scheduled(cur, ready, status)
  BY DEF ListInv
<1>4. Holds(us, Asleep \intersect due)
  BY <1>1, <1>3, ThoseHolds
<1>5. Holds(sleepers', Asleep \intersect (Threads \ due))
  BY <1>2, <1>3, ThoseHolds
<1>6. Asleep \intersect due \subseteq {t \in Threads : status[t] = "blocked"}
  BY DEF Asleep
<1>7. /\ Scheduled(cur', ready', status')
      /\ \A v \in Threads : status'[v] = "blocked" <=>
           status[v] = "blocked" /\ v \notin Asleep \intersect due
  BY <1>2, <1>3, <1>4, <1>6, HandlerSchedules
<1>8. Asleep' = Asleep \intersect (Threads \ due)
  BY <1>2, <1>7 DEF Asleep
<1>9. ASSUME NEW x \in Sema PROVE WaitingFor(x)' = WaitingFor(x)
  BY <1>2, <1>7 DEF WaitingFor, Asleep
<1>10. Holds(sleepers, Asleep)'
  BY <1>5, <1>8
<1>11. \A x \in Sema : Holds(waiters[x], WaitingFor(x))'
  BY <1>2, <1>9 DEF ListInv
<1>12. \A u \in Threads : status'[u] = "blocked" => pc'[u] \in {"user", "retry"}
  BY <1>2, <1>7 DEF ListInv
<1> QED
  BY <1>2, <1>7, <1>10, <1>11, <1>12 DEF ListInv
\* The kernel starts with every thread on the ready list.
LEMMA InitLists == Init => ListInv
<1> SUFFICES ASSUME Init PROVE ListInv
  OBVIOUS
<1>1. PICK order \in SetToSeqs(Threads) : ready = Sorted(order, orig)
  BY DEF Init
<1>2. Cardinality(Threads) \in Nat
  BY FiniteAssumption, FS_CardinalityType
<1>3. PICK n : n = Cardinality(Threads)
  OBVIOUS
<1>4. /\ order \in [1 .. n -> Threads]
      /\ \A i, j \in 1 .. n : i # j => order[i] # order[j]
  BY <1>1, <1>3 DEF SetToSeqs
<1>5. order \in Surjection(1 .. n, Threads)
  <2>1. order \in Injection(1 .. n, Threads)
    BY <1>4 DEF Injection, IsInjective
  <2>2. Cardinality(1 .. n) = n
    BY <1>2, <1>3, FS_Interval
  <2> QED
    BY <1>3, <2>1, <2>2, FiniteAssumption, FS_Injection
<1>6. Holds(order, Threads)
  <2>1. order \in Seq(Threads) /\ DOMAIN order = 1 .. n
    BY <1>2, <1>3, <1>4
  <2>2. IsInjective(order)
    BY <1>4, <2>1 DEF IsInjective
  <2>3. \A t \in Threads : \E i \in 1 .. n : order[i] = t
    BY <1>5 DEF Surjection
  <2>4. Range(order) = {order[i] : i \in 1 .. n}
    BY <2>1 DEF Range
  <2>5. Range(order) = Threads
    BY <1>4, <2>3, <2>4
  <2> QED
    BY <2>1, <2>2, <2>5 DEF Holds
<1>7. Holds(ready, Threads)
  BY <1>1, <1>6, SortedHolds
<1>8. /\ cur = Idle /\ status = [t \in Threads |-> "ready"]
      /\ waiters = [x \in Sema |-> << >>] /\ sleepers = << >>
  BY DEF Init
<1>9. Holds(<< >>, {})
  BY DEF Holds, IsInjective, Range
<1>10. /\ {t \in Threads : status[t] = "ready"} = Threads
       /\ Asleep = {} /\ \A x \in Sema : WaitingFor(x) = {}
  BY <1>8 DEF Asleep, WaitingFor
<1>11. Holds(ready, {t \in Threads : status[t] = "ready"})
  BY <1>7, <1>10, Zenon
<1>12. Scheduled(cur, ready, status)
  BY <1>8, <1>11, ThreadAssumption DEF Scheduled, Statuses
<1>13. Holds(sleepers, Asleep) /\ \A x \in Sema : Holds(waiters[x], WaitingFor(x))
  BY <1>8, <1>9, <1>10
<1> QED
  BY <1>8, <1>12, <1>13 DEF ListInv

\* The end of thread_exit.
LEMMA DieLists ==
  ASSUME LockInv, ListInv, NEW t \in Threads, cur = t, Die(t),
         reg' = reg \/ reg' = [reg EXCEPT ![t] = NoReg]
  PROVE  ListInv'
<1>1. /\ Switch([status EXCEPT ![t] = "dead"], ready) /\ pc' = [pc EXCEPT ![t] = "dead"]
      /\ sleepers' = sleepers /\ waiters' = waiters
  BY DEF Die, Goto, semas
<1>2. Scheduled(t, ready, status) /\ status[t] = "running"
  BY DEF ListInv, Scheduled
<1>3. /\ Scheduled(cur', ready', status')
      /\ \A u \in Threads : status'[u] = "blocked" <=>
           status[u] = "blocked" \/ (u = t /\ "dead" = "blocked")
  BY <1>1, <1>2, LeaveSchedules
<1>4. \A u \in Threads : status'[u] = "blocked" <=> status[u] = "blocked"
  BY <1>3
<1>5. \A u \in Threads : status[u] = "blocked" => pc'[u] = pc[u] /\ reg'[u] = reg[u]
  BY <1>1, <1>2 DEF LockInv, LockTypes
<1> QED
  BY <1>1, <1>3, <1>4, <1>5, NobodyMoves

\* A release in thread_exit's loop.
LEMMA ExitReleaseLists ==
  ASSUME LockInv, ListInv, NEW t \in Threads, cur = t, NEW l, ExitRelease(t, l)
  PROVE  ListInv'
<1>1. /\ reg' = [reg EXCEPT ![t].on = l, ![t].exit = TRUE]
      /\ UNCHANGED << sched, sleepers, waiters >>
      /\ pc' = pc \/ pc' = [pc EXCEPT ![t] = "rel_up"]
  BY DEF ExitRelease, Disown, Goto, semas
<1>2. \A u \in Threads \ {t} : pc'[u] = pc[u] /\ reg'[u] = reg[u]
  BY <1>1 DEF LockInv, LockTypes
<1> QED
  BY <1>1, <1>2, RunnerMoves

\* A step of the running thread that may yield in the end.
LEMMA YieldLists ==
  ASSUME LockInv, ListInv, NEW t \in Threads, cur = t,
         NEW p, Yield(t, status, ready, p) \/ UNCHANGED sched,
         sleepers' = sleepers, waiters' = waiters,
         \A u \in Threads \ {t} : pc'[u] = pc[u] /\ reg'[u] = reg[u]
  PROVE  ListInv'
<1>1. Scheduled(t, ready, status) /\ status[t] = "running"
  BY DEF ListInv, Scheduled
<1>2. /\ Scheduled(cur', ready', status')
      /\ \A u \in Threads : status'[u] = "blocked" <=> status[u] = "blocked"
  BY <1>1, SetOwnSchedules
<1>3. \A u \in Threads : status[u] = "blocked" => pc'[u] = pc[u] /\ reg'[u] = reg[u]
  BY <1>1
<1> QED
  BY <1>2, <1>3, NobodyMoves

\* The idle thread gives way.
LEMMA IdleLists ==
  ASSUME ListInv, IdleBlock
  PROVE  ListInv'
<1>1. /\ Switch(status, ready) /\ cur = Idle /\ pc' = pc /\ reg' = reg
      /\ sleepers' = sleepers /\ waiters' = waiters
  BY DEF IdleBlock, semas
<1>2. /\ status \in [Threads -> Statuses] /\ Holds(ready, {t \in Threads : status[t] = "ready"})
      /\ \A t \in Threads : status[t] # "running"
  BY <1>1, ThreadAssumption DEF ListInv, Scheduled
<1>3. /\ Scheduled(cur', ready', status')
      /\ \A u \in Threads : status'[u] = "blocked" <=> status[u] = "blocked"
  BY <1>1, <1>2, SwitchSchedules
<1> QED
  BY <1>1, <1>3, NobodyMoves

\* Every section of the kernel keeps the lists.
LEMMA NextLists ==
  ASSUME LockInv, ListInv, [Next]_vars
  PROVE  ListInv'
<1>d. DOMAIN pc = Threads /\ DOMAIN reg = Threads
  BY DEF LockInv, LockTypes
<1> USE DEF semas, At, Goto
<1>1. ASSUME NEW t \in Threads, NEW l \in Locks, AcquireRead(t, l) PROVE ListInv'
  BY <1>d, <1>1, RunnerMoves DEF AcquireRead
<1>2. ASSUME NEW t \in Threads, NEW l \in Locks, Release(t, l) PROVE ListInv'
  BY <1>d, <1>2, RunnerMoves DEF Release, Disown
<1>3. ASSUME NEW t \in Threads, AcquireWait(t) PROVE ListInv'
  BY <1>d, <1>3, RunnerMoves DEF AcquireWait
<1>4. ASSUME NEW t \in Threads, Donate(t) PROVE ListInv'
  <2>1. /\ cur = t /\ UNCHANGED << sched, sleepers, waiters >>
        /\ \/ pc' = [pc EXCEPT ![t] = "down"] /\ reg' = reg
           \/ /\ pc' = pc
              /\ reg' = [reg EXCEPT ![t].at = waiting[reg[t].h],
                                    ![t].h = holder[waiting[reg[t].h]]]
    BY <1>4 DEF Donate
  <2>2. \A u \in Threads \ {t} : pc'[u] = pc[u] /\ reg'[u] = reg[u]
    BY <1>d, <2>1
  <2> QED
    BY <2>1, <2>2, RunnerMoves
<1>5. ASSUME NEW t \in Threads, DonateDangling(t) PROVE ListInv'
  BY <1>5, RunnerMoves DEF DonateDangling
<1>6. ASSUME NEW t \in Threads, DonateEnd(t) PROVE ListInv'
  BY <1>d, <1>6, RunnerMoves DEF DonateEnd
<1>7. ASSUME NEW t \in Threads, Down(t) PROVE ListInv'
  <2>1. /\ cur = t /\ UNCHANGED << sched, sleepers, waiters >>
        /\ \/ pc' = [pc EXCEPT ![t] = "acq_own"] /\ reg' = reg
           \/ pc' = [pc EXCEPT ![t] = "user"] /\ reg' = [reg EXCEPT ![t] = NoReg]
    BY <1>7 DEF Down
  <2>2. \A u \in Threads \ {t} : pc'[u] = pc[u] /\ reg'[u] = reg[u]
    BY <1>d, <2>1
  <2> QED
    BY <2>1, <2>2, RunnerMoves
<1>8. ASSUME NEW t \in Threads, AcquireOwn(t) PROVE ListInv'
  BY <1>d, <1>8, RunnerMoves DEF AcquireOwn
<1>9. ASSUME NEW t \in Threads, AcquireList(t) PROVE ListInv'
  BY <1>d, <1>9, RunnerMoves DEF AcquireList
<1>10. ASSUME NEW t \in Threads, ReleaseUp(t) PROVE ListInv'
  <2>1. /\ cur = t /\ SemaUp(t, reg[t].on) /\ sleepers' = sleepers /\ reg' = reg
        /\ pc' = [pc EXCEPT ![t] = "rel_remove"] /\ reg[t].on \in Sema
    BY <1>10 DEF ReleaseUp, LockInv, LockTypes, Sema
  <2> QED
    BY <1>d, <2>1, UpLists
<1>11. ASSUME NEW t \in Threads, ReleaseRemove(t) PROVE ListInv'
  <2>1. /\ cur = t /\ UNCHANGED << sched, sleepers, waiters >>
        /\ pc' = pc \/ pc' = [pc EXCEPT ![t] = "rel_restore"]
        /\ reg' = reg \/ \E n : reg' = [reg EXCEPT ![t].next = n]
    BY <1>11 DEF ReleaseRemove
  <2>2. \A u \in Threads \ {t} : pc'[u] = pc[u] /\ reg'[u] = reg[u]
    BY <1>d, <2>1
  <2> QED
    BY <2>1, <2>2, RunnerMoves
<1>12. ASSUME NEW t \in Threads, ReleaseRestore(t) PROVE ListInv'
  <2>1. PICK n : n = Restored(t)
    OBVIOUS
  <2>2. /\ cur = t /\ sleepers' = sleepers /\ waiters' = waiters
        /\ SetOwn(t, n)
        /\ \/ pc' = [pc EXCEPT ![t] = "exit_next"] /\ reg' = reg
           \/ pc' = [pc EXCEPT ![t] = "user"] /\ reg' = [reg EXCEPT ![t] = NoReg]
    BY <1>12, <2>1 DEF ReleaseRestore
  <2>3. PICK p : Yield(t, status, ready, p) \/ UNCHANGED sched
    BY <2>2 DEF SetOwn
  <2>4. \A u \in Threads \ {t} : pc'[u] = pc[u] /\ reg'[u] = reg[u]
    BY <1>d, <2>2
  <2> QED
    BY <2>2, <2>3, <2>4, YieldLists
<1>13. ASSUME NEW t \in Threads, ExitNext(t) PROVE ListInv'
  <2>1. CASE elemOf[reg[t].on] # t
    BY <1>13, <2>1, RunnerMoves DEF ExitNext
  <2>2. CASE elemOf[reg[t].on] = t
    BY <1>13, <2>2, DieLists, ExitReleaseLists DEF ExitNext
  <2> QED
    BY <2>1, <2>2
<1>14. ASSUME NEW t \in Threads, Exit(t) PROVE ListInv'
  BY <1>14, DieLists, ExitReleaseLists DEF Exit
<1>15. ASSUME NEW t \in Threads, NEW n \in Pri, SetPriority(t, n) PROVE ListInv'
  <2>1. /\ cur = t /\ sleepers' = sleepers /\ waiters' = waiters /\ pc' = pc /\ reg' = reg
    BY <1>15 DEF SetPriority
  <2>2. PICK p : Yield(t, status, ready, p) \/ UNCHANGED sched
    BY <1>15 DEF SetPriority, SetOwn
  <2> QED
    BY <2>1, <2>2, YieldLists
<1>16. ASSUME NEW t \in Threads, NEW s \in Semas, DownCall(t, s) PROVE ListInv'
  BY <1>d, <1>16, RunnerMoves DEF DownCall
<1>17. ASSUME NEW t \in Threads, NEW s \in Semas, UpCall(t, s) PROVE ListInv'
  BY <1>17, UpLists DEF UpCall, Sema
<1>18. CASE Preempt
  <2>1. /\ cur \in Threads /\ Yield(cur, status, ready, pri)
        /\ sleepers' = sleepers /\ waiters' = waiters /\ pc' = pc /\ reg' = reg
    BY <1>18 DEF Preempt, ListInv, Scheduled
  <2>2. PICK t \in Threads : cur = t
    BY <2>1
  <2> QED
    BY <2>1, <2>2, YieldLists
<1>19. CASE UNCHANGED vars
  <2>1. UNCHANGED << cur, ready, status, sleepers, waiters, pc, reg >>
    BY <1>19 DEF vars, sched
  <2>2. Scheduled(cur', ready', status')
    BY <2>1 DEF ListInv
  <2> QED
    BY <2>1, <2>2, NobodyMoves
<1> QED
  BY <1>1, <1>2, <1>3, <1>4, <1>5, <1>6, <1>7, <1>8, <1>9, <1>10, <1>11, <1>12, <1>13,
     <1>14, <1>15, <1>16, <1>17, <1>18, <1>19, WaitLists, SleepLists, IntrUpLists,
     AwakeLists, IdleLists
     DEF Next, LockStep

\* The lists and the scheduler agree at every step, whatever thread is woken,
\* preempted or killed (thread.c, sema_down, sema_up, thread_awake).
THEOREM ListsInvariant == Spec => []ListInv
<1>1. LockInv /\ ListInv /\ [Next]_vars => ListInv'
  BY NextLists
<1> QED
  BY <1>1, InitLists, LockInvInductive, PTL DEF Spec

\* A thread is on the one list its status calls for, once: `elem' is never in two
\* lists of thread.c and synch.c.
THEOREM OnOneList == Spec => []OneList
<1>1. LockInv /\ ListInv => OneList
  <2> SUFFICES ASSUME LockInv, ListInv PROVE OneList
    OBVIOUS
  <2>1. IsInjective(ready) /\ Range(ready) = {t \in Threads : status[t] = "ready"}
    BY DEF ListInv, Scheduled, Holds
  <2>2. IsInjective(sleepers) /\ Range(sleepers) = Asleep
    BY DEF ListInv, Holds
  <2>3. \A x \in Sema : IsInjective(waiters[x]) /\ Range(waiters[x]) = WaitingFor(x)
    BY DEF ListInv, Holds
  <2>4. ASSUME NEW t \in Threads
        PROVE  /\ status[t] = "running" <=> cur = t
               /\ status[t] = "ready" <=> t \in Range(ready)
    BY <2>1 DEF ListInv, Scheduled
  <2>5. ASSUME NEW t \in Threads
        PROVE  status[t] = "blocked" <=>
                 t \in Range(sleepers) \/ \E x \in Sema : t \in Range(waiters[x])
    <3>1. pc[t] = "retry" => reg[t].on \in Sema
      BY DEF LockInv, LockTypes
    <3>2. status[t] = "blocked" => pc[t] \in {"user", "retry"}
      BY DEF ListInv
    <3> QED
      BY <2>2, <2>3, <3>1, <3>2 DEF Asleep, WaitingFor
  <2>6. ASSUME NEW t \in Threads, NEW x \in Sema, t \in Range(waiters[x])
        PROVE  t \notin Range(sleepers) /\ \A y \in Sema \ {x} : t \notin Range(waiters[y])
    BY <2>2, <2>3, <2>6 DEF Asleep, WaitingFor
  <2> QED
    BY <2>1, <2>2, <2>3, <2>4, <2>5, <2>6 DEF OneList
<1> QED
  BY <1>1, LockInvInductive, ListsInvariant, PTL
-------------------------------------------------------------------------------
(* Wakeups.  sema_up raises the value and wakes a waiter in one section, but *)
(* the waiter takes the unit only when it runs: in between others may pass.  *)

\* The threads that were woken for x and have yet to look at its value.
Woken(x) ==
  {t \in Threads : pc[t] = "retry" /\ reg[t].on = x /\ status[t] # "blocked"}

\* NoLostWakeup, and the value of a semaphore never passes below zero.
WakeInv ==
  \A x \in Sema :
    value[x] \in Nat /\ (waiters[x] # << >> => value[x] <= Cardinality(Woken(x)))

\* A woken thread stays woken until it looks, as long as nobody joins the list.
LEMMA StillWoken ==
  ASSUME ListInv, ListInv', NEW x \in Sema, NEW u \in Woken(x),
         pc'[u] = "retry", reg'[u].on = x, Range(waiters'[x]) \subseteq Range(waiters[x])
  PROVE  u \in Woken(x)'
<1>1. Range(waiters[x]) = WaitingFor(x) /\ Range(waiters'[x]) = WaitingFor(x)'
  BY DEF ListInv, Holds
<1>2. u \in Threads /\ u \notin WaitingFor(x)'
  BY <1>1 DEF Woken, WaitingFor
<1> QED
  BY <1>2 DEF Woken, WaitingFor

\* The woken threads can be counted.
LEMMA WokenCount ==
  ASSUME NEW x
  PROVE  IsFiniteSet(Woken(x)) /\ Cardinality(Woken(x)) \in Nat
<1>1. Woken(x) \subseteq Threads
  BY DEF Woken
<1> QED
  BY <1>1, FiniteAssumption, FS_Subset, FS_CardinalityType

LEMMA WokenCountNext ==
  ASSUME NEW x
  PROVE  IsFiniteSet(Woken(x)') /\ Cardinality(Woken(x)') \in Nat
<1>1. Woken(x)' \subseteq Threads
  BY DEF Woken
<1> QED
  BY <1>1, FiniteAssumption, FS_Subset, FS_CardinalityType

\* A semaphore whose list and value stay keeps its woken threads, when no thread
\* leaves the loop of sema_down.
LEMMA SameWakeups ==
  ASSUME ListInv, ListInv', WakeInv, NEW x \in Sema,
         value'[x] = value[x], waiters'[x] = waiters[x],
         \A u \in Woken(x) : pc'[u] = "retry" /\ reg'[u].on = x
  PROVE  value'[x] \in Nat /\ (waiters'[x] # << >> => value'[x] <= Cardinality(Woken(x)'))
<1>1. Woken(x) \subseteq Woken(x)'
  BY StillWoken
<1>2. Cardinality(Woken(x)) <= Cardinality(Woken(x)')
  BY <1>1, WokenCountNext, FS_Subset
<1> QED
  BY <1>2, WokenCount, WokenCountNext DEF WakeInv

\* A step that touches no semaphore.
LEMMA NoWakeups ==
  ASSUME ListInv, ListInv', WakeInv, value' = value, waiters' = waiters,
         \A u \in Threads : pc[u] = "retry" => pc'[u] = "retry" /\ reg'[u].on = reg[u].on
  PROVE  WakeInv'
<1>1. \A x \in Sema : \A u \in Woken(x) : pc'[u] = "retry" /\ reg'[u].on = x
  BY DEF Woken
<1>2. ASSUME NEW x \in Sema
      PROVE  value'[x] \in Nat /\ (waiters'[x] # << >> => value'[x] <= Cardinality(Woken(x)'))
  BY <1>1, SameWakeups
<1> QED
  BY <1>2 DEF WakeInv

\* sema_down on a positive value: one unit less, and at most one woken thread.
LEMMA DownWakes ==
  ASSUME LockInv, ListInv, ListInv', WakeInv, NEW t \in Threads, Down(t)
  PROVE  WakeInv'
<1>1. PICK x \in Sema : x = reg[t].on
  BY DEF Down, At, LockInv, LockTypes
<1>2. /\ value' = [value EXCEPT ![x] = @ - 1] /\ value[x] > 0 /\ waiters' = waiters
      /\ \/ pc' = [pc EXCEPT ![t] = "acq_own"] /\ reg' = reg
         \/ pc' = [pc EXCEPT ![t] = "user"] /\ reg' = [reg EXCEPT ![t] = NoReg]
  BY <1>1 DEF Down, Goto
<1>3. \A u \in Threads \ {t} : pc'[u] = pc[u] /\ reg'[u] = reg[u]
  BY <1>2 DEF LockInv, LockTypes
<1>4. value'[x] = value[x] - 1 /\ \A y \in Sema \ {x} : value'[y] = value[y]
  BY <1>2 DEF LockInv, LockTypes
<1>5. ASSUME NEW y \in Sema \ {x}
      PROVE  value'[y] \in Nat /\ (waiters'[y] # << >> => value'[y] <= Cardinality(Woken(y)'))
  <2>1. \A u \in Woken(y) : pc'[u] = "retry" /\ reg'[u].on = y
    BY <1>1, <1>3 DEF Woken
  <2> QED
    BY <1>2, <1>4, <2>1, SameWakeups
<1>6. value'[x] \in Nat
  BY <1>2, <1>4 DEF WakeInv
<1>7. ASSUME waiters'[x] # << >>
      PROVE  value'[x] <= Cardinality(Woken(x)')
  <2>1. \A u \in Woken(x) \ {t} : pc'[u] = "retry" /\ reg'[u].on = x
    BY <1>3 DEF Woken
  <2>2. Woken(x) \ {t} \subseteq Woken(x)'
    BY <1>2, <2>1, StillWoken
  <2>3. Cardinality(Woken(x) \ {t}) <= Cardinality(Woken(x)')
    BY <2>2, WokenCountNext, FS_Subset
  <2>4. Cardinality(Woken(x)) <= Cardinality(Woken(x) \ {t}) + 1
    <3>1. PICK S : S = Woken(x)
      OBVIOUS
    <3>2. IsFiniteSet(S) /\ Cardinality(S) \in Nat
      BY <3>1, WokenCount
    <3>3. Cardinality(S \ {t}) = IF t \in S THEN Cardinality(S) - 1 ELSE Cardinality(S)
      BY <3>2, FS_RemoveElement
    <3> QED
      BY <3>1, <3>2, <3>3
  <2>5. value[x] <= Cardinality(Woken(x)) /\ value[x] \in Nat
    BY <1>2, <1>7 DEF WakeInv
  <2>6. Cardinality(Woken(x) \ {t}) \in Nat
    BY WokenCount, FS_RemoveElement, FS_CardinalityType
  <2> QED
    BY <1>4, <2>3, <2>4, <2>5, <2>6, WokenCount, WokenCountNext
<1> QED
  BY <1>5, <1>6, <1>7 DEF WakeInv

\* sema_down on zero.
LEMMA WaitWakes ==
  ASSUME LockInv, ListInv, ListInv', WakeInv, NEW t \in Threads, DownWait(t)
  PROVE  WakeInv'
<1>1. PICK x \in Sema : x = reg[t].on
  BY DEF DownWait, At, LockInv, LockTypes
<1>2. /\ value' = value /\ value[x] = 0 /\ reg' = reg /\ pc' = [pc EXCEPT ![t] = "retry"]
      /\ waiters' = [waiters EXCEPT ![x] = InsertOrdered(@, t, pri)]
  BY <1>1 DEF DownWait, Goto
<1>3. ASSUME NEW y \in Sema \ {x}
      PROVE  value'[y] \in Nat /\ (waiters'[y] # << >> => value'[y] <= Cardinality(Woken(y)'))
  <2>1. \A u \in Woken(y) : pc'[u] = "retry" /\ reg'[u].on = y
    BY <1>1, <1>2 DEF Woken, LockInv, LockTypes
  <2>2. waiters'[y] = waiters[y]
    BY <1>2 DEF ListInv
  <2> QED
    BY <1>2, <2>1, <2>2, SameWakeups
<1>4. value'[x] = 0 /\ 0 <= Cardinality(Woken(x)')
  BY <1>2, WokenCountNext
<1> QED
  BY <1>3, <1>4 DEF WakeInv

\* One more unit of x, and the thread u woken for it.
LEMMA OneMoreWoken ==
  ASSUME LockInv, ListInv, ListInv', WakeInv, NEW x \in Sema,
         value' = [value EXCEPT ![x] = @ + 1],
         NEW u \in WaitingFor(x), NEW r, waiters' = [waiters EXCEPT ![x] = r],
         Holds(r, WaitingFor(x) \ {u}),
         \A v \in Threads : pc[v] = "retry" => pc'[v] = "retry" /\ reg'[v].on = reg[v].on
  PROVE  WakeInv'
<1>1. /\ value'[x] = value[x] + 1 /\ \A y \in Sema \ {x} : value'[y] = value[y]
      /\ waiters'[x] = r /\ \A y \in Sema \ {x} : waiters'[y] = waiters[y]
  BY DEF LockInv, LockTypes, ListInv
<1>2. \A y \in Sema : \A v \in Woken(y) : pc'[v] = "retry" /\ reg'[v].on = y
  BY DEF Woken
<1>3. ASSUME NEW y \in Sema \ {x}
      PROVE  value'[y] \in Nat /\ (waiters'[y] # << >> => value'[y] <= Cardinality(Woken(y)'))
  BY <1>1, <1>2, SameWakeups
<1>4. /\ Range(waiters[x]) = WaitingFor(x) /\ Range(waiters'[x]) = WaitingFor(x) \ {u}
      /\ Range(waiters'[x]) = WaitingFor(x)'
  BY <1>1 DEF ListInv, Holds
<1>5. u \in Woken(x)' /\ u \notin Woken(x)
  BY <1>4 DEF Woken, WaitingFor
<1>6. Woken(x) \union {u} \subseteq Woken(x)'
  BY <1>2, <1>4, <1>5, StillWoken
<1>7. Cardinality(Woken(x) \union {u}) <= Cardinality(Woken(x)')
  BY <1>6, WokenCountNext, FS_Subset
<1>8. Cardinality(Woken(x) \union {u}) = Cardinality(Woken(x)) + 1
  BY <1>5, WokenCount, FS_AddElement
<1>9. waiters[x] # << >>
  BY <1>4 DEF Range
<1>10. value[x] \in Nat /\ value[x] <= Cardinality(Woken(x))
  BY <1>9 DEF WakeInv
<1>11. value'[x] \in Nat /\ value'[x] <= Cardinality(Woken(x)')
  BY <1>1, <1>7, <1>8, <1>10, WokenCount, WokenCountNext
<1> QED
  BY <1>3, <1>11 DEF WakeInv

\* One more unit of x, when nobody waits for it.
LEMMA OneMoreFree ==
  ASSUME LockInv, ListInv, ListInv', WakeInv, NEW x \in Sema,
         value' = [value EXCEPT ![x] = @ + 1], waiters[x] = << >>, waiters' = waiters,
         \A v \in Threads : pc[v] = "retry" => pc'[v] = "retry" /\ reg'[v].on = reg[v].on
  PROVE  WakeInv'
<1>1. value'[x] = value[x] + 1 /\ \A y \in Sema \ {x} : value'[y] = value[y]
  BY DEF LockInv, LockTypes
<1>2. \A y \in Sema : \A v \in Woken(y) : pc'[v] = "retry" /\ reg'[v].on = y
  BY DEF Woken
<1>3. ASSUME NEW y \in Sema \ {x}
      PROVE  value'[y] \in Nat /\ (waiters'[y] # << >> => value'[y] <= Cardinality(Woken(y)'))
  BY <1>1, <1>2, SameWakeups
<1>4. value'[x] \in Nat /\ waiters'[x] = << >>
  BY <1>1 DEF WakeInv
<1> QED
  BY <1>3, <1>4 DEF WakeInv
\* sema_up by the running thread.
LEMMA UpWakes ==
  ASSUME LockInv, ListInv, ListInv', WakeInv, NEW t \in Threads, NEW x \in Sema, SemaUp(t, x),
         \A v \in Threads : pc[v] = "retry" => pc'[v] = "retry" /\ reg'[v].on = reg[v].on
  PROVE  WakeInv'
<1>1. value' = [value EXCEPT ![x] = @ + 1]
  BY DEF SemaUp
<1>2. CASE waiters[x] = << >>
  <2>1. waiters' = waiters
    BY <1>2 DEF SemaUp
  <2> QED
    BY <1>1, <1>2, <2>1, OneMoreFree
<1>3. CASE waiters[x] # << >>
  <2>1. PICK q : q = Sorted(waiters[x], pri)
    OBVIOUS
  <2>2. PICK u, r : u = Head(q) /\ r = Tail(q)
    OBVIOUS
  <2>3. waiters' = [waiters EXCEPT ![x] = r]
    BY <1>3, <2>1, <2>2 DEF SemaUp
  <2>4. u \in WaitingFor(x) /\ Holds(r, WaitingFor(x) \ {u})
    BY <1>3, <2>1, <2>2, FirstWaiter
  <2> QED
    BY <1>1, <2>3, <2>4, OneMoreWoken
<1> QED
  BY <1>2, <1>3

\* sema_up by a device's handler.
LEMMA IntrUpWakes ==
  ASSUME LockInv, ListInv, ListInv', WakeInv, NEW x \in Semas, IntrUp(x)
  PROVE  WakeInv'
<1>1. x \in Sema /\ value' = [value EXCEPT ![x] = @ + 1] /\ pc' = pc /\ reg' = reg
  BY DEF IntrUp, Sema
<1>2. CASE waiters[x] = << >>
  <2>1. waiters' = waiters
    BY <1>2 DEF IntrUp
  <2> QED
    BY <1>1, <1>2, <2>1, OneMoreFree
<1>3. CASE waiters[x] # << >>
  <2>1. PICK q : q = Sorted(waiters[x], pri)
    OBVIOUS
  <2>2. PICK u, r : u = Head(q) /\ r = Tail(q)
    OBVIOUS
  <2>3. waiters' = [waiters EXCEPT ![x] = r]
    BY <1>3, <2>1, <2>2 DEF IntrUp
  <2>4. u \in WaitingFor(x) /\ Holds(r, WaitingFor(x) \ {u})
    BY <1>1, <1>3, <2>1, <2>2, FirstWaiter
  <2> QED
    BY <1>1, <2>3, <2>4, OneMoreWoken
<1> QED
  BY <1>2, <1>3

\* A thread in a section of its own is not in the loop of sema_down, so that what
\* it does to its locals disturbs no woken thread.
LEMMA RunnerWakes ==
  ASSUME ListInv, ListInv', WakeInv, NEW t \in Threads, pc[t] # "retry",
         value' = value, waiters' = waiters,
         \A u \in Threads \ {t} : pc'[u] = pc[u] /\ reg'[u] = reg[u]
  PROVE  WakeInv'
<1>1. \A u \in Threads : pc[u] = "retry" => pc'[u] = "retry" /\ reg'[u].on = reg[u].on
  OBVIOUS
<1> QED
  BY <1>1, NoWakeups

\* Every section of the kernel.
LEMMA NextWakes ==
  ASSUME LockInv, ListInv, ListInv', WakeInv, [Next]_vars
  PROVE  WakeInv'
<1>d. DOMAIN pc = Threads /\ DOMAIN reg = Threads
  BY DEF LockInv, LockTypes
<1> USE DEF semas, At, Goto
<1>1. ASSUME NEW t \in Threads, NEW l \in Locks, AcquireRead(t, l) PROVE WakeInv'
  BY <1>d, <1>1, RunnerWakes DEF AcquireRead
<1>2. ASSUME NEW t \in Threads, NEW l \in Locks, Release(t, l) PROVE WakeInv'
  BY <1>d, <1>2, RunnerWakes DEF Release, Disown
<1>3. ASSUME NEW t \in Threads, AcquireWait(t) PROVE WakeInv'
  BY <1>d, <1>3, RunnerWakes DEF AcquireWait
<1>4. ASSUME NEW t \in Threads, Donate(t) PROVE WakeInv'
  <2>1. /\ pc[t] = "acq_donate" /\ UNCHANGED << value, waiters >>
        /\ \/ pc' = [pc EXCEPT ![t] = "down"] /\ reg' = reg
           \/ /\ pc' = pc
              /\ reg' = [reg EXCEPT ![t].at = waiting[reg[t].h],
                                    ![t].h = holder[waiting[reg[t].h]]]
    BY <1>4 DEF Donate
  <2>2. \A u \in Threads \ {t} : pc'[u] = pc[u] /\ reg'[u] = reg[u]
    BY <1>d, <2>1
  <2> QED
    BY <2>1, <2>2, RunnerWakes
<1>5. ASSUME NEW t \in Threads, DonateDangling(t) PROVE WakeInv'
  BY <1>5, RunnerWakes DEF DonateDangling
<1>6. ASSUME NEW t \in Threads, DonateEnd(t) PROVE WakeInv'
  BY <1>d, <1>6, RunnerWakes DEF DonateEnd
<1>7. ASSUME NEW t \in Threads, AcquireOwn(t) PROVE WakeInv'
  BY <1>d, <1>7, RunnerWakes DEF AcquireOwn
<1>8. ASSUME NEW t \in Threads, AcquireList(t) PROVE WakeInv'
  BY <1>d, <1>8, RunnerWakes DEF AcquireList
<1>9. ASSUME NEW t \in Threads, ReleaseUp(t) PROVE WakeInv'
  <2>1. /\ pc[t] = "rel_up" /\ SemaUp(t, reg[t].on) /\ reg' = reg
        /\ pc' = [pc EXCEPT ![t] = "rel_remove"] /\ reg[t].on \in Sema
    BY <1>9 DEF ReleaseUp, LockInv, LockTypes, Sema
  <2>2. \A v \in Threads : pc[v] = "retry" => pc'[v] = "retry" /\ reg'[v].on = reg[v].on
    BY <1>d, <2>1
  <2> QED
    BY <2>1, <2>2, UpWakes
<1>10. ASSUME NEW t \in Threads, ReleaseRemove(t) PROVE WakeInv'
  <2>1. /\ pc[t] = "rel_remove" /\ UNCHANGED << value, waiters >>
        /\ pc' = pc \/ pc' = [pc EXCEPT ![t] = "rel_restore"]
        /\ reg' = reg \/ \E n : reg' = [reg EXCEPT ![t].next = n]
    BY <1>10 DEF ReleaseRemove
  <2>2. \A u \in Threads \ {t} : pc'[u] = pc[u] /\ reg'[u] = reg[u]
    BY <1>d, <2>1
  <2> QED
    BY <2>1, <2>2, RunnerWakes
<1>11. ASSUME NEW t \in Threads, ReleaseRestore(t) PROVE WakeInv'
  <2>1. /\ pc[t] = "rel_restore" /\ UNCHANGED << value, waiters >>
        /\ \/ pc' = [pc EXCEPT ![t] = "exit_next"] /\ reg' = reg
           \/ pc' = [pc EXCEPT ![t] = "user"] /\ reg' = [reg EXCEPT ![t] = NoReg]
    BY <1>11 DEF ReleaseRestore
  <2>2. \A u \in Threads \ {t} : pc'[u] = pc[u] /\ reg'[u] = reg[u]
    BY <1>d, <2>1
  <2> QED
    BY <2>1, <2>2, RunnerWakes
<1>12. ASSUME NEW t \in Threads, NEW l, pc[t] \in {"user", "exit_next"}, ExitRelease(t, l)
       PROVE  WakeInv'
  <2>1. /\ UNCHANGED << value, waiters >>
        /\ reg' = [reg EXCEPT ![t].on = l, ![t].exit = TRUE]
        /\ pc' = pc \/ pc' = [pc EXCEPT ![t] = "rel_up"]
    BY <1>12 DEF ExitRelease, Disown
  <2>2. \A u \in Threads \ {t} : pc'[u] = pc[u] /\ reg'[u] = reg[u]
    BY <1>d, <2>1
  <2> QED
    BY <1>12, <2>1, <2>2, RunnerWakes
<1>13. ASSUME NEW t \in Threads, pc[t] \in {"user", "exit_next"}, Die(t),
              reg' = reg \/ reg' = [reg EXCEPT ![t] = NoReg]
       PROVE  WakeInv'
  BY <1>d, <1>13, RunnerWakes DEF Die
<1>14. ASSUME NEW t \in Threads, ExitNext(t) PROVE WakeInv'
  <2>1. CASE elemOf[reg[t].on] # t
    BY <1>14, <2>1, RunnerWakes DEF ExitNext
  <2>2. CASE elemOf[reg[t].on] = t
    BY <1>12, <1>13, <1>14, <2>2 DEF ExitNext
  <2> QED
    BY <2>1, <2>2
<1>15. ASSUME NEW t \in Threads, Exit(t) PROVE WakeInv'
  BY <1>12, <1>13, <1>15 DEF Exit
<1>16. ASSUME NEW t \in Threads, NEW n \in Pri, SetPriority(t, n) PROVE WakeInv'
  BY <1>16, RunnerWakes DEF SetPriority
<1>17. ASSUME NEW t \in Threads, NEW s \in Semas, DownCall(t, s) PROVE WakeInv'
  BY <1>d, <1>17, RunnerWakes DEF DownCall
<1>18. ASSUME NEW t \in Threads, NEW s \in Semas, UpCall(t, s) PROVE WakeInv'
  BY <1>18, UpWakes DEF UpCall, Sema
<1>19. ASSUME NEW t \in Threads, Sleep(t) PROVE WakeInv'
  BY <1>19, RunnerWakes DEF Sleep
<1>20. ASSUME NEW due, Awake(due) PROVE WakeInv'
  BY <1>20, NoWakeups DEF Awake
<1>21. CASE Preempt
  BY <1>21, NoWakeups DEF Preempt
<1>22. CASE IdleBlock
  BY <1>22, NoWakeups DEF IdleBlock
<1>23. CASE UNCHANGED vars
  BY <1>23, NoWakeups DEF vars
<1> QED
  BY <1>1, <1>2, <1>3, <1>4, <1>5, <1>6, <1>7, <1>8, <1>9, <1>10, <1>11, <1>14, <1>15,
     <1>16, <1>17, <1>18, <1>19, <1>20, <1>21, <1>22, <1>23, DownWakes, WaitWakes,
     IntrUpWakes
     DEF Next, LockStep

\* No wakeup is lost, and a semaphore's value is never below zero, whoever passes
\* between sema_up and the woken thread's next look (synch.c:63-127).
THEOREM WakeupsKept == Spec => []NoLostWakeup
<1>1. Init => WakeInv
  BY DEF Init, WakeInv
<1>2. LockInv /\ ListInv /\ ListInv' /\ WakeInv /\ [Next]_vars => WakeInv'
  BY NextWakes
<1>3. WakeInv => NoLostWakeup
  <2> SUFFICES ASSUME WakeInv, NEW x \in Sema, waiters[x] # << >>
               PROVE  value[x] <= Cardinality(Woken(x))
    BY DEF NoLostWakeup, Woken
  <2> QED
    BY DEF WakeInv
<1> QED
  BY <1>1, <1>2, <1>3, LockInvInductive, ListsInvariant, PTL DEF Spec
===============================================================================
