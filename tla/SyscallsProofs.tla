---------------------------- MODULE SyscallsProofs ----------------------------
(***************************************************************************)
(* For any number of processes, files and pages, in parts.                 *)
(*                                                                         *)
(* LockInv: filesys_lock is held by whoever is in the middle of a call,    *)
(* and by nobody else but a process that has left sys_seek in the middle.  *)
(* Every other call ends in Return, or exits from sys_read with the lock   *)
(* released, and Return is reached with the lock.                          *)
(*                                                                         *)
(* TablesInv: the identifiers of the two lists of a process go up along    *)
(* the list, no page is mapped twice, and a page has an entry just when it *)
(* is mapped.  So a search has one answer, and what it takes away is one   *)
(* descriptor or one mapping.                                              *)
(*                                                                         *)
(* HandInv: who has found an inode on open_inodes, or frees one, still has *)
(* it in hand at the step that uses it.                                    *)
(*                                                                         *)
(* On them rest StoredInv, by which an entry knows that its page was       *)
(* stored into, wherever the page is, and CountInv, the openers of a file, *)
(* which an exit takes away one by one, before it frees the inode.         *)
(***************************************************************************)
EXTENDS Syscalls, FiniteSetTheorems, SequenceTheorems, TLAPS

Labels == Holding \union {"none", "user", "acquire", "load", "exit", "freeing"}

\* The inductive invariant: the discipline, and the types it rests on.
LockInv ==
  /\ pc \in [Procs -> Labels]
  /\ filesys_lock \in Procs \union {None}
  /\ LockDiscipline

\* One process runs at first, outside of any call.
LEMMA InitLock == Init => LockInv
  BY NoneAssumption DEF Init, LockInv, LockDiscipline, Labels, Holding

\* The end of a call, in the kernel's side of a call or of an exit.
LEMMA ReturnStep ==
  ASSUME LockInv, NEW p \in Procs, pc[p] \in Holding, Return(p), astray' = astray
  PROVE  LockInv'
<1>1. pc' = [pc EXCEPT ![p] = IF p \in leaving THEN "exit" ELSE "user"]
      /\ filesys_lock' = None
  BY DEF Return, Goto
<1>2. filesys_lock = p
  BY DEF LockInv, LockDiscipline
<1>3. \A q \in Procs : pc'[q] \notin Holding
  BY <1>1, <1>2 DEF LockInv, LockDiscipline, Holding
<1> QED
  BY <1>1, <1>3, NoneAssumption DEF LockInv, LockDiscipline, Labels, Holding

\* A step of p that leaves the lock alone keeps p on its side of it.
LEMMA SameSide ==
  ASSUME LockInv, NEW p \in Procs, NEW l \in Labels, Goto(p, l),
         filesys_lock' = filesys_lock, astray' = astray,
         pc[p] \in Holding <=> l \in Holding
  PROVE  LockInv'
  BY DEF Goto, LockInv, LockDiscipline, Labels, Holding

\* A step that leaves the processes and the lock alone.
LEMMA Elsewhere ==
  ASSUME LockInv, pc' = pc, filesys_lock' = filesys_lock, astray' = astray
  PROVE  LockInv'
  BY DEF LockInv, LockDiscipline

\* The calls: each returns, stops the machine, goes on with the lock or, in
\* sys_seek, leaves with it.
LEMMA CallStep ==
  ASSUME LockInv, NEW p \in Procs, Call(p)
  PROVE  LockInv'
<1>1. pc[p] = "in" /\ p \in Procs
  BY DEF Call, sys_create, sys_remove, sys_open, sys_close, sys_seek, sys_isdir,
         sys_write, sys_mmap, sys_munmap, sys_exec, sys_read, Inside
<1>2. pc[p] \in Holding
  BY <1>1 DEF Holding
<1>3. CASE Return(p) /\ astray' = astray
  BY <1>2, <1>3, ReturnStep
<1>4. CASE \E id \in Ids : sys_seek(p, id) /\ FileOf(p, id) = None
  <2>1. /\ pc' = [pc EXCEPT ![p] = "user"]
        /\ filesys_lock' = filesys_lock
        /\ astray' = astray \union {p}
    BY <1>4 DEF sys_seek, Goto
  <2> QED
    BY <1>1, <2>1 DEF LockInv, LockDiscipline, Labels, Holding
<1>5. CASE UNCHANGED << pc, filesys_lock, astray >>
  BY <1>5, Elsewhere
<1>6. CASE \E i \in DOMAIN maps[p] : sys_munmap(p, i)
  <2>1. PICK l \in {"pin", "unmap"} :
          Goto(p, l) /\ filesys_lock' = filesys_lock /\ astray' = astray
    BY <1>6 DEF sys_munmap, kept
  <2> QED
    BY <1>2, <2>1, SameSide DEF Labels, Holding
<1>7. CASE sys_exec(p)
  <2>1. PICK q \in Procs : pc[q] = "none" /\ pc' = [pc EXCEPT ![p] = "wait", ![q] = "load"]
    BY <1>7 DEF sys_exec
  <2>2. filesys_lock' = filesys_lock /\ astray' = astray
    BY <1>7 DEF sys_exec, kept
  <2> QED
    BY <1>1, <2>1, <2>2 DEF LockInv, LockDiscipline, Labels, Holding
<1>8. CASE \E l \in {"removing", "opening", "keys"} :
             Goto(p, l) /\ UNCHANGED << filesys_lock, astray >>
  BY <1>2, <1>8, SameSide DEF Labels, Holding
<1>9. ASSUME NEW f \in Files, sys_open(p, f) \/ sys_remove(p, f) PROVE LockInv'
  BY <1>3, <1>8, <1>9 DEF sys_open, sys_remove, Found, kept
<1>10. CASE sys_read(p)
  BY <1>8, <1>10 DEF sys_read, kept
<1> QED
  BY <1>3, <1>4, <1>5, <1>6, <1>7, <1>9, <1>10
     DEF Call, sys_create, sys_close, sys_seek, sys_isdir, sys_write, sys_mmap, kept

\* A child that has been loaded lets its parent return from sys_exec: the lock
\* that is released is the parent's.
LEMMA LoadedStep ==
  ASSUME LockInv, NEW q \in Procs, Loaded(q)
  PROVE  LockInv'
<1>1. PICK p \in Procs, l \in {"user", "exit"} :
        /\ pc[p] = "wait"
        /\ pc' = [pc EXCEPT ![p] = "user", ![q] = l]
        /\ filesys_lock' = None
  BY DEF Loaded
<1>2. filesys_lock = p
  BY <1>1 DEF LockInv, LockDiscipline, Holding
<1>3. \A r \in Procs : pc'[r] \notin Holding
  BY <1>1, <1>2 DEF LockInv, LockDiscipline, Holding
<1> QED
  BY <1>1, <1>3, NoneAssumption DEF LockInv, LockDiscipline, Labels, Holding

\* The rest of what a process does in the kernel.
LEMMA KernelStep ==
  ASSUME LockInv, NEW p \in Procs,
         \/ Acquire(p) \/ Opened(p) \/ Removed(p) \/ PinFrame(p) \/ Unmap(p)
         \/ ExitClose(p) \/ ExitFree(p) \/ ExitMaps(p)
  PROVE  LockInv'
<1>1. CASE Acquire(p)
  <2>1. CASE filesys_lock = p
    BY <1>1, <2>1, Elsewhere DEF Acquire, kept
  <2>2. CASE filesys_lock # p
    <3>1. /\ filesys_lock = None /\ filesys_lock' = p
          /\ pc' = [pc EXCEPT ![p] = "in"] /\ astray' = astray
      BY <1>1, <2>2 DEF Acquire, Goto, kept
    <3> QED
      BY <3>1, NoneAssumption DEF LockInv, LockDiscipline, Labels, Holding
  <2> QED
    BY <2>1, <2>2
<1>2. CASE PinFrame(p)
  <2>1. pc[p] \in Holding /\ filesys_lock' = filesys_lock /\ astray' = astray
    BY <1>2 DEF PinFrame, kept, Holding
  <2>2. pc' = pc \/ Goto(p, "unmap")
    BY <1>2 DEF PinFrame
  <2> QED
    BY <2>1, <2>2, SameSide, Elsewhere DEF Labels, Holding
<1>3. CASE Unmap(p)
  BY <1>3, ReturnStep DEF Unmap, kept, Holding
<1>4. CASE ExitMaps(p)
  <2>1. CASE maps[p] # << >>
    BY <1>4, <2>1, SameSide DEF ExitMaps, Labels, Holding
  <2>2. CASE maps[p] = << >>
    <3>1. /\ pc[p] = "exit" /\ pc' = [pc EXCEPT ![p] = "none"]
          /\ filesys_lock' = IF filesys_lock = p THEN None ELSE filesys_lock
          /\ astray' = astray \ {p}
      BY <1>4, <2>2 DEF ExitMaps, Goto
    <3> QED
      BY <3>1, NoneAssumption DEF LockInv, LockDiscipline, Labels, Holding
  <2> QED
    BY <2>1, <2>2
<1>5. CASE Opened(p) \/ Removed(p)
  BY <1>5, ReturnStep DEF Opened, Removed, kept, Holding
<1>6. CASE ExitClose(p)
  <2>1. /\ pc[p] = "exit" /\ UNCHANGED << filesys_lock, astray >>
        /\ pc' = pc \/ Goto(p, "freeing")
    BY <1>6 DEF ExitClose, kept
  <2> QED
    BY <2>1, SameSide, Elsewhere DEF Labels, Holding
<1>7. CASE ExitFree(p)
  BY <1>7, SameSide DEF ExitFree, kept, Labels, Holding
<1> QED
  BY <1>1, <1>2, <1>3, <1>4, <1>5, <1>6, <1>7

\* Keys that came end sys_read; an address that is not the program's ends the
\* process, which gives the lock back too.
LEMMA KeysStep ==
  ASSUME LockInv, NEW p \in Procs, input_getc(p)
  PROVE  LockInv'
<1>1. pc[p] \in Holding /\ astray' = astray
  BY DEF input_getc, kept, Holding
<1>2. CASE Return(p)
  BY <1>1, <1>2, ReturnStep
<1>3. CASE ~Return(p)
  <2>1. pc' = [pc EXCEPT ![p] = "exit"] /\ filesys_lock' = None
    BY <1>3 DEF input_getc, Goto
  <2>2. \A q \in Procs : pc'[q] \notin Holding
    BY <1>1, <2>1 DEF LockInv, LockDiscipline, Holding
  <2> QED
    BY <1>1, <2>1, <2>2, NoneAssumption DEF LockInv, LockDiscipline, Labels, Holding
<1> QED
  BY <1>2, <1>3

\* Every step keeps the invariant.
LEMMA NextLock == LockInv /\ [Next]_vars => LockInv'
<1> SUFFICES ASSUME LockInv, [Next]_vars PROVE LockInv'
  OBVIOUS
<1>1. CASE UNCHANGED vars
  BY <1>1, Elsewhere DEF vars, kept
<1>2. ASSUME NEW p \in Procs, Trap(p) PROVE LockInv'
  BY <1>2, SameSide DEF Trap, kept, Labels, Holding
<1>3. ASSUME NEW p \in Procs, Step(p) PROVE LockInv'
  BY <1>3, CallStep, LoadedStep, KernelStep DEF Step
<1>4. ASSUME NEW p \in Procs, NEW u \in Pages,
             Load(p, u) \/ Evict(p, u) \/ \E v \in Value : Store(p, u, v)
      PROVE  LockInv'
  BY <1>4, Elsewhere DEF Load, Evict, Store, kept
<1>5. ASSUME NEW p \in Procs, Exit(p) PROVE LockInv'
  BY <1>5, SameSide DEF Exit, kept, Labels, Holding
<1>6. ASSUME NEW p \in Procs, Clash(p) PROVE LockInv'
  BY <1>6, Elsewhere DEF Clash, kept
<1> QED
  BY <1>1, <1>2, <1>3, <1>4, <1>5, <1>6, KeysStep DEF Next

\* Who is in the middle of a call holds filesys_lock, and no process that has
\* returned holds it but through the early return of sys_seek.
THEOREM LockIsDisciplined == Spec => []LockDiscipline
<1>1. Spec => []LockInv
  BY InitLock, NextLock, PTL DEF Spec
<1>2. LockInv => LockDiscipline
  BY DEF LockInv
<1> QED
  BY <1>1, <1>2, PTL
-------------------------------------------------------------------------------
(* The lists of a process and what they refer to.                          *)

Entries == [id : Nat, file : Files]
Mappings == [id : Nat, file : Files, page : Pages]
PageEntries == [status : {"none", "file", "frame", "swap"}, dirty : BOOLEAN,
                pte_dirty : BOOLEAN, pinned : BOOLEAN, value : Value \union {None}]
FileStates == [named : BOOLEAN, opens : Int, value : Value \union {None}, length : Nat]

\* The identifiers go up along the list.
Rising(list) ==
  /\ \A i \in DOMAIN list : list[i].id \in Nat
  /\ \A i, j \in DOMAIN list : i < j => list[i].id < list[j].id

\* No two mappings of the list have a page in common.
Disjoint(list) == \A i, j \in DOMAIN list : list[i].page = list[j].page => i = j

\* The lists keep their order; a page has an entry just when it is mapped; whoever
\* takes a mapping away finds it.
TablesInv ==
  /\ fds \in [Procs -> Seq(Entries)] /\ maps \in [Procs -> Seq(Mappings)]
  /\ unmapping \in [Procs -> Nat]
  /\ file \in [Files -> FileStates]
  /\ page \in [Procs -> [Pages -> PageEntries]]
  /\ \A p \in Procs : Rising(fds[p]) /\ Rising(maps[p]) /\ Disjoint(maps[p])
  /\ \A p \in Procs, u \in Pages :
       page[p][u].status # "none" <=> \E i \in DOMAIN maps[p] : maps[p][i].page = u
  /\ \A p \in Procs : pc[p] \in {"pin", "unmap"} => Find(maps[p], unmapping[p]) # {}

\* The list r is the list without its entry k.
Lacks(list, k, r) ==
  /\ Rising(r)
  /\ \A j \in DOMAIN r : \E i \in DOMAIN list \ {k} : r[j] = list[i]
  /\ \A i \in DOMAIN list \ {k} : \E j \in DOMAIN r : r[j] = list[i]

\* A search finds the one entry of its identifier.
LEMMA PlaceFound ==
  ASSUME NEW R, NEW list \in Seq(R), Rising(list), NEW id, NEW k \in Find(list, id)
  PROVE  Find(list, id) = {k} /\ Place(list, id) = k /\ k \in 1 .. Len(list)
<1>1. \A i \in Find(list, id) : i \in Nat /\ i \in DOMAIN list /\ list[i].id = id
  BY DEF Find
<1>2. ASSUME NEW i \in Find(list, id), i # k PROVE FALSE
  <2>1. i < k \/ k < i
    BY <1>1, <1>2
  <2>2. list[i].id < list[k].id \/ list[k].id < list[i].id
    BY <1>1, <2>1 DEF Rising
  <2> QED
    BY <1>1, <2>2 DEF Rising
<1>3. Find(list, id) = {k}
  BY <1>2
<1>4. Min({k}) = k
  BY <1>1 DEF Min
<1> QED
  BY <1>1, <1>3, <1>4 DEF Place

\* list_remove of the entry that was found.
LEMMA WithoutGives ==
  ASSUME NEW R, NEW list \in Seq(R), Rising(list), NEW id, NEW k \in Find(list, id)
  PROVE  Without(list, id) \in Seq(R) /\ Lacks(list, k, Without(list, id))
<1>1. PICK r : r = RemoveAt(list, k)
  OBVIOUS
<1>2. Without(list, id) = r /\ k \in 1 .. Len(list)
  BY <1>1, PlaceFound DEF Without
<1>3. PICK n \in Nat : n = Len(list)
  OBVIOUS
<1>4. PICK a, b : a = SubSeq(list, 1, k - 1) /\ b = SubSeq(list, k + 1, n)
  OBVIOUS
<1>5. /\ r \in Seq(R) /\ Len(r) = n - 1
      /\ \A j \in 1 .. n - 1 : r[j] = list[IF j < k THEN j ELSE j + 1]
  <2>1. /\ a \in Seq(R) /\ Len(a) = k - 1
        /\ \A j \in 1 .. k - 1 : a[j] = list[j]
    BY <1>2, <1>3, <1>4
  <2>2. /\ b \in Seq(R) /\ Len(b) = n - k
        /\ \A j \in 1 .. n - k : b[j] = list[k + j]
    BY <1>2, <1>3, <1>4
  <2>3. r = a \o b
    BY <1>1, <1>3, <1>4 DEF RemoveAt
  <2>4. /\ r \in Seq(R) /\ Len(r) = Len(a) + Len(b)
        /\ \A j \in 1 .. Len(a) + Len(b) :
             r[j] = IF j <= Len(a) THEN a[j] ELSE b[j - Len(a)]
    BY <2>1, <2>2, <2>3, ConcatProperties
  <2>5. Len(r) = n - 1
    BY <1>2, <1>3, <2>1, <2>2, <2>4
  <2>6. ASSUME NEW j \in 1 .. n - 1 PROVE r[j] = list[IF j < k THEN j ELSE j + 1]
    <3>1. r[j] = IF j <= k - 1 THEN a[j] ELSE b[j - (k - 1)]
      BY <1>2, <1>3, <2>1, <2>2, <2>4
    <3>2. CASE j < k
      BY <1>2, <1>3, <2>1, <3>1, <3>2
    <3>3. CASE j >= k
      <4>1. j - (k - 1) \in 1 .. n - k /\ k + (j - (k - 1)) = j + 1
        BY <1>2, <1>3, <3>3
      <4> QED
        BY <1>2, <1>3, <2>2, <3>1, <3>3, <4>1
    <3> QED
      BY <1>2, <1>3, <3>2, <3>3
  <2> QED
    BY <2>4, <2>5, <2>6
<1>6. Rising(r)
  <2>1. DOMAIN r = 1 .. n - 1 /\ DOMAIN list = 1 .. n
    BY <1>3, <1>5
  <2>2. ASSUME NEW j \in 1 .. n - 1
        PROVE  \E i \in 1 .. n : /\ r[j] = list[i] /\ i = (IF j < k THEN j ELSE j + 1)
    BY <1>2, <1>3, <1>5
  <2>3. \A j \in 1 .. n - 1 : r[j].id \in Nat
    BY <2>1, <2>2 DEF Rising
  <2>4. ASSUME NEW i \in 1 .. n - 1, NEW j \in 1 .. n - 1, i < j
        PROVE  r[i].id < r[j].id
    <3>1. PICK v \in 1 .. n : r[i] = list[v] /\ v = (IF i < k THEN i ELSE i + 1)
      BY <2>2
    <3>2. PICK w \in 1 .. n : r[j] = list[w] /\ w = (IF j < k THEN j ELSE j + 1)
      BY <2>2
    <3>3. v < w
      BY <1>2, <1>3, <2>4, <3>1, <3>2
    <3> QED
      BY <2>1, <3>1, <3>2, <3>3 DEF Rising
  <2> QED
    BY <2>1, <2>3, <2>4 DEF Rising
<1>7. ASSUME NEW j \in DOMAIN r PROVE \E i \in DOMAIN list \ {k} : r[j] = list[i]
  <2>1. j \in 1 .. n - 1
    BY <1>5
  <2>2. (IF j < k THEN j ELSE j + 1) \in DOMAIN list \ {k}
    BY <1>2, <1>3, <2>1
  <2> QED
    BY <1>5, <2>1, <2>2
<1>8. ASSUME NEW i \in DOMAIN list \ {k} PROVE \E j \in DOMAIN r : r[j] = list[i]
  <2>1. i \in 1 .. n /\ i # k /\ k \in 1 .. n /\ DOMAIN r = 1 .. n - 1
    BY <1>2, <1>3, <1>5
  <2>2. CASE i < k
    BY <1>5, <2>1, <2>2
  <2>3. CASE i > k
    <3>1. i - 1 \in 1 .. n - 1 /\ ~(i - 1 < k) /\ (i - 1) + 1 = i
      BY <2>1, <2>3
    <3> QED
      BY <1>5, <2>1, <3>1
  <2> QED
    BY <2>1, <2>2, <2>3
<1> QED
  BY <1>2, <1>5, <1>6, <1>7, <1>8 DEF Lacks

\* list_pop_front.
LEMMA TailLacks ==
  ASSUME NEW R, NEW list \in Seq(R), Rising(list), list # << >>
  PROVE  1 \in DOMAIN list /\ Tail(list) \in Seq(R) /\ Lacks(list, 1, Tail(list))
<1>1. PICK r : r = Tail(list)
  OBVIOUS
<1>2. PICK n \in Nat : n = Len(list) /\ n >= 1 /\ DOMAIN list = 1 .. n
  OBVIOUS
<1>3. /\ r \in Seq(R) /\ Len(r) = n - 1 /\ DOMAIN r = 1 .. n - 1
      /\ \A j \in 1 .. n - 1 : r[j] = list[j + 1]
  BY <1>1, <1>2
<1>4. Rising(r)
  <2>1. \A j \in 1 .. n - 1 : j + 1 \in DOMAIN list /\ r[j] = list[j + 1]
    BY <1>2, <1>3
  <2>2. \A j \in 1 .. n - 1 : r[j].id \in Nat
    BY <2>1 DEF Rising
  <2>3. ASSUME NEW i \in 1 .. n - 1, NEW j \in 1 .. n - 1, i < j PROVE r[i].id < r[j].id
    <3>1. PICK v \in DOMAIN list : v = i + 1 /\ r[i] = list[v]
      BY <2>1
    <3>2. PICK w \in DOMAIN list : w = j + 1 /\ r[j] = list[w]
      BY <2>1
    <3>3. v < w
      BY <2>3, <3>1, <3>2
    <3> QED
      BY <3>1, <3>2, <3>3 DEF Rising
  <2> QED
    BY <1>3, <2>2, <2>3 DEF Rising
<1>5. \A j \in DOMAIN r : \E i \in DOMAIN list \ {1} : r[j] = list[i]
  <2>1. \A j \in 1 .. n - 1 : j + 1 \in DOMAIN list \ {1}
    BY <1>2
  <2> QED
    BY <1>3, <2>1
<1>6. ASSUME NEW i \in DOMAIN list \ {1} PROVE \E j \in DOMAIN r : r[j] = list[i]
  <2>1. i - 1 \in 1 .. n - 1 /\ (i - 1) + 1 = i
    BY <1>2
  <2> QED
    BY <1>3, <2>1
<1> QED
  BY <1>1, <1>2, <1>3, <1>4, <1>5, <1>6 DEF Lacks

\* There is always a next identifier.
LEMMA NextIdNat ==
  ASSUME NEW R, NEW list \in Seq(R), Rising(list), NEW first \in Nat
  PROVE  NextId(list, first) \in Nat
<1>1. CASE list = << >>
  BY <1>1 DEF NextId
<1>2. CASE list # << >>
  <2>1. Len(list) \in DOMAIN list /\ NextId(list, first) = list[Len(list)].id + 1
    BY <1>2 DEF NextId
  <2> QED
    BY <2>1 DEF Rising
<1> QED
  BY <1>1, <1>2

\* The next identifier is above those of the list.
LEMMA NextIdAbove ==
  ASSUME NEW R, NEW list \in Seq(R), Rising(list), NEW first \in Nat,
         NEW d \in R, d.id = NextId(list, first)
  PROVE  d.id \in Nat /\ \A i \in DOMAIN list : list[i].id < d.id
<1>1. PICK n \in Nat : n = Len(list) /\ DOMAIN list = 1 .. n
  OBVIOUS
<1>2. CASE n = 0
  BY <1>1, <1>2 DEF NextId
<1>3. CASE n # 0
  <2>1. d.id = list[n].id + 1 /\ n \in DOMAIN list
    BY <1>1, <1>3 DEF NextId
  <2> QED
    BY <1>1, <2>1 DEF Rising
<1> QED
  BY <1>2, <1>3

\* list_push_back of an entry with the next identifier.
LEMMA NextIdRises ==
  ASSUME NEW R, NEW list \in Seq(R), Rising(list), NEW first \in Nat,
         NEW d \in R, d.id = NextId(list, first)
  PROVE  /\ Append(list, d) \in Seq(R) /\ Rising(Append(list, d))
         /\ Len(Append(list, d)) = Len(list) + 1 /\ Append(list, d)[Len(list) + 1] = d
         /\ \A i \in DOMAIN list : Append(list, d)[i] = list[i]
<1>1. PICK n \in Nat : n = Len(list) /\ DOMAIN list = 1 .. n
  OBVIOUS
<1>2. d.id \in Nat /\ \A i \in 1 .. n : list[i].id < d.id
  BY <1>1, NextIdAbove
<1>3. PICK r : r = Append(list, d)
  OBVIOUS
<1>4. /\ r \in Seq(R) /\ Len(r) = n + 1 /\ r[n + 1] = d /\ DOMAIN r = 1 .. n + 1
      /\ \A i \in 1 .. n : r[i] = list[i]
  BY <1>1, <1>3
<1>5. Rising(r)
  BY <1>1, <1>2, <1>4 DEF Rising
<1> QED
  BY <1>1, <1>2, <1>3, <1>4, <1>5

\* inode_close leaves a file's state a state.
LEMMA ClosedTyped ==
  ASSUME NEW e \in FileStates, NEW n \in Int
  PROVE  /\ Closed(e, n) \in FileStates
         /\ Closed(e, n) # Gone => Closed(e, n).value = e.value
         /\ e.opens >= n => Closed(e, n).opens = e.opens - n
<1>1. CASE e.named \/ e.opens > n
  <2>1. Closed(e, n) = [e EXCEPT !.opens = e.opens - n]
    BY <1>1 DEF Closed
  <2> QED
    BY <2>1 DEF FileStates
<1>2. CASE ~(e.named \/ e.opens > n)
  <2>1. Closed(e, n) = Gone
    BY <1>2 DEF Closed
  <2> QED
    BY <1>2, <2>1 DEF FileStates, Gone
<1> QED
  BY <1>1, <1>2

\* In the table r, f has n openers; in the rest it is the table t.
OpensAre(r, t, f, n) ==
  /\ r \in [Files -> FileStates] /\ r[f].opens = n
  /\ \A g \in Files : g # f => r[g] = t[g]

LEMMA OpensTyped ==
  ASSUME NEW t \in [Files -> FileStates], NEW f \in Files, NEW n \in Int,
         NEW r, r = [t EXCEPT ![f].opens = n]
  PROVE  OpensAre(r, t, f, n)
<1>1. PICK e \in FileStates : e = t[f]
  OBVIOUS
<1>2. PICK d : d = [e EXCEPT !.opens = n]
  OBVIOUS
<1>3. d \in FileStates /\ d.opens = n
  BY <1>2 DEF FileStates
<1>4. r = [t EXCEPT ![f] = d]
  BY <1>1, <1>2
<1> QED
  BY <1>3, <1>4 DEF OpensAre

LEMMA OpensInt == ASSUME TablesInv, NEW f \in Files PROVE file[f].opens \in Int
<1>1. file[f] \in FileStates
  BY DEF TablesInv
<1> QED
  BY <1>1 DEF FileStates

LEMMA OpensChange ==
  ASSUME TablesInv, NEW f \in Files, NEW n \in Int, file' = [file EXCEPT ![f].opens = n]
  PROVE  OpensAre(file', file, f, n)
<1>1. file \in [Files -> FileStates]
  BY DEF TablesInv
<1> QED
  BY <1>1, OpensTyped

\* find_file_desc, through the file it leads to.
LEMMA FileFound ==
  ASSUME TablesInv, NEW p \in Procs, NEW id, FileOf(p, id) # None
  PROVE  \E k \in Find(fds[p], id) :
           /\ k \in DOMAIN fds[p] /\ Place(fds[p], id) = k
           /\ FileOf(p, id) = fds[p][k].file /\ FileOf(p, id) \in Files
<1>1. Find(fds[p], id) # {} /\ FileOf(p, id) = fds[p][Place(fds[p], id)].file
  BY DEF FileOf
<1>2. PICK k \in Find(fds[p], id) : TRUE
  BY <1>1
<1>3. fds[p] \in Seq(Entries) /\ Rising(fds[p])
  BY DEF TablesInv
<1>4. Place(fds[p], id) = k /\ k \in 1 .. Len(fds[p])
  BY <1>3, PlaceFound
<1>5. fds[p][k] \in Entries
  BY <1>3, <1>4
<1>6. fds[p][k].file \in Files
  BY <1>5 DEF Entries
<1> QED
  BY <1>1, <1>3, <1>4, <1>6

\* The mapping that is being taken away.
LEMMA MapFound ==
  ASSUME TablesInv, NEW p \in Procs, pc[p] \in {"pin", "unmap"}
  PROVE  \E k \in Find(maps[p], unmapping[p]) :
           /\ k \in DOMAIN maps[p] /\ MapOf(p) = maps[p][k]
           /\ MapOf(p) \in Mappings /\ MapOf(p).id = unmapping[p]
<1>1. maps[p] \in Seq(Mappings) /\ Rising(maps[p])
  BY DEF TablesInv
<1>2. PICK k \in Find(maps[p], unmapping[p]) : TRUE
  BY DEF TablesInv
<1>3. Place(maps[p], unmapping[p]) = k /\ k \in 1 .. Len(maps[p])
  BY <1>1, PlaceFound
<1>4. MapOf(p) = maps[p][k] /\ maps[p][k] \in Mappings /\ maps[p][k].id = unmapping[p]
  BY <1>1, <1>3 DEF MapOf, Find
<1> QED
  BY <1>1, <1>3, <1>4

\* A step leaves the lists and pages of all but p alone.
OthersKeep(p) ==
  \A q \in Procs \ {p} :
    /\ fds'[q] = fds[q] /\ maps'[q] = maps[q] /\ page'[q] = page[q]
    /\ unmapping'[q] = unmapping[q]
    /\ pc'[q] = pc[q] \/ pc'[q] \notin {"pin", "unmap"}

\* After the step the lists and pages of p are in order.
OwnOrder(p) ==
  /\ Rising(fds'[p]) /\ Rising(maps'[p]) /\ Disjoint(maps'[p])
  /\ \A u \in Pages :
       page'[p][u].status # "none" <=> \E i \in DOMAIN maps'[p] : maps'[p][i].page = u
  /\ pc'[p] \in {"pin", "unmap"} => Find(maps'[p], unmapping'[p]) # {}

\* A step of p on what is its own.
LEMMA OwnTables ==
  ASSUME TablesInv, NEW p \in Procs,
         fds' \in [Procs -> Seq(Entries)], maps' \in [Procs -> Seq(Mappings)],
         unmapping' \in [Procs -> Nat], file' \in [Files -> FileStates],
         page' \in [Procs -> [Pages -> PageEntries]],
         OthersKeep(p), OwnOrder(p)
  PROVE  TablesInv'
<1>1. \A q \in Procs : Rising(fds'[q]) /\ Rising(maps'[q]) /\ Disjoint(maps'[q])
  BY DEF TablesInv, OthersKeep, OwnOrder
<1>2. ASSUME NEW q \in Procs, NEW u \in Pages
      PROVE  page'[q][u].status # "none" <=> \E i \in DOMAIN maps'[q] : maps'[q][i].page = u
  <2>1. CASE q = p
    BY <2>1 DEF OwnOrder
  <2>2. CASE q # p
    <3>1. maps'[q] = maps[q] /\ page'[q] = page[q]
      BY <2>2 DEF OthersKeep
    <3>2. page[q][u].status # "none" <=> \E i \in DOMAIN maps[q] : maps[q][i].page = u
      BY DEF TablesInv
    <3> QED
      BY <3>1, <3>2
  <2> QED
    BY <2>1, <2>2
<1>3. ASSUME NEW q \in Procs, pc'[q] \in {"pin", "unmap"}
      PROVE  Find(maps'[q], unmapping'[q]) # {}
  <2>1. CASE q = p
    BY <1>3, <2>1 DEF OwnOrder
  <2>2. CASE q # p
    <3>1. pc[q] \in {"pin", "unmap"} /\ maps'[q] = maps[q] /\ unmapping'[q] = unmapping[q]
      BY <1>3, <2>2 DEF OthersKeep
    <3>2. Find(maps[q], unmapping[q]) # {}
      BY <3>1 DEF TablesInv
    <3> QED
      BY <3>1, <3>2
  <2> QED
    BY <2>1, <2>2
<1>4. (\A q \in Procs : Rising(fds[q]) /\ Rising(maps[q]) /\ Disjoint(maps[q]))'
  BY <1>1 DEF Rising, Disjoint
<1>5. (\A q \in Procs : pc[q] \in {"pin", "unmap"} => Find(maps[q], unmapping[q]) # {})'
  BY <1>3 DEF Find
<1> QED
  BY <1>2, <1>4, <1>5 DEF TablesInv

\* A step that leaves the lists and the pages alone and finishes a call or goes
\* on to a place where no mapping is being taken away.
LEMMA TablesStay ==
  ASSUME TablesInv, fds' = fds, maps' = maps, page' = page, unmapping' \in [Procs -> Nat],
         file' \in [Files -> FileStates],
         \A q \in Procs : \/ pc'[q] \notin {"pin", "unmap"}
                          \/ pc'[q] = pc[q] /\ unmapping'[q] = unmapping[q]
  PROVE  TablesInv'
<1>1. (\A q \in Procs : pc[q] \in {"pin", "unmap"} => Find(maps[q], unmapping[q]) # {})'
  BY DEF TablesInv
<1> QED
  BY <1>1 DEF TablesInv

\* A step that ends in Return and changes no list and no page.
LEMMA ReturnTables ==
  ASSUME LockInv, TablesInv, NEW p \in Procs, Return(p),
         fds' = fds, maps' = maps, page' = page, file' \in [Files -> FileStates]
  PROVE  TablesInv'
<1>1. /\ unmapping' = [unmapping EXCEPT ![p] = 0]
      /\ pc' = [pc EXCEPT ![p] = IF p \in leaving THEN "exit" ELSE "user"]
  BY DEF Return, Goto
<1>2. unmapping' \in [Procs -> Nat]
  BY <1>1 DEF TablesInv
<1>3. \A q \in Procs : \/ pc'[q] \notin {"pin", "unmap"}
                       \/ pc'[q] = pc[q] /\ unmapping'[q] = unmapping[q]
  BY <1>1 DEF LockInv, TablesInv
<1> QED
  BY <1>2, <1>3, TablesStay

\* A step of p that changes its list of descriptors.
LEMMA FdsTables ==
  ASSUME TablesInv, NEW p \in Procs, NEW r \in Seq(Entries), Rising(r),
         fds' = [fds EXCEPT ![p] = r], maps' = maps, page' = page,
         unmapping' \in [Procs -> Nat], file' \in [Files -> FileStates],
         pc'[p] \notin {"pin", "unmap"},
         \A q \in Procs \ {p} : unmapping'[q] = unmapping[q] /\ pc'[q] = pc[q]
  PROVE  TablesInv'
<1>1. fds' \in [Procs -> Seq(Entries)] /\ fds'[p] = r
      /\ \A q \in Procs \ {p} : fds'[q] = fds[q]
  BY DEF TablesInv
<1>2. Rising(fds'[p])
  BY <1>1
<1>3. /\ maps' \in [Procs -> Seq(Mappings)] /\ page' \in [Procs -> [Pages -> PageEntries]]
      /\ Rising(maps'[p]) /\ Disjoint(maps'[p])
      /\ \A u \in Pages : page'[p][u].status # "none" <=>
           \E i \in DOMAIN maps'[p] : maps'[p][i].page = u
  BY DEF TablesInv
<1>4. OthersKeep(p) /\ OwnOrder(p)
  BY <1>1, <1>2, <1>3 DEF OthersKeep, OwnOrder
<1> QED
  BY <1>1, <1>3, <1>4, OwnTables

\* The same at the end of a call.
LEMMA FdsReturn ==
  ASSUME LockInv, TablesInv, NEW p \in Procs, NEW r \in Seq(Entries), Rising(r),
         Return(p), fds' = [fds EXCEPT ![p] = r], maps' = maps, page' = page,
         file' \in [Files -> FileStates]
  PROVE  TablesInv'
<1>1. /\ unmapping' = [unmapping EXCEPT ![p] = 0]
      /\ pc' = [pc EXCEPT ![p] = IF p \in leaving THEN "exit" ELSE "user"]
  BY DEF Return, Goto
<1>2. /\ unmapping' \in [Procs -> Nat] /\ pc'[p] \notin {"pin", "unmap"}
      /\ \A q \in Procs \ {p} : unmapping'[q] = unmapping[q] /\ pc'[q] = pc[q]
  BY <1>1 DEF TablesInv, LockInv
<1> QED
  BY <1>2, FdsTables

\* A descriptor that is new is put at the back of the list.
LEMMA DescGiven ==
  ASSUME TablesInv, NEW p \in Procs, NEW f \in Files, fds' = WithDesc(p, f)
  PROVE  \E d \in Entries, r \in Seq(Entries) :
           /\ d.file = f /\ Find(fds[p], d.id) = {}
           /\ Rising(r) /\ Len(r) = Len(fds[p]) + 1 /\ r[Len(fds[p]) + 1] = d
           /\ \A i \in DOMAIN fds[p] : r[i] = fds[p][i]
           /\ fds' = [fds EXCEPT ![p] = r]
<1>1. PICK d : d = [id |-> NextId(fds[p], 3), file |-> f]
  OBVIOUS
<1>2. PICK r : r = Append(fds[p], d)
  OBVIOUS
<1>3. fds' = [fds EXCEPT ![p] = r]
  BY <1>1, <1>2 DEF WithDesc
<1>4. fds[p] \in Seq(Entries) /\ Rising(fds[p])
  BY DEF TablesInv
<1>5. NextId(fds[p], 3) \in Nat
  BY <1>4, NextIdNat
<1>6. d \in Entries /\ d.id = NextId(fds[p], 3) /\ d.file = f
  BY <1>1, <1>5 DEF Entries
<1>7. Find(fds[p], d.id) = {}
  <2>1. \A i \in DOMAIN fds[p] : fds[p][i].id \in Nat /\ fds[p][i].id < d.id
    BY <1>4, <1>6, NextIdAbove DEF Rising
  <2> QED
    BY <2>1 DEF Find
<1>8. /\ r \in Seq(Entries) /\ Rising(r) /\ Len(r) = Len(fds[p]) + 1
      /\ r[Len(fds[p]) + 1] = d /\ \A i \in DOMAIN fds[p] : r[i] = fds[p][i]
  BY <1>2, <1>4, <1>6, NextIdRises
<1> QED
  BY <1>3, <1>6, <1>7, <1>8

\* Who has found an inode, or frees one, has it in hand.
HandInv ==
  /\ hand \in [Procs -> Files \union {None}]
  /\ \A p \in Procs : pc[p] \in {"removing", "opening", "freeing"} => hand[p] \in Files

\* sys_open that finds the inode waits with the descriptor; the rest of it, and
\* a sys_open that reads the inode in, count the opener and give the descriptor.
LEMMA OpenIs ==
  ASSUME TablesInv, NEW p \in Procs, NEW f \in Files, sys_open(p, f)
  PROVE  \/ UNCHANGED << file, fds >>
         \/ /\ fds' = WithDesc(p, f) /\ Return(p) /\ ~InMemory(f)
            /\ file' = [file EXCEPT ![f].opens = 1]
  BY DEF sys_open

LEMMA FoundTables ==
  ASSUME LockInv, TablesInv, NEW p \in Procs, NEW f, NEW l \in {"removing", "opening"},
         Found(p, f, l), UNCHANGED << fds, maps, page, file >>
  PROVE  TablesInv'
<1>1. pc' = [pc EXCEPT ![p] = l] /\ unmapping' = unmapping
  BY DEF Found, Goto
<1>2. \A q \in Procs : pc'[q] \notin {"pin", "unmap"} \/ pc'[q] = pc[q]
  BY <1>1 DEF LockInv
<1> QED
  BY <1>1, <1>2, TablesStay DEF TablesInv

LEMMA OpenTables ==
  ASSUME LockInv, TablesInv, NEW p \in Procs, NEW f \in Files, sys_open(p, f)
  PROVE  TablesInv'
<1>1. maps' = maps /\ page' = page
  BY DEF sys_open
<1>2. CASE UNCHANGED << file, fds >>
  <2>1. CASE Found(p, f, "opening")
    BY <1>1, <1>2, <2>1, FoundTables
  <2>2. CASE ~Found(p, f, "opening")
    <3>1. Return(p)
      BY <2>2 DEF sys_open
    <3> QED
      BY <1>1, <1>2, <3>1, ReturnTables DEF TablesInv
  <2> QED
    BY <2>1, <2>2
<1>3. CASE ~UNCHANGED << file, fds >>
  <2>1. /\ fds' = WithDesc(p, f) /\ Return(p)
        /\ file' = [file EXCEPT ![f].opens = 1]
    BY <1>3, OpenIs
  <2>2. PICK r \in Seq(Entries) : Rising(r) /\ fds' = [fds EXCEPT ![p] = r]
    BY <2>1, DescGiven
  <2>3. file' \in [Files -> FileStates]
    <3>1. file \in [Files -> FileStates] /\ 1 \in Int
      BY DEF TablesInv
    <3>2. OpensAre(file', file, f, 1)
      BY <2>1, <3>1, OpensTyped
    <3> QED
      BY <3>2 DEF OpensAre
  <2> QED
    BY <1>1, <2>1, <2>2, <2>3, FdsReturn
<1> QED
  BY <1>2, <1>3

\* The rest of sys_open.
LEMMA OpenedTables ==
  ASSUME LockInv, TablesInv, HandInv, NEW p \in Procs, Opened(p)
  PROVE  TablesInv'
<1>1. PICK f \in Files : f = hand[p]
  BY DEF HandInv, Opened
<1>2. Return(p) /\ maps' = maps /\ page' = page /\ fds' = WithDesc(p, f)
  BY <1>1 DEF Opened
<1>3. PICK r \in Seq(Entries) : Rising(r) /\ fds' = [fds EXCEPT ![p] = r]
  BY <1>2, DescGiven
<1>4. file' \in [Files -> FileStates]
  <2>1. CASE file' = file
    BY <2>1 DEF TablesInv
  <2>2. CASE file' # file
    <3>1. PICK n \in Int : n = file[f].opens + 1
      BY OpensInt
    <3>2. file' = [file EXCEPT ![f].opens = n]
      BY <1>1, <2>2, <3>1 DEF Opened
    <3>3. OpensAre(file', file, f, n)
      BY <3>2, OpensChange
    <3> QED
      BY <3>3 DEF OpensAre
  <2> QED
    BY <2>1, <2>2
<1> QED
  BY <1>2, <1>3, <1>4, FdsReturn

\* The rest of dir_remove.
LEMMA RemovedTables ==
  ASSUME LockInv, TablesInv, HandInv, NEW p \in Procs, Removed(p)
  PROVE  TablesInv' /\ \A f \in Files : file'[f].opens = file[f].opens
<1>1. PICK f \in Files : f = hand[p]
  BY DEF HandInv, Removed
<1>2. Return(p) /\ UNCHANGED << fds, maps, page >>
  BY DEF Removed
<1>3. PICK e \in FileStates : e = file[f]
  BY DEF TablesInv
<1>4. PICK b \in BOOLEAN : b = FALSE
  OBVIOUS
<1>5. [e EXCEPT !.named = b] \in FileStates /\ [e EXCEPT !.named = b].opens = e.opens
  BY DEF FileStates
<1>6. file' = file \/ file' = [file EXCEPT ![f] = [e EXCEPT !.named = b]]
  BY <1>1, <1>3, <1>4 DEF Removed
<1>7. /\ file' \in [Files -> FileStates]
      /\ \A g \in Files : file'[g].opens = file[g].opens
  BY <1>3, <1>5, <1>6 DEF TablesInv
<1> QED
  BY <1>2, <1>7, ReturnTables

LEMMA CloseTables ==
  ASSUME LockInv, TablesInv, NEW p \in Procs, NEW id, sys_close(p, id)
  PROVE  TablesInv'
<1>1. Return(p) /\ maps' = maps /\ page' = page /\ fds' = [fds EXCEPT ![p] = Without(fds[p], id)]
  BY DEF sys_close
<1>2. fds[p] \in Seq(Entries) /\ Rising(fds[p])
  BY DEF TablesInv
<1>3. Without(fds[p], id) \in Seq(Entries) /\ Rising(Without(fds[p], id))
  <2>1. CASE Find(fds[p], id) = {}
    BY <1>2, <2>1 DEF Without
  <2>2. CASE Find(fds[p], id) # {}
    BY <1>2, <2>2, WithoutGives DEF Lacks
  <2> QED
    BY <2>1, <2>2
<1>4. file' \in [Files -> FileStates]
  <2>1. PICK f : f = FileOf(p, id)
    OBVIOUS
  <2>2. CASE f = None
    BY <2>1, <2>2 DEF sys_close, TablesInv
  <2>3. CASE f # None
    <3>1. f \in Files /\ file' = [file EXCEPT ![f] = Closed(file[f], 1)]
      BY <2>1, <2>3, FileFound DEF sys_close, Close
    <3> QED
      BY <3>1, ClosedTyped DEF TablesInv
  <2> QED
    BY <2>2, <2>3
<1> QED
  BY <1>1, <1>3, <1>4, FdsReturn

\* The exit of p takes the front of its list.
LEMMA ExitCloseIs ==
  ASSUME TablesInv, NEW p \in Procs, ExitClose(p)
  PROVE  /\ 1 \in DOMAIN fds[p] /\ fds[p][1].file \in Files
         /\ \E r \in Seq(Entries) :
              Rising(r) /\ Lacks(fds[p], 1, r) /\ fds' = [fds EXCEPT ![p] = r]
         /\ file' \in [Files -> FileStates]
         /\ file'[fds[p][1].file].opens = file[fds[p][1].file].opens - 1
         /\ \A g \in Files : g # fds[p][1].file => file'[g] = file[g]
<1>1. fds[p] \in Seq(Entries) /\ Rising(fds[p]) /\ fds[p] # << >>
  BY DEF TablesInv, ExitClose
<1>2. /\ 1 \in DOMAIN fds[p] /\ Tail(fds[p]) \in Seq(Entries)
      /\ Lacks(fds[p], 1, Tail(fds[p])) /\ Rising(Tail(fds[p]))
  BY <1>1, TailLacks DEF Lacks
<1>3. fds[p][1] \in Entries
  BY <1>1, <1>2
<1>4. PICK f \in Files : f = fds[p][1].file
  BY <1>3 DEF Entries
<1>5. PICK n \in Int : n = file[f].opens
  BY OpensInt
<1>6. PICK m \in Int : m = n - 1
  OBVIOUS
<1>7. file' = [file EXCEPT ![f].opens = m]
  BY <1>4, <1>5, <1>6 DEF ExitClose
<1>8. OpensAre(file', file, f, m)
  BY <1>7, OpensChange
<1>9. fds' = [fds EXCEPT ![p] = Tail(fds[p])]
  BY DEF ExitClose
<1> QED
  BY <1>2, <1>4, <1>5, <1>6, <1>8, <1>9 DEF OpensAre

LEMMA ExitCloseTables ==
  ASSUME LockInv, TablesInv, NEW p \in Procs, ExitClose(p)
  PROVE  TablesInv'
<1>1. PICK r \in Seq(Entries) : Rising(r) /\ fds' = [fds EXCEPT ![p] = r]
  BY ExitCloseIs
<1>2. file' \in [Files -> FileStates]
  BY ExitCloseIs
<1>3. /\ UNCHANGED << unmapping, maps, page >> /\ pc[p] = "exit"
      /\ pc' = pc \/ pc' = [pc EXCEPT ![p] = "freeing"]
  BY DEF ExitClose, Goto
<1>4. /\ unmapping' \in [Procs -> Nat] /\ pc'[p] \notin {"pin", "unmap"}
      /\ \A q \in Procs \ {p} : unmapping'[q] = unmapping[q] /\ pc'[q] = pc[q]
  BY <1>3 DEF TablesInv, LockInv
<1> QED
  BY <1>1, <1>2, <1>3, <1>4, FdsTables

\* The last opener is gone, and the inode is freed.
LEMMA ExitFreeTables ==
  ASSUME LockInv, TablesInv, HandInv, NEW p \in Procs, ExitFree(p)
  PROVE  TablesInv' /\ \A f \in Files : file[f].opens >= 0 => file'[f].opens = file[f].opens
<1>1. PICK f \in Files : f = hand[p]
  BY DEF HandInv, ExitFree
<1>2. file[f] \in FileStates
  BY DEF TablesInv
<1>3. file' = [file EXCEPT ![f] = Closed(file[f], 0)]
  BY <1>1 DEF ExitFree
<1>4. /\ Closed(file[f], 0) \in FileStates
      /\ file[f].opens >= 0 => Closed(file[f], 0).opens = file[f].opens - 0
  BY <1>2, ClosedTyped
<1>5. file[f].opens - 0 = file[f].opens
  BY <1>2 DEF FileStates
<1>6. /\ file' \in [Files -> FileStates]
      /\ \A g \in Files : file[g].opens >= 0 => file'[g].opens = file[g].opens
  BY <1>3, <1>4, <1>5 DEF TablesInv
<1>7. UNCHANGED << unmapping, fds, maps, page >> /\ pc' = [pc EXCEPT ![p] = "exit"]
  BY DEF ExitFree, Goto
<1>8. \A q \in Procs : pc'[q] \notin {"pin", "unmap"} \/ pc'[q] = pc[q]
  BY <1>7 DEF LockInv
<1> QED
  BY <1>6, <1>7, <1>8, TablesStay DEF TablesInv

\* A sys_mmap that succeeds appends a mapping of a page that had none.
LEMMA MmapIs ==
  ASSUME TablesInv, NEW p \in Procs, NEW id, NEW u \in Pages, sys_mmap(p, id, u),
         ~(maps' = maps /\ page' = page)
  PROVE  \E d \in Mappings, r \in Seq(Mappings) :
           /\ d.page = u /\ d.file = FileOf(p, id) /\ page[p][u] = NoPage
           /\ Rising(r) /\ Len(r) = Len(maps[p]) + 1 /\ r[Len(maps[p]) + 1] = d
           /\ \A i \in DOMAIN maps[p] : r[i] = maps[p][i]
           /\ maps' = [maps EXCEPT ![p] = r]
           /\ page' = [page EXCEPT ![p][u] = [NoPage EXCEPT !.status = "file"]]
<1>1. PICK f : f = FileOf(p, id)
  OBVIOUS
<1>2. f # None /\ f \in Files /\ page[p][u] = NoPage
  BY <1>1, FileFound DEF sys_mmap
<1>3. PICK d : d = [id |-> NextId(maps[p], 1), file |-> f, page |-> u]
  OBVIOUS
<1>4. /\ maps' = [maps EXCEPT ![p] = Append(maps[p], d)]
      /\ page' = [page EXCEPT ![p][u] = [NoPage EXCEPT !.status = "file"]]
  BY <1>1, <1>3 DEF sys_mmap
<1>5. maps[p] \in Seq(Mappings) /\ Rising(maps[p])
  BY DEF TablesInv
<1>6. NextId(maps[p], 1) \in Nat
  BY <1>5, NextIdNat
<1>7. d \in Mappings /\ d.id = NextId(maps[p], 1) /\ d.page = u /\ d.file = f
  BY <1>2, <1>3, <1>6 DEF Mappings
<1>8. PICK r : r = Append(maps[p], d)
  OBVIOUS
<1>9. /\ r \in Seq(Mappings) /\ Rising(r) /\ Len(r) = Len(maps[p]) + 1
      /\ r[Len(maps[p]) + 1] = d /\ \A i \in DOMAIN maps[p] : r[i] = maps[p][i]
  BY <1>5, <1>7, <1>8, NextIdRises
<1> QED
  BY <1>1, <1>2, <1>4, <1>7, <1>8, <1>9

LEMMA MmapTables ==
  ASSUME LockInv, TablesInv, NEW p \in Procs, NEW id, NEW u \in Pages, sys_mmap(p, id, u)
  PROVE  TablesInv'
<1>1. Return(p) /\ fds' = fds
  BY DEF sys_mmap
<1>2. PICK f : f = FileOf(p, id)
  OBVIOUS
<1>3. file' \in [Files -> FileStates]
  <2>1. CASE f = None
    BY <1>2, <2>1 DEF sys_mmap, TablesInv
  <2>2. CASE f # None
    <3>0. f \in Files
      BY <1>2, <2>2, FileFound
    <3>1. PICK n \in Int : n = file[f].opens + 1
      BY <3>0, OpensInt
    <3>2. file' = [file EXCEPT ![f].opens = n]
      BY <1>2, <2>2, <3>1 DEF sys_mmap, ReopenedFor
    <3>3. OpensAre(file', file, f, n)
      BY <3>0, <3>2, OpensChange
    <3> QED
      BY <3>3 DEF OpensAre
  <2> QED
    BY <2>1, <2>2
<1>4. CASE maps' = maps /\ page' = page
  BY <1>1, <1>3, <1>4, ReturnTables
<1>5. CASE ~(maps' = maps /\ page' = page)
  <2>1. maps[p] \in Seq(Mappings) /\ Rising(maps[p]) /\ Disjoint(maps[p])
    BY DEF TablesInv
  <2>2. PICK d \in Mappings, r \in Seq(Mappings) :
          /\ d.page = u /\ page[p][u] = NoPage
          /\ Rising(r) /\ Len(r) = Len(maps[p]) + 1 /\ r[Len(maps[p]) + 1] = d
          /\ \A i \in DOMAIN maps[p] : r[i] = maps[p][i]
          /\ maps' = [maps EXCEPT ![p] = r]
          /\ page' = [page EXCEPT ![p][u] = [NoPage EXCEPT !.status = "file"]]
    BY <1>5, MmapIs
  <2>3. maps' \in [Procs -> Seq(Mappings)] /\ maps'[p] = r
        /\ \A q \in Procs \ {p} : maps'[q] = maps[q]
    BY <2>2 DEF TablesInv
  <2>4. [NoPage EXCEPT !.status = "file"] \in PageEntries
    BY DEF NoPage, PageEntries
  <2>5. /\ page' \in [Procs -> [Pages -> PageEntries]] /\ page'[p][u].status = "file"
        /\ \A v \in Pages \ {u} : page'[p][v] = page[p][v]
        /\ \A q \in Procs \ {p} : page'[q] = page[q]
    <3>1. [NoPage EXCEPT !.status = "file"].status = "file"
      BY DEF NoPage
    <3> QED
      BY <2>2, <2>4, <3>1 DEF TablesInv
  <2>6. \A i \in DOMAIN maps[p] : maps[p][i].page # u
    <3>1. page[p][u].status = "none"
      BY <2>2 DEF NoPage
    <3> QED
      BY <3>1 DEF TablesInv
  <2>7. Disjoint(r)
    BY <2>2, <2>1, <2>6 DEF Disjoint
  <2>8. ASSUME NEW v \in Pages
         PROVE  page'[p][v].status # "none" <=> \E i \in DOMAIN r : r[i].page = v
    <3>1. CASE v = u
      <4>1. Len(maps[p]) + 1 \in DOMAIN r
        BY <2>2, <2>1
      <4> QED
        BY <2>2, <2>5, <3>1, <4>1
    <3>2. CASE v # u
      <4>1. page'[p][v] = page[p][v]
        BY <2>5, <3>2
      <4>2. page[p][v].status # "none" <=> \E i \in DOMAIN maps[p] : maps[p][i].page = v
        BY DEF TablesInv
      <4>3. (\E i \in DOMAIN r : r[i].page = v) <=> \E i \in DOMAIN maps[p] : maps[p][i].page = v
        BY <2>2, <2>1, <3>2
      <4> QED
        BY <4>1, <4>2, <4>3
    <3> QED
      BY <3>1, <3>2
  <2>9. /\ unmapping' = [unmapping EXCEPT ![p] = 0]
        /\ pc' = [pc EXCEPT ![p] = IF p \in leaving THEN "exit" ELSE "user"]
    BY <1>1 DEF Return, Goto
  <2>10. /\ unmapping' \in [Procs -> Nat] /\ pc'[p] \notin {"pin", "unmap"}
         /\ \A q \in Procs \ {p} : unmapping'[q] = unmapping[q] /\ pc'[q] = pc[q]
    BY <2>9 DEF TablesInv, LockInv
  <2>11. fds' \in [Procs -> Seq(Entries)] /\ Rising(fds'[p])
    BY <1>1 DEF TablesInv
  <2>12. Rising(maps'[p]) /\ Disjoint(maps'[p])
    BY <2>2, <2>3, <2>7
  <2>13. OthersKeep(p)
    <3>1. ASSUME NEW q \in Procs \ {p}
          PROVE  /\ fds'[q] = fds[q] /\ maps'[q] = maps[q] /\ page'[q] = page[q]
                 /\ unmapping'[q] = unmapping[q] /\ pc'[q] = pc[q]
      BY <1>1, <2>3, <2>5, <2>10
    <3> QED
      BY <3>1 DEF OthersKeep
  <2>14. OwnOrder(p)
    BY <2>3, <2>8, <2>10, <2>11, <2>12 DEF OwnOrder
  <2> QED
    BY <1>3, <2>3, <2>5, <2>10, <2>11, <2>13, <2>14, OwnTables
<1> QED
  BY <1>4, <1>5
\* What vm_supt_mm_unmap and sys_munmap do to the list of mappings.
LEMMA UnmapIs ==
  ASSUME TablesInv, NEW p \in Procs, Unmap(p)
  PROVE  \E k \in DOMAIN maps[p] : \E r \in Seq(Mappings) :
           /\ maps[p][k] = MapOf(p) /\ MapOf(p) \in Mappings
           /\ maps' = [maps EXCEPT ![p] = r] /\ maps'[p] = r
           /\ Lacks(maps[p], k, r) /\ Disjoint(r)
<1>1. PICK k \in Find(maps[p], unmapping[p]) :
        /\ k \in DOMAIN maps[p] /\ MapOf(p) = maps[p][k]
        /\ MapOf(p) \in Mappings /\ MapOf(p).id = unmapping[p]
  BY MapFound DEF Unmap
<1>2. PICK r : r = Without(maps[p], unmapping[p])
  OBVIOUS
<1>3. maps[p] \in Seq(Mappings) /\ Rising(maps[p]) /\ Disjoint(maps[p])
  BY DEF TablesInv
<1>4. r \in Seq(Mappings) /\ Lacks(maps[p], k, r)
  BY <1>2, <1>3, WithoutGives
<1>5. maps' = [maps EXCEPT ![p] = r] /\ maps'[p] = r
  BY <1>1, <1>2 DEF Unmap, TablesInv
<1>6. ASSUME NEW i \in DOMAIN r, NEW j \in DOMAIN r, r[i].page = r[j].page PROVE i = j
  <2>a. PICK v \in DOMAIN maps[p] : r[i] = maps[p][v]
    BY <1>4 DEF Lacks
  <2>b. PICK w \in DOMAIN maps[p] : r[j] = maps[p][w]
    BY <1>4 DEF Lacks
  <2>1. r[i] = r[j]
    BY <1>3, <1>6, <2>a, <2>b DEF Disjoint
  <2>2. ~(i < j) /\ ~(j < i) /\ i \in Nat /\ j \in Nat
    BY <1>4, <2>1 DEF Lacks, Rising
  <2> QED
    BY <2>2
<1> QED
  BY <1>1, <1>4, <1>5, <1>6 DEF Disjoint

\* The files after an unmapping: written back, and closed.
LEMMA UnmapFile ==
  ASSUME TablesInv, NEW p \in Procs, Unmap(p), MapOf(p) \in Mappings
  PROVE  /\ file' \in [Files -> FileStates]
         /\ \E b \in FileStates :
              /\ b.opens = file[MapOf(p).file].opens
              /\ IsDirty(page[p][MapOf(p).page]) => b.value = page[p][MapOf(p).page].value
              /\ file' = [file EXCEPT ![MapOf(p).file] = Closed(b, 1)]
<1>1. PICK m \in Mappings : m = MapOf(p)
  OBVIOUS
<1>2. PICK e \in PageEntries : e = page[p][m.page]
  BY DEF TablesInv, Mappings
<1>3. PICK f \in Files : f = m.file
  BY DEF Mappings
<1>4. file[f] \in FileStates
  BY DEF TablesInv
<1>5. PICK n : n = IF e.status = "swap" THEN 2 ELSE file[f].length
  OBVIOUS
<1>6. PICK b : b = IF ~IsDirty(e) THEN file[f]
                   ELSE [file[f] EXCEPT !.value = e.value, !.length = n]
  OBVIOUS
<1>7. b \in FileStates /\ b.opens = file[f].opens /\ (IsDirty(e) => b.value = e.value)
  BY <1>4, <1>5, <1>6 DEF FileStates, PageEntries
<1>8. file' = [file EXCEPT ![f] = Closed(b, 1)]
  <2>1. CASE ~IsDirty(e)
    <3>1. file' = Close(file, f)
      BY <1>1, <1>2, <1>3, <2>1 DEF Unmap
    <3> QED
      BY <1>6, <2>1, <3>1 DEF Close
  <2>2. CASE IsDirty(e)
    <3>1. PICK t : t = [file EXCEPT ![f].value = e.value,
                                    ![f].length = IF e.status = "swap" THEN 2 ELSE @]
      OBVIOUS
    <3>2. file' = Close(t, f)
      BY <1>1, <1>2, <1>3, <2>2, <3>1 DEF Unmap
    <3>3. t = [file EXCEPT ![f] = b]
      BY <1>4, <1>5, <1>6, <2>2, <3>1 DEF TablesInv, FileStates
    <3> QED
      BY <3>2, <3>3 DEF Close, TablesInv
  <2> QED
    BY <2>1, <2>2
<1>9. Closed(b, 1) \in FileStates
  BY <1>7, ClosedTyped
<1> QED
  BY <1>1, <1>2, <1>3, <1>7, <1>8, <1>9 DEF TablesInv

LEMMA UnmapTables ==
  ASSUME LockInv, TablesInv, NEW p \in Procs, Unmap(p)
  PROVE  TablesInv'
<1>1. PICK k \in DOMAIN maps[p], r \in Seq(Mappings) :
        /\ maps[p][k] = MapOf(p) /\ MapOf(p) \in Mappings
        /\ maps' = [maps EXCEPT ![p] = r] /\ maps'[p] = r
        /\ Lacks(maps[p], k, r) /\ Disjoint(r)
  BY UnmapIs
<1>2. PICK u \in Pages : u = MapOf(p).page
  BY <1>1 DEF Mappings
<1>3. file' \in [Files -> FileStates]
  BY <1>1, UnmapFile
<1>4. Return(p) /\ fds' = fds /\ page' = [page EXCEPT ![p][u] = NoPage]
  BY <1>2 DEF Unmap
<1>5. /\ page' \in [Procs -> [Pages -> PageEntries]] /\ page'[p][u] = NoPage
      /\ \A v \in Pages \ {u} : page'[p][v] = page[p][v]
      /\ \A q \in Procs \ {p} : page'[q] = page[q]
  <2>1. NoPage \in PageEntries
    BY DEF NoPage, PageEntries
  <2> QED
    BY <1>4, <2>1 DEF TablesInv
<1>6. ASSUME NEW v \in Pages
      PROVE  page'[p][v].status # "none" <=> \E j \in DOMAIN r : r[j].page = v
  <2>1. Disjoint(maps[p]) /\ maps[p][k].page = u
    BY <1>1, <1>2 DEF TablesInv
  <2>2. page[p][v].status # "none" <=> \E i \in DOMAIN maps[p] : maps[p][i].page = v
    BY DEF TablesInv
  <2>3. CASE v = u
    <3>1. page'[p][v].status = "none"
      BY <1>5, <2>3 DEF NoPage
    <3>2. \A j \in DOMAIN r : r[j].page # u
      BY <1>1, <2>1 DEF Lacks, Disjoint
    <3> QED
      BY <2>3, <3>1, <3>2
  <2>4. CASE v # u
    <3>1. page'[p][v] = page[p][v]
      BY <1>5, <2>4
    <3>2. (\E j \in DOMAIN r : r[j].page = v) <=> \E i \in DOMAIN maps[p] : maps[p][i].page = v
      BY <1>1, <2>1, <2>4 DEF Lacks
    <3> QED
      BY <2>2, <3>1, <3>2
  <2> QED
    BY <2>3, <2>4
<1>7. /\ unmapping' = [unmapping EXCEPT ![p] = 0]
      /\ pc' = [pc EXCEPT ![p] = IF p \in leaving THEN "exit" ELSE "user"]
  BY <1>4 DEF Return, Goto
<1>8. /\ unmapping' \in [Procs -> Nat] /\ pc'[p] \notin {"pin", "unmap"}
      /\ \A q \in Procs \ {p} : unmapping'[q] = unmapping[q] /\ pc'[q] = pc[q]
  BY <1>7 DEF TablesInv, LockInv
<1>9. /\ maps' \in [Procs -> Seq(Mappings)] /\ \A q \in Procs \ {p} : maps'[q] = maps[q]
  BY <1>1 DEF TablesInv
<1>10. fds' \in [Procs -> Seq(Entries)] /\ Rising(fds'[p])
  BY <1>4 DEF TablesInv
<1>11. Rising(maps'[p]) /\ Disjoint(maps'[p])
  BY <1>1 DEF Lacks
<1>12. OthersKeep(p)
  <2>1. ASSUME NEW q \in Procs \ {p}
        PROVE  /\ fds'[q] = fds[q] /\ maps'[q] = maps[q] /\ page'[q] = page[q]
               /\ unmapping'[q] = unmapping[q] /\ pc'[q] = pc[q]
    BY <1>4, <1>5, <1>8, <1>9
  <2> QED
    BY <2>1 DEF OthersKeep
<1>13. OwnOrder(p)
  <2>1. \A v \in Pages :
          page'[p][v].status # "none" <=> \E i \in DOMAIN maps'[p] : maps'[p][i].page = v
    BY <1>1, <1>6
  <2>2. pc'[p] \notin {"pin", "unmap"} /\ Rising(fds'[p])
    BY <1>8, <1>10
  <2> QED
    BY <1>11, <2>1, <2>2 DEF OwnOrder
<1> QED
  BY <1>3, <1>5, <1>8, <1>9, <1>10, <1>12, <1>13, OwnTables

\* sys_munmap names a mapping of the list.
LEMMA MunmapTables ==
  ASSUME LockInv, TablesInv, NEW p \in Procs, NEW i \in DOMAIN maps[p], sys_munmap(p, i)
  PROVE  TablesInv'
<1>1. /\ unmapping' = [unmapping EXCEPT ![p] = maps[p][i].id]
      /\ UNCHANGED << fds, maps, page, file >>
  BY DEF sys_munmap
<1>2. PICK l : pc' = [pc EXCEPT ![p] = l]
  BY DEF sys_munmap, Goto
<1>3. maps[p][i].id \in Nat
  BY DEF TablesInv, Rising
<1>4. Find(maps[p], maps[p][i].id) # {}
  BY DEF Find
<1>5. /\ unmapping' \in [Procs -> Nat] /\ unmapping'[p] = maps[p][i].id
      /\ \A q \in Procs \ {p} : unmapping'[q] = unmapping[q] /\ pc'[q] = pc[q]
  BY <1>1, <1>2, <1>3 DEF TablesInv, LockInv
<1>6. OthersKeep(p)
  BY <1>1, <1>5 DEF OthersKeep
<1>7. OwnOrder(p)
  BY <1>1, <1>4, <1>5 DEF OwnOrder, TablesInv
<1> QED
  BY <1>1, <1>5, <1>6, <1>7, OwnTables DEF TablesInv
\* The calls.
LEMMA CallTables ==
  ASSUME LockInv, TablesInv, NEW p \in Procs, Call(p)
  PROVE  TablesInv'
<1>f. file \in [Files -> FileStates]
  BY DEF TablesInv
<1>1. ASSUME NEW f \in Files, NEW n \in {0, 1}, sys_create(p, f, n) PROVE TablesInv'
  <2>1. PICK e \in FileStates : e = file[f]
    BY <1>f
  <2>2. [e EXCEPT !.named = TRUE, !.length = n] \in FileStates
    <3>1. PICK b \in BOOLEAN : b = TRUE
      OBVIOUS
    <3>2. PICK d \in FileStates : d = [e EXCEPT !.named = b]
      BY DEF FileStates
    <3>3. [d EXCEPT !.length = n] \in FileStates /\ n \in Nat
      BY DEF FileStates
    <3> QED
      BY <3>1, <3>2, <3>3 DEF FileStates
  <2>3. file' \in [Files -> FileStates]
    BY <1>1, <1>f, <2>1, <2>2 DEF sys_create
  <2> QED
    BY <1>1, <2>3, ReturnTables DEF sys_create
<1>2. ASSUME NEW f \in Files, sys_remove(p, f) PROVE TablesInv'
  <2>1. PICK e \in FileStates : e = file[f]
    BY <1>f
  <2>2. Gone \in FileStates
    BY DEF FileStates, Gone
  <2>3. CASE Found(p, f, "removing")
    <3>1. UNCHANGED << fds, maps, page >> /\ (file' = file \/ Return(p))
      BY <1>2 DEF sys_remove
    <3>2. file' = file
      <4>1. ~Return(p)
        <5>1. pc[p] = "in" /\ pc' = [pc EXCEPT ![p] = "removing"]
          BY <1>2, <2>3 DEF sys_remove, Inside, Found, Goto
        <5> QED
          BY <5>1 DEF LockInv, Return, Goto
      <4> QED
        BY <3>1, <4>1
    <3> QED
      BY <2>3, <3>1, <3>2, FoundTables
  <2>4. CASE ~Found(p, f, "removing")
    <3>1. /\ Return(p) /\ UNCHANGED << fds, maps, page >>
          /\ file' = [file EXCEPT ![f] = IF e.named THEN Gone ELSE e]
      BY <1>2, <2>1, <2>4 DEF sys_remove
    <3>2. file' \in [Files -> FileStates]
      BY <1>f, <2>2, <3>1
    <3> QED
      BY <3>1, <3>2, ReturnTables
  <2> QED
    BY <2>3, <2>4
<1>3. ASSUME NEW id \in Ids, NEW v \in Value, sys_write(p, id, v) PROVE TablesInv'
  <2>1. PICK f : f = FileOf(p, id)
    OBVIOUS
  <2>2. file' \in [Files -> FileStates]
    <3>1. CASE f = None
      BY <1>3, <1>f, <2>1, <3>1 DEF sys_write
    <3>2. CASE f # None
      <4>1. f \in Files
        BY <2>1, <3>2, FileFound
      <4>2. PICK e \in FileStates : e = file[f]
        BY <1>f, <4>1
      <4>3. PICK n : n = IF e.length = 0 THEN 1 ELSE e.length
        OBVIOUS
      <4>4. [e EXCEPT !.value = v, !.length = n] \in FileStates
        BY <4>3 DEF FileStates
      <4>5. file' = [file EXCEPT ![f] = [e EXCEPT !.value = v, !.length = n]]
        <5>1. file' = [file EXCEPT ![f].value = v, ![f].length = IF @ = 0 THEN 1 ELSE @]
          BY <1>3, <2>1, <3>2 DEF sys_write
        <5> QED
          BY <1>f, <4>1, <4>2, <4>3, <5>1 DEF FileStates
      <4> QED
        BY <1>f, <4>4, <4>5
    <3> QED
      BY <3>1, <3>2
  <2> QED
    BY <1>3, <2>2, ReturnTables DEF sys_write
<1>4. ASSUME NEW id, sys_seek(p, id) PROVE TablesInv'
  <2>1. CASE FileOf(p, id) # None
    BY <1>4, <1>f, <2>1, ReturnTables DEF sys_seek
  <2>2. CASE FileOf(p, id) = None
    <3>1. /\ pc' = [pc EXCEPT ![p] = "user"]
          /\ UNCHANGED << unmapping, fds, maps, page, file >>
      BY <1>4, <2>2 DEF sys_seek, Goto
    <3> QED
      BY <3>1, TablesStay DEF TablesInv, LockInv
  <2> QED
    BY <2>1, <2>2
<1>5. ASSUME NEW id, sys_isdir(p, id) PROVE TablesInv'
  <2>1. CASE FileOf(p, id) # None
    BY <1>5, <1>f, <2>1, ReturnTables DEF sys_isdir
  <2>2. CASE FileOf(p, id) = None
    <3>1. UNCHANGED << pc, unmapping, fds, maps, page, file >>
      BY <1>5, <2>2 DEF sys_isdir
    <3> QED
      BY <3>1, TablesStay DEF TablesInv
  <2> QED
    BY <2>1, <2>2
<1>6. ASSUME sys_exec(p) PROVE TablesInv'
  <2>1. PICK q \in Procs : pc' = [pc EXCEPT ![p] = "wait", ![q] = "load"]
    BY <1>6 DEF sys_exec
  <2>2. UNCHANGED << unmapping, fds, maps, page, file >>
    BY <1>6 DEF sys_exec
  <2>3. \A r \in Procs : pc'[r] \notin {"pin", "unmap"} \/ pc'[r] = pc[r]
    BY <2>1 DEF LockInv
  <2> QED
    BY <2>2, <2>3, TablesStay DEF TablesInv
<1>7. ASSUME sys_read(p) PROVE TablesInv'
  <2>1. UNCHANGED << unmapping, fds, maps, page, file >> /\ pc' = [pc EXCEPT ![p] = "keys"]
    BY <1>7 DEF sys_read, Goto
  <2> QED
    BY <2>1, TablesStay DEF TablesInv, LockInv
<1> QED
  BY <1>1, <1>2, <1>3, <1>4, <1>5, <1>6, <1>7,
     OpenTables, CloseTables, MmapTables, MunmapTables DEF Call

\* A step that changes page u of p, and not whether it is mapped.
LEMMA EntryTables ==
  ASSUME TablesInv, NEW p \in Procs, NEW u \in Pages, NEW e \in PageEntries,
         page' = [page EXCEPT ![p][u] = e], page[p][u].status # "none", e.status # "none",
         UNCHANGED << fds, maps, unmapping, file >>,
         \A q \in Procs : pc'[q] \in {"pin", "unmap"} => pc[q] \in {"pin", "unmap"}
  PROVE  TablesInv'
<1>1. /\ page' \in [Procs -> [Pages -> PageEntries]]
      /\ \A q \in Procs, v \in Pages :
           page'[q][v] = IF q = p /\ v = u THEN e ELSE page[q][v]
  BY DEF TablesInv
<1>2. ASSUME NEW q \in Procs, NEW v \in Pages
      PROVE  page'[q][v].status # "none" <=> page[q][v].status # "none"
  <2>1. CASE q = p /\ v = u
    BY <1>1, <2>1
  <2>2. CASE ~(q = p /\ v = u)
    BY <1>1, <2>2
  <2> QED
    BY <2>1, <2>2
<1>3. (\A q \in Procs, v \in Pages :
         page[q][v].status # "none" <=> \E i \in DOMAIN maps[q] : maps[q][i].page = v)'
  <2>1. \A q \in Procs, v \in Pages :
         page[q][v].status # "none" <=> \E i \in DOMAIN maps[q] : maps[q][i].page = v
    BY DEF TablesInv
  <2> QED
    BY <1>2, <2>1
<1>4. (\A q \in Procs : pc[q] \in {"pin", "unmap"} => Find(maps[q], unmapping[q]) # {})'
  BY DEF TablesInv
<1> QED
  BY <1>1, <1>3, <1>4 DEF TablesInv

\* The entry e says that its page holds the value v, which was stored in it.
Stored(e, v) ==
  IsDirty(e) /\ e.value = v /\ (e.status = "swap" => e.dirty)

\* A fault finds the mapping of its page.
LEMMA LoadIs ==
  ASSUME TablesInv, NEW p \in Procs, NEW u \in Pages, Load(p, u)
  PROVE  \E e \in PageEntries :
           /\ page' = [page EXCEPT ![p][u] = e] /\ e.status = "frame"
           /\ \A v : Stored(page[p][u], v) => Stored(e, v)
<1>1. PICK k : k = CHOOSE i \in DOMAIN maps[p] : maps[p][i].page = u
  OBVIOUS
<1>2. k \in DOMAIN maps[p]
  BY <1>1 DEF Load, TablesInv
<1>3. file[maps[p][k].file].value \in Value \union {None}
  <2>1. maps[p][k] \in Mappings
    BY <1>2 DEF TablesInv
  <2>2. maps[p][k].file \in Files
    BY <2>1 DEF Mappings
  <2> QED
    BY <2>2 DEF TablesInv, FileStates
<1>4. PICK o \in PageEntries : o = page[p][u]
  BY DEF TablesInv
<1>5. PICK v : v = IF o.status = "swap" THEN o.value ELSE file[maps[p][k].file].value
  OBVIOUS
<1>6. PICK e : e = [o EXCEPT !.status = "frame", !.pte_dirty = FALSE, !.value = v]
  OBVIOUS
<1>7. e \in PageEntries /\ e.status = "frame" /\ e.dirty = o.dirty /\ e.value = v
  BY <1>3, <1>4, <1>5, <1>6 DEF PageEntries
<1>8. page' = [page EXCEPT ![p][u] = e]
  <2>1. page' = [page EXCEPT ![p][u] =
                   [o EXCEPT !.status = "frame", !.pte_dirty = FALSE,
                             !.value = IF o.status = "swap" THEN @
                                       ELSE file[maps[p][k].file].value]]
    BY <1>1, <1>4 DEF Load
  <2>2. [o EXCEPT !.status = "frame", !.pte_dirty = FALSE,
                  !.value = IF o.status = "swap" THEN @
                            ELSE file[maps[p][k].file].value] = e
    BY <1>4, <1>5, <1>6 DEF PageEntries
  <2> QED
    BY <2>1, <2>2
<1>9. ASSUME NEW w, Stored(o, w) PROVE Stored(e, w)
  <2>1. o.status = "swap" /\ o.dirty /\ o.value = w
    BY <1>4, <1>9 DEF Load, Stored, IsDirty
  <2>2. e.dirty
    BY <1>7, <2>1
  <2> QED
    BY <1>5, <1>7, <2>1, <2>2 DEF Stored, IsDirty
<1> QED
  BY <1>4, <1>7, <1>8, <1>9

\* An eviction notes in the entry what the page table says of the page.
LEMMA EvictIs ==
  ASSUME TablesInv, NEW p \in Procs, NEW u \in Pages, Evict(p, u)
  PROVE  \E e \in PageEntries :
           /\ page' = [page EXCEPT ![p][u] = e] /\ e.status = "swap"
           /\ \A v : Stored(page[p][u], v) => Stored(e, v)
<1>1. PICK o \in PageEntries : o = page[p][u]
  BY DEF TablesInv
<1>2. PICK b \in BOOLEAN : b = (o.dirty \/ o.pte_dirty)
  BY Zenon
<1>3. PICK e : e = [o EXCEPT !.status = "swap", !.dirty = b]
  OBVIOUS
<1>4. e \in PageEntries
  BY <1>1, <1>2, <1>3 DEF PageEntries
<1>5. e.status = "swap" /\ e.value = o.value /\ e.dirty = b
  BY <1>1, <1>2, <1>3 DEF PageEntries
<1>6. page' = [page EXCEPT ![p][u] = e]
  <2>1. page' = [page EXCEPT ![p][u].status = "swap",
                             ![p][u].dirty = @ \/ page[p][u].pte_dirty]
    BY DEF Evict
  <2>2. PICK c : c = (o.dirty \/ o.pte_dirty)
    OBVIOUS
  <2>3. page' = [page EXCEPT ![p][u] = [o EXCEPT !.status = "swap", !.dirty = c]]
    <3>1. PICK d : d = [o EXCEPT !.status = "swap"]
      OBVIOUS
    <3>2. d.dirty = o.dirty
      BY <1>1, <3>1 DEF PageEntries
    <3>3. page \in [Procs -> [Pages -> PageEntries]]
      BY DEF TablesInv
    <3> QED
      BY <1>1, <2>1, <2>2, <3>1, <3>2, <3>3
  <2> QED
    BY <1>2, <1>3, <2>2, <2>3, Zenon
<1>7. ASSUME NEW w, Stored(o, w) PROVE Stored(e, w)
  <2>1. (o.dirty \/ o.pte_dirty) /\ o.value = w
    BY <1>7 DEF Stored, IsDirty
  <2>2. e.dirty
    BY <1>2, <1>5, <2>1
  <2> QED
    BY <1>5, <2>1, <2>2 DEF Stored, IsDirty
<1> QED
  BY <1>1, <1>4, <1>5, <1>6, <1>7

\* A store sets the bit of the page table.
LEMMA StoreIs ==
  ASSUME TablesInv, NEW p \in Procs, NEW u \in Pages, NEW v \in Value, Store(p, u, v)
  PROVE  \E e \in PageEntries :
           page' = [page EXCEPT ![p][u] = e] /\ e.status = "frame" /\ Stored(e, v)
<1>1. PICK o \in PageEntries : o = page[p][u]
  BY DEF TablesInv
<1>2. PICK b \in BOOLEAN : b = TRUE
  OBVIOUS
<1>3. PICK e : e = [o EXCEPT !.value = v, !.pte_dirty = b]
  OBVIOUS
<1>4. e \in PageEntries
  BY <1>1, <1>2, <1>3 DEF PageEntries
<1>5. e.status = o.status /\ e.value = v /\ e.pte_dirty = b
  BY <1>1, <1>2, <1>3 DEF PageEntries
<1>6. o.status = "frame"
  BY <1>1 DEF Store
<1>7. page' = [page EXCEPT ![p][u] = e]
  <2>1. page' = [page EXCEPT ![p][u].value = v, ![p][u].pte_dirty = TRUE]
    BY DEF Store
  <2>2. page' = [page EXCEPT ![p][u] = [o EXCEPT !.value = v, !.pte_dirty = b]]
    <3>1. page \in [Procs -> [Pages -> PageEntries]]
      BY DEF TablesInv
    <3> QED
      BY <1>1, <1>2, <2>1, <3>1
  <2> QED
    BY <1>3, <2>2
<1>8. e.pte_dirty
  BY <1>2, <1>5
<1>9. Stored(e, v)
  BY <1>5, <1>6, <1>8 DEF Stored, IsDirty
<1> QED
  BY <1>4, <1>5, <1>6, <1>7, <1>9

\* A pin changes nothing else of the entry.
LEMMA PinIs ==
  ASSUME TablesInv, NEW p \in Procs, NEW u \in Pages, page[p][u].status = "frame",
         page' = [page EXCEPT ![p][u].pinned = TRUE]
  PROVE  \E e \in PageEntries :
           /\ page' = [page EXCEPT ![p][u] = e] /\ e.status = "frame"
           /\ \A v : Stored(page[p][u], v) => Stored(e, v)
<1>1. PICK o \in PageEntries : o = page[p][u]
  BY DEF TablesInv
<1>2. PICK b \in BOOLEAN : b = TRUE
  OBVIOUS
<1>3. PICK e : e = [o EXCEPT !.pinned = b]
  OBVIOUS
<1>4. e \in PageEntries
  BY <1>1, <1>2, <1>3 DEF PageEntries
<1>5. e.status = o.status /\ e.value = o.value
  BY <1>1, <1>2, <1>3 DEF PageEntries
<1>6. e.dirty = o.dirty /\ e.pte_dirty = o.pte_dirty
  BY <1>1, <1>2, <1>3 DEF PageEntries
<1>7. page' = [page EXCEPT ![p][u] = e]
  BY <1>1, <1>2, <1>3 DEF TablesInv
<1>8. ASSUME NEW w, Stored(o, w) PROVE Stored(e, w)
  <2>1. (o.dirty \/ o.pte_dirty) /\ o.value = w
    BY <1>8 DEF Stored, IsDirty
  <2>2. e.dirty \/ e.pte_dirty
    BY <1>6, <2>1
  <2> QED
    BY <1>1, <1>5, <2>1, <2>2 DEF Stored, IsDirty
<1> QED
  BY <1>1, <1>4, <1>5, <1>7, <1>8

\* The rest of what a process does.
LEMMA KernelTables ==
  ASSUME LockInv, TablesInv, NEW p \in Procs,
         \/ Acquire(p) \/ PinFrame(p) \/ Loaded(p) \/ ExitMaps(p)
         \/ Trap(p) \/ Exit(p) \/ Clash(p) \/ input_getc(p)
  PROVE  TablesInv'
<1>p. pc \in [Procs -> Labels]
  BY DEF LockInv
<1>1. CASE Acquire(p)
  <2>1. /\ UNCHANGED << unmapping, fds, maps, page, file >>
        /\ pc' = pc \/ pc' = [pc EXCEPT ![p] = "in"]
    BY <1>1 DEF Acquire, Goto
  <2> QED
    BY <1>p, <2>1, TablesStay DEF TablesInv
<1>2. CASE PinFrame(p)
  <2>1. PICK u \in Pages : u = MapOf(p).page
    BY <1>2, MapFound DEF PinFrame, Mappings
  <2>2. CASE page[p][u].status # "frame"
    <3>1. UNCHANGED << pc, unmapping, fds, maps, page, file >>
      BY <1>2, <2>1, <2>2 DEF PinFrame
    <3> QED
      BY <3>1, TablesStay DEF TablesInv
  <2>3. CASE page[p][u].status = "frame"
    <3>1. /\ page' = [page EXCEPT ![p][u].pinned = TRUE]
          /\ UNCHANGED << fds, maps, unmapping, file >>
          /\ pc[p] = "pin" /\ pc' = [pc EXCEPT ![p] = "unmap"]
      BY <1>2, <2>1, <2>3 DEF PinFrame, Goto
    <3>2. PICK e \in PageEntries : page' = [page EXCEPT ![p][u] = e] /\ e.status = "frame"
      BY <2>3, <3>1, PinIs
    <3>3. \A q \in Procs : pc'[q] \in {"pin", "unmap"} => pc[q] \in {"pin", "unmap"}
      BY <1>p, <3>1
    <3> QED
      BY <2>3, <3>1, <3>2, <3>3, EntryTables
  <2> QED
    BY <2>2, <2>3
<1>3. CASE Loaded(p)
  <2>1. PICK q \in Procs, l \in {"user", "exit"} : pc' = [pc EXCEPT ![q] = "user", ![p] = l]
    BY <1>3 DEF Loaded
  <2>2. UNCHANGED << unmapping, fds, maps, page, file >>
    BY <1>3 DEF Loaded
  <2>3. \A r \in Procs : pc'[r] \notin {"pin", "unmap"} \/ pc'[r] = pc[r]
    BY <1>p, <2>1
  <2> QED
    BY <2>2, <2>3, TablesStay DEF TablesInv
<1>4. CASE ExitMaps(p)
  <2>1. /\ UNCHANGED << unmapping, fds, maps, page, file >>
        /\ \E l \in {"acquire", "none"} : pc' = [pc EXCEPT ![p] = l]
    BY <1>4 DEF ExitMaps, Goto
  <2> QED
    BY <1>p, <2>1, TablesStay DEF TablesInv
<1>5. CASE Trap(p)
  <2>1. UNCHANGED << unmapping, fds, maps, page, file >> /\ pc' = [pc EXCEPT ![p] = "acquire"]
    BY <1>5 DEF Trap, Goto
  <2> QED
    BY <1>p, <2>1, TablesStay DEF TablesInv
<1>6. CASE Exit(p)
  <2>1. UNCHANGED << unmapping, fds, maps, page, file >> /\ pc' = [pc EXCEPT ![p] = "exit"]
    BY <1>6 DEF Exit, Goto
  <2> QED
    BY <1>p, <2>1, TablesStay DEF TablesInv
<1>7. CASE Clash(p)
  <2>1. UNCHANGED << pc, unmapping, fds, maps, page, file >>
    BY <1>7 DEF Clash
  <2> QED
    BY <2>1, TablesStay DEF TablesInv
<1>8. CASE input_getc(p)
  <2>1. /\ UNCHANGED << fds, maps, page, file >> /\ file \in [Files -> FileStates]
        /\ Return(p) \/ (pc' = [pc EXCEPT ![p] = "exit"] /\ unmapping' = unmapping)
    BY <1>8 DEF input_getc, Goto, TablesInv
  <2>2. CASE Return(p)
    BY <2>1, <2>2, ReturnTables
  <2>3. CASE pc' = [pc EXCEPT ![p] = "exit"] /\ unmapping' = unmapping
    BY <1>p, <2>1, <2>3, TablesStay DEF TablesInv
  <2> QED
    BY <2>1, <2>2, <2>3
<1> QED
  BY <1>1, <1>2, <1>3, <1>4, <1>5, <1>6, <1>7, <1>8

\* What the machine and the program do to a page that is mapped.
LEMMA PageTables ==
  ASSUME TablesInv, NEW p \in Procs, NEW u \in Pages,
         Load(p, u) \/ Evict(p, u) \/ \E v \in Value : Store(p, u, v)
  PROVE  TablesInv'
<1>1. UNCHANGED << pc, fds, maps, unmapping, file >> /\ page[p][u].status # "none"
  BY DEF Load, Evict, Store
<1>2. CASE Load(p, u)
  <2>1. PICK e \in PageEntries : page' = [page EXCEPT ![p][u] = e] /\ e.status = "frame"
    BY <1>2, LoadIs
  <2> QED
    BY <1>1, <2>1, EntryTables
<1>3. CASE Evict(p, u)
  <2>1. PICK e \in PageEntries : page' = [page EXCEPT ![p][u] = e] /\ e.status = "swap"
    BY <1>3, EvictIs
  <2> QED
    BY <1>1, <2>1, EntryTables
<1>4. ASSUME NEW v \in Value, Store(p, u, v) PROVE TablesInv'
  <2>1. PICK e \in PageEntries : page' = [page EXCEPT ![p][u] = e] /\ e.status = "frame"
    BY <1>4, StoreIs
  <2> QED
    BY <1>1, <2>1, EntryTables
<1> QED
  BY <1>2, <1>3, <1>4

\* The tables are in order from boot on.
LEMMA InitTables == Init => TablesInv
<1> SUFFICES ASSUME Init PROVE TablesInv
  OBVIOUS
<1>1. NoPage \in PageEntries /\ NoPage.status = "none"
  BY DEF NoPage, PageEntries
<1>2. Gone \in FileStates
  BY DEF Gone, FileStates
<1>3. /\ fds = [p \in Procs |-> << >>] /\ maps = [p \in Procs |-> << >>]
      /\ unmapping = [p \in Procs |-> 0] /\ file = [f \in Files |-> Gone]
      /\ page = [p \in Procs |-> [u \in Pages |-> NoPage]]
      /\ \A p \in Procs : pc[p] \in {"user", "none"}
  BY DEF Init
<1> QED
  BY <1>1, <1>2, <1>3 DEF TablesInv, Rising, Disjoint

LEMMA NextTables == LockInv /\ TablesInv /\ HandInv /\ [Next]_vars => TablesInv'
<1> SUFFICES ASSUME LockInv, TablesInv, HandInv, [Next]_vars PROVE TablesInv'
  OBVIOUS
<1>1. CASE UNCHANGED vars
  <2>1. UNCHANGED << pc, unmapping, fds, maps, page, file >>
    BY <1>1 DEF vars
  <2> QED
    BY <2>1, TablesStay DEF TablesInv
<1>2. ASSUME NEW p \in Procs, Step(p) PROVE TablesInv'
  BY <1>2, CallTables, OpenedTables, RemovedTables, UnmapTables, ExitCloseTables,
     ExitFreeTables, KernelTables DEF Step
<1> QED
  BY <1>1, <1>2, KernelTables, PageTables DEF Next

\* A step that takes no inode into the hand.
LEMMA HandStays ==
  ASSUME HandInv, hand' \in [Procs -> Files \union {None}],
         \A q \in Procs : pc'[q] \in {"removing", "opening", "freeing"} =>
                            pc'[q] = pc[q] /\ hand'[q] = hand[q]
  PROVE  HandInv'
  BY DEF HandInv

\* A step of p to a place where its hand does not matter.
LEMMA GoHand ==
  ASSUME LockInv, HandInv, NEW p \in Procs, NEW l, Goto(p, l),
         hand' = hand \/ hand' = [hand EXCEPT ![p] = None],
         l \notin {"removing", "opening", "freeing"}
  PROVE  HandInv'
<1>1. pc' = [pc EXCEPT ![p] = l]
  BY DEF Goto
<1>2. ASSUME NEW q \in Procs, pc'[q] \in {"removing", "opening", "freeing"}
      PROVE  pc'[q] = pc[q] /\ hand'[q] = hand[q]
  BY <1>1, <1>2 DEF LockInv, HandInv
<1>3. hand' \in [Procs -> Files \union {None}]
  BY DEF HandInv
<1> QED
  BY <1>2, <1>3, HandStays

LEMMA ReturnHand ==
  ASSUME LockInv, HandInv, NEW p \in Procs, Return(p)
  PROVE  HandInv'
<1>1. PICK l \in {"exit", "user"} : Goto(p, l)
  BY DEF Return
<1> QED
  BY <1>1, GoHand DEF Return

\* The inode that is taken is one of a directory entry or of a descriptor.
LEMMA TakeHand ==
  ASSUME LockInv, HandInv, NEW p \in Procs, NEW f \in Files, NEW l, Goto(p, l),
         hand' = [hand EXCEPT ![p] = f]
  PROVE  HandInv'
<1>1. /\ \A q \in Procs : q # p => pc'[q] = pc[q] /\ hand'[q] = hand[q]
      /\ hand'[p] = f /\ hand' \in [Procs -> Files \union {None}]
  BY DEF Goto, LockInv, HandInv
<1> QED
  BY <1>1 DEF HandInv

\* The calls.
LEMMA CallHand ==
  ASSUME LockInv, HandInv, NEW p \in Procs, Call(p)
  PROVE  HandInv'
<1>1. CASE Return(p)
  BY <1>1, ReturnHand
<1>2. CASE UNCHANGED << pc, hand >>
  BY <1>2, HandStays DEF HandInv
<1>3. ASSUME NEW f \in Files, NEW l \in {"removing", "opening"}, Found(p, f, l)
      PROVE  HandInv'
  BY <1>3, TakeHand DEF Found
<1>4. CASE \E l \in {"user", "pin", "unmap", "keys"} : Goto(p, l) /\ hand' = hand
  BY <1>4, GoHand
<1>5. CASE sys_exec(p)
  <2>1. PICK q \in Procs : pc' = [pc EXCEPT ![p] = "wait", ![q] = "load"]
    BY <1>5 DEF sys_exec
  <2>2. hand' = hand
    BY <1>5 DEF sys_exec
  <2>3. \A r \in Procs : pc'[r] \in {"removing", "opening", "freeing"} => pc'[r] = pc[r]
    BY <2>1 DEF LockInv
  <2> QED
    BY <2>2, <2>3, HandStays DEF HandInv
<1>6. ASSUME NEW f \in Files, sys_open(p, f) \/ sys_remove(p, f) PROVE HandInv'
  BY <1>1, <1>3, <1>6 DEF sys_open, sys_remove
<1>7. ASSUME NEW id, sys_seek(p, id) PROVE HandInv'
  BY <1>1, <1>4, <1>7 DEF sys_seek
<1>8. ASSUME NEW i \in DOMAIN maps[p], sys_munmap(p, i) PROVE HandInv'
  BY <1>4, <1>8 DEF sys_munmap
<1>9. CASE sys_read(p)
  BY <1>4, <1>9 DEF sys_read
<1> QED
  BY <1>1, <1>2, <1>5, <1>6, <1>7, <1>8, <1>9
     DEF Call, sys_create, sys_close, sys_isdir, sys_write, sys_mmap

LEMMA NextHand == LockInv /\ TablesInv /\ HandInv /\ [Next]_vars => HandInv'
<1> SUFFICES ASSUME LockInv, TablesInv, HandInv, [Next]_vars PROVE HandInv'
  OBVIOUS
<1>1. CASE UNCHANGED << pc, hand >>
  BY <1>1, HandStays DEF HandInv
<1>2. CASE UNCHANGED vars
  BY <1>1, <1>2 DEF vars
<1>3. ASSUME NEW p \in Procs, Trap(p) \/ Acquire(p) \/ PinFrame(p) \/ Exit(p) \/ ExitMaps(p)
      PROVE  HandInv'
  <2>1. hand' = hand
    BY <1>3 DEF Trap, Acquire, PinFrame, Exit, ExitMaps
  <2>2. pc' = pc \/ \E l \in {"acquire", "in", "unmap", "exit", "none"} : Goto(p, l)
    BY <1>3 DEF Trap, Acquire, PinFrame, Exit, ExitMaps
  <2> QED
    BY <1>1, <2>1, <2>2, GoHand
<1>4. ASSUME NEW p \in Procs, Opened(p) \/ Removed(p) \/ Unmap(p) \/ input_getc(p)
      PROVE  HandInv'
  <2>1. Return(p) \/ (Goto(p, "exit") /\ hand' = hand)
    BY <1>4 DEF Opened, Removed, Unmap, input_getc
  <2> QED
    BY <2>1, ReturnHand, GoHand
<1>5. ASSUME NEW p \in Procs, Loaded(p) PROVE HandInv'
  <2>1. PICK q \in Procs, l \in {"user", "exit"} : pc' = [pc EXCEPT ![q] = "user", ![p] = l]
    BY <1>5 DEF Loaded
  <2>2. hand' = hand
    BY <1>5 DEF Loaded
  <2>3. \A r \in Procs : pc'[r] \in {"removing", "opening", "freeing"} => pc'[r] = pc[r]
    BY <2>1 DEF LockInv
  <2> QED
    BY <2>2, <2>3, HandStays DEF HandInv
<1>6. ASSUME NEW p \in Procs, ExitClose(p) PROVE HandInv'
  <2>1. PICK f \in Files : f = fds[p][1].file
    BY <1>6, ExitCloseIs
  <2>2. \/ Goto(p, "freeing") /\ hand' = [hand EXCEPT ![p] = f]
        \/ UNCHANGED << pc, hand >>
    BY <1>6, <2>1 DEF ExitClose
  <2> QED
    BY <1>1, <2>2, TakeHand
<1>7. ASSUME NEW p \in Procs, ExitFree(p) PROVE HandInv'
  BY <1>7, GoHand DEF ExitFree
<1>8. ASSUME NEW p \in Procs, NEW u \in Pages,
             Load(p, u) \/ Evict(p, u) \/ \E v \in Value : Store(p, u, v)
      PROVE  HandInv'
  BY <1>1, <1>8 DEF Load, Evict, Store
<1>9. ASSUME NEW p \in Procs, Clash(p) PROVE HandInv'
  BY <1>1, <1>9 DEF Clash
<1> QED
  BY <1>2, <1>3, <1>4, <1>5, <1>6, <1>7, <1>8, <1>9, CallHand DEF Next, Step

LEMMA InitHand == Init => HandInv
  BY DEF Init, HandInv

\* Identifiers are found once and pages are mapped once, in every reachable state:
\* find_file_desc and find_mmap_desc have one answer.
THEOREM TablesInOrder == Spec => []TablesInv
<1>1. Spec => []LockInv
  BY InitLock, NextLock, PTL DEF Spec
<1>2. Spec => [](TablesInv /\ HandInv)
  BY <1>1, InitTables, InitHand, NextTables, NextHand, PTL DEF Spec
<1> QED
  BY <1>2, PTL
-------------------------------------------------------------------------------
(* What a program stores in a mapped page.                                 *)

\* What was stored is in the entry, which knows it: an eviction moves what the
\* page table says of the page to the entry before the page table forgets it.
StoredInv ==
  /\ last \in [Procs -> [Pages -> Value \union {None}]]
  /\ \A p \in Procs, u \in Pages : last[p][u] # None => Stored(page[p][u], last[p][u])

LEMMA StoredStays ==
  ASSUME StoredInv, page' = page, last' = last
  PROVE  StoredInv'
  BY DEF StoredInv

\* A step on the entry of page u of p.
LEMMA StoredEntry ==
  ASSUME TablesInv, StoredInv, NEW p \in Procs, NEW u \in Pages, NEW e,
         NEW w \in Value \union {None},
         page' = [page EXCEPT ![p][u] = e], last' = [last EXCEPT ![p][u] = w],
         w # None => Stored(e, w)
  PROVE  StoredInv'
<1>1. /\ last' \in [Procs -> [Pages -> Value \union {None}]]
      /\ \A q \in Procs, v \in Pages :
           last'[q][v] = IF q = p /\ v = u THEN w ELSE last[q][v]
  BY DEF StoredInv
<1>2. \A q \in Procs, v \in Pages :
        page'[q][v] = IF q = p /\ v = u THEN e ELSE page[q][v]
  BY DEF TablesInv
<1>3. ASSUME NEW q \in Procs, NEW v \in Pages, last'[q][v] # None
      PROVE  Stored(page'[q][v], last'[q][v])
  <2>1. CASE q = p /\ v = u
    <3>1. page'[q][v] = e /\ last'[q][v] = w
      BY <1>1, <1>2, <2>1
    <3> QED
      BY <1>3, <3>1
  <2>2. CASE ~(q = p /\ v = u)
    <3>1. page'[q][v] = page[q][v] /\ last'[q][v] = last[q][v]
      BY <1>1, <1>2, <2>2
    <3>2. Stored(page[q][v], last[q][v])
      BY <1>3, <3>1 DEF StoredInv
    <3> QED
      BY <3>1, <3>2
  <2> QED
    BY <2>1, <2>2
<1>4. (\A q \in Procs, v \in Pages : last[q][v] # None => Stored(page[q][v], last[q][v]))'
  BY <1>3 DEF Stored, IsDirty
<1> QED
  BY <1>1, <1>4 DEF StoredInv

\* A step on that entry which forgets nothing of what was stored.
LEMMA EntryStored ==
  ASSUME TablesInv, StoredInv, NEW p \in Procs, NEW u \in Pages, NEW e,
         page' = [page EXCEPT ![p][u] = e], last' = last,
         \A v : Stored(page[p][u], v) => Stored(e, v)
  PROVE  StoredInv'
<1>1. PICK w \in Value \union {None} : w = last[p][u]
  BY DEF StoredInv
<1>2. last' = [last EXCEPT ![p][u] = w]
  BY <1>1 DEF StoredInv
<1>3. w # None => Stored(page[p][u], w)
  BY <1>1 DEF StoredInv
<1>4. w # None => Stored(e, w)
  BY <1>3
<1> QED
  BY <1>2, <1>4, StoredEntry

\* A mapping begins with nothing stored in its page.
LEMMA MmapStored ==
  ASSUME TablesInv, StoredInv, NEW p \in Procs, NEW id, NEW u \in Pages, sys_mmap(p, id, u)
  PROVE  StoredInv'
<1>1. last' = last
  BY DEF sys_mmap
<1>2. CASE page' = page
  BY <1>1, <1>2, StoredStays
<1>3. CASE page' # page
  <2>1. page[p][u] = NoPage
    BY <1>3, MmapIs
  <2>2. PICK e : page' = [page EXCEPT ![p][u] = e]
    BY <1>3, MmapIs
  <2>3. \A v : ~Stored(page[p][u], v)
    BY <2>1 DEF NoPage, Stored, IsDirty
  <2> QED
    BY <1>1, <2>2, <2>3, EntryStored
<1> QED
  BY <1>2, <1>3

LEMMA NextStored == TablesInv /\ StoredInv /\ [Next]_vars => StoredInv'
<1> SUFFICES ASSUME TablesInv, StoredInv, [Next]_vars PROVE StoredInv'
  OBVIOUS
<1>1. CASE UNCHANGED vars
  BY <1>1, StoredStays DEF vars
<1>2. ASSUME NEW p \in Procs,
             \/ Trap(p) \/ Exit(p) \/ Acquire(p) \/ Opened(p) \/ Removed(p) \/ Loaded(p)
             \/ ExitClose(p) \/ ExitFree(p) \/ ExitMaps(p) \/ input_getc(p) \/ Clash(p)
      PROVE  StoredInv'
  BY <1>2, StoredStays DEF Trap, Exit, Acquire, Opened, Removed, Loaded, ExitClose,
     ExitFree, ExitMaps, input_getc, Clash
<1>3. ASSUME NEW p \in Procs, Call(p) PROVE StoredInv'
  <2>1. CASE page' = page /\ last' = last
    BY <2>1, StoredStays
  <2>2. CASE ~(page' = page /\ last' = last)
    <3>1. \E id \in Ids, u \in Pages : sys_mmap(p, id, u)
      BY <1>3, <2>2 DEF Call, sys_create, sys_remove, sys_open, sys_close, sys_seek,
                        sys_isdir, sys_write, sys_munmap, sys_exec, sys_read
    <3> QED
      BY <3>1, MmapStored
  <2> QED
    BY <2>1, <2>2
<1>4. ASSUME NEW p \in Procs, PinFrame(p) PROVE StoredInv'
  <2>1. PICK u \in Pages : u = MapOf(p).page
    BY <1>4, MapFound DEF PinFrame, Mappings
  <2>2. CASE page' = page
    BY <1>4, <2>2, StoredStays DEF PinFrame
  <2>3. CASE page' # page
    <3>1. /\ page[p][u].status = "frame" /\ last' = last
          /\ page' = [page EXCEPT ![p][u].pinned = TRUE]
      BY <1>4, <2>1, <2>3 DEF PinFrame
    <3>2. PICK e : /\ page' = [page EXCEPT ![p][u] = e]
                   /\ \A v : Stored(page[p][u], v) => Stored(e, v)
      BY <3>1, PinIs
    <3>3. last' = last
      BY <3>1
    <3> QED
      BY <3>2, <3>3, EntryStored
  <2> QED
    BY <2>2, <2>3
<1>5. ASSUME NEW p \in Procs, Unmap(p) PROVE StoredInv'
  <2>1. PICK u \in Pages : u = MapOf(p).page
    BY <1>5, MapFound DEF Unmap, Mappings
  <2>2. page' = [page EXCEPT ![p][u] = NoPage] /\ last' = [last EXCEPT ![p][u] = None]
    BY <1>5, <2>1 DEF Unmap
  <2> QED
    BY <2>2, StoredEntry
<1>6. ASSUME NEW p \in Procs, NEW u \in Pages, Load(p, u) \/ Evict(p, u) PROVE StoredInv'
  <2>1. last' = last
    BY <1>6 DEF Load, Evict
  <2>2. PICK e : /\ page' = [page EXCEPT ![p][u] = e]
                 /\ \A v : Stored(page[p][u], v) => Stored(e, v)
    BY <1>6, LoadIs, EvictIs
  <2> QED
    BY <2>1, <2>2, EntryStored
<1>7. ASSUME NEW p \in Procs, NEW u \in Pages, NEW v \in Value, Store(p, u, v)
      PROVE  StoredInv'
  <2>1. last' = [last EXCEPT ![p][u] = v]
    BY <1>7 DEF Store
  <2>2. PICK e : page' = [page EXCEPT ![p][u] = e] /\ Stored(e, v)
    BY <1>7, StoreIs
  <2> QED
    BY <2>1, <2>2, StoredEntry
<1> QED
  BY <1>1, <1>2, <1>3, <1>4, <1>5, <1>6, <1>7 DEF Next, Step

\* An unmapping leaves the other mappings to their pages.
LEMMA UnmapWrites ==
  ASSUME TablesInv, StoredInv, NEW q \in Procs, Unmap(q),
         NEW p \in Procs, NEW u \in Pages, NEW f \in Mapped(p, u), Mapped(p, u)' = {},
         last[p][u] # None, file'[f] # Gone
  PROVE  file'[f].value = last[p][u]
<1>1. PICK k \in DOMAIN maps[q], r \in Seq(Mappings) :
        /\ maps[q][k] = MapOf(q) /\ MapOf(q) \in Mappings
        /\ maps' = [maps EXCEPT ![q] = r] /\ maps'[q] = r /\ Lacks(maps[q], k, r)
  BY UnmapIs
<1>2. PICK i \in DOMAIN maps[p] : maps[p][i].page = u /\ maps[p][i].file = f
  BY DEF Mapped
<1>3. \A j \in DOMAIN maps'[p] : maps'[p][j].page # u
  BY DEF Mapped
<1>4. p = q
  <2>1. p # q => maps'[p] = maps[p]
    BY <1>1 DEF TablesInv
  <2> QED
    BY <1>2, <1>3, <2>1
<1>5. i = k
  <2>1. ASSUME i # k PROVE FALSE
    <3>1. PICK j \in DOMAIN r : r[j] = maps[p][i]
      BY <1>1, <1>2, <1>4, <2>1 DEF Lacks
    <3> QED
      BY <1>1, <1>2, <1>3, <1>4, <3>1
  <2> QED
    BY <2>1
<1>6. MapOf(q).page = u /\ MapOf(q).file = f /\ f \in Files
  BY <1>1, <1>2, <1>4, <1>5 DEF Mappings
<1>7. PICK b \in FileStates :
        /\ IsDirty(page[q][MapOf(q).page]) => b.value = page[q][MapOf(q).page].value
        /\ file' = [file EXCEPT ![MapOf(q).file] = Closed(b, 1)]
  BY <1>1, UnmapFile
<1>8. IsDirty(page[p][u]) /\ page[p][u].value = last[p][u]
  BY DEF StoredInv, Stored
<1>9. b.value = last[p][u]
  BY <1>4, <1>6, <1>7, <1>8
<1>10. file'[f] = Closed(b, 1)
  BY <1>6, <1>7 DEF TablesInv
<1> QED
  BY <1>9, <1>10, ClosedTyped

\* What WrittenBack says of one step.
WritesBack ==
  \A p \in Procs, u \in Pages, f \in Files :
    /\ f \in Mapped(p, u) /\ Mapped(p, u)' = {}
    /\ last[p][u] # None /\ file'[f] # Gone
    => file'[f].value = last[p][u]

LEMMA NextWrites == TablesInv /\ StoredInv /\ [Next]_vars => [WritesBack]_vars
<1> SUFFICES ASSUME TablesInv, StoredInv, Next,
                    NEW p \in Procs, NEW u \in Pages, NEW f \in Mapped(p, u),
                    Mapped(p, u)' = {}, last[p][u] # None, file'[f] # Gone
             PROVE  file'[f].value = last[p][u]
  BY DEF WritesBack
<1>1. maps' # maps
  BY DEF Mapped
<1>2. ASSUME NEW q \in Procs, NEW id, NEW v \in Pages, sys_mmap(q, id, v) PROVE FALSE
  <2>1. maps[q] \in Seq(Mappings)
    BY DEF TablesInv
  <2>2. PICK r \in Seq(Mappings) :
          /\ Len(r) = Len(maps[q]) + 1 /\ \A i \in DOMAIN maps[q] : r[i] = maps[q][i]
          /\ maps' = [maps EXCEPT ![q] = r]
    BY <1>1, <1>2, MmapIs
  <2>3. PICK i \in DOMAIN maps[p] : maps[p][i].page = u
    BY DEF Mapped
  <2>4. i \in DOMAIN maps'[p] /\ maps'[p][i] = maps[p][i]
    <3>1. CASE p = q
      BY <2>1, <2>2, <2>3, <3>1 DEF TablesInv
    <3>2. CASE p # q
      BY <2>2, <2>3, <3>2 DEF TablesInv
    <3> QED
      BY <3>1, <3>2
  <2> QED
    BY <2>3, <2>4 DEF Mapped
<1>3. ASSUME NEW q \in Procs, Call(q) PROVE FALSE
  BY <1>1, <1>2, <1>3 DEF Call, sys_create, sys_remove, sys_open, sys_close, sys_seek,
     sys_isdir, sys_write, sys_munmap, sys_exec, sys_read
<1>4. ASSUME NEW q \in Procs,
             \/ Trap(q) \/ Exit(q) \/ Acquire(q) \/ Opened(q) \/ Removed(q) \/ PinFrame(q)
             \/ Loaded(q) \/ ExitClose(q) \/ ExitFree(q) \/ ExitMaps(q)
             \/ input_getc(q) \/ Clash(q)
      PROVE  FALSE
  BY <1>1, <1>4 DEF Trap, Exit, Acquire, Opened, Removed, PinFrame, Loaded, ExitClose,
     ExitFree, ExitMaps, input_getc, Clash
<1>5. ASSUME NEW q \in Procs, NEW v \in Pages,
             Load(q, v) \/ Evict(q, v) \/ \E w \in Value : Store(q, v, w)
      PROVE  FALSE
  BY <1>1, <1>5 DEF Load, Evict, Store
<1>6. PICK q \in Procs : Unmap(q)
  BY <1>3, <1>4, <1>5 DEF Next, Step
<1> QED
  BY <1>6, UnmapWrites

LEMMA InitStored == Init => StoredInv
  BY DEF Init, StoredInv

\* Whether a mapping goes by munmap or by exit, and wherever its page is then, its
\* file holds what the program last stored in it (vm_supt_mm_unmap).
THEOREM WritesReachFiles == Spec => WrittenBack
<1>1. Spec => []LockInv
  BY InitLock, NextLock, PTL DEF Spec
<1>2. Spec => [](TablesInv /\ HandInv /\ StoredInv)
  BY <1>1, InitTables, NextTables, InitHand, NextHand, InitStored, NextStored, PTL DEF Spec
<1>3. Spec => [][WritesBack]_vars
  BY <1>2, NextWrites, PTL DEF Spec
<1> QED
  BY <1>3 DEF WrittenBack, WritesBack
-------------------------------------------------------------------------------
(* Openers, descriptors and mappings.                                      *)

\* A file has an opener for every descriptor and mapping, and they can be counted.
CountInv ==
  /\ FilesCounted
  /\ \A f \in Files : IsFiniteSet(Descriptors(f)) /\ file[f].opens \in Nat

\* The step gives f as many openers as descriptors and mappings.
Balanced(f) ==
  /\ IsFiniteSet(Descriptors(f)')
  /\ file'[f].opens + Cardinality(Descriptors(f)) + Cardinality(MappedTo(f))
       = file[f].opens + Cardinality(Descriptors(f)') + Cardinality(MappedTo(f)')

\* There are finitely many mappings.
LEMMA MappingsFinite ==
  ASSUME NEW S \in SUBSET (Procs \X Pages)
  PROVE  IsFiniteSet(S) /\ Cardinality(S) \in Nat
<1>1. IsFiniteSet(Procs \X Pages)
  BY FiniteAssumption, FS_Product
<1>2. IsFiniteSet(S)
  BY <1>1, FS_Subset
<1> QED
  BY <1>2, FS_CardinalityType

\* The numbers are numbers.
LEMMA CountTypes ==
  ASSUME TablesInv, CountInv, ~broken, NEW f \in Files
  PROVE  /\ file[f].opens \in Int
         /\ IsFiniteSet(Descriptors(f)) /\ Cardinality(Descriptors(f)) \in Nat
         /\ IsFiniteSet(MappedTo(f)) /\ Cardinality(MappedTo(f)) \in Nat
         /\ MappedTo(f)' \in SUBSET (Procs \X Pages) /\ Cardinality(MappedTo(f)') \in Nat
         /\ file[f].opens >= Cardinality(Descriptors(f)) + Cardinality(MappedTo(f))
         /\ \/ file[f].opens = Cardinality(Descriptors(f)) + Cardinality(MappedTo(f))
            \/ mislaid
<1>1. file[f].opens \in Int
  <2>1. file[f] \in FileStates
    BY DEF TablesInv
  <2> QED
    BY <2>1 DEF FileStates
<1>2. MappedTo(f) \in SUBSET (Procs \X Pages) /\ MappedTo(f)' \in SUBSET (Procs \X Pages)
  BY DEF MappedTo
<1>3. IsFiniteSet(Descriptors(f)) /\ Cardinality(Descriptors(f)) \in Nat
  BY FS_CardinalityType DEF CountInv
<1>4. IsFiniteSet(MappedTo(f)) /\ Cardinality(MappedTo(f)) \in Nat
  BY <1>2, MappingsFinite
<1>5. Cardinality(MappedTo(f)') \in Nat
  BY <1>2, MappingsFinite
<1>6. /\ file[f].opens >= Cardinality(Descriptors(f)) + Cardinality(MappedTo(f))
      /\ \/ file[f].opens = Cardinality(Descriptors(f)) + Cardinality(MappedTo(f))
         \/ mislaid
  BY DEF CountInv, FilesCounted, OpenersKnown
<1> QED
  BY <1>1, <1>2, <1>3, <1>4, <1>5, <1>6

\* A step that is balanced for every file.
LEMMA CountStep ==
  ASSUME TablesInv, TablesInv', CountInv, ~broken, mislaid => mislaid',
         \A f \in Files : Balanced(f)
  PROVE  CountInv'
<1>1. ASSUME NEW f \in Files
      PROVE  /\ file'[f].opens >= Cardinality(Descriptors(f)') + Cardinality(MappedTo(f)')
             /\ \/ file'[f].opens = Cardinality(Descriptors(f)') + Cardinality(MappedTo(f)')
                \/ mislaid'
             /\ IsFiniteSet(Descriptors(f)') /\ file'[f].opens \in Nat
  <2>1. IsFiniteSet(Descriptors(f)') /\ Cardinality(Descriptors(f)') \in Nat
    BY FS_CardinalityType DEF Balanced
  <2>2. file'[f].opens + Cardinality(Descriptors(f)) + Cardinality(MappedTo(f))
          = file[f].opens + Cardinality(Descriptors(f)') + Cardinality(MappedTo(f)')
    BY DEF Balanced
  <2>3. file'[f].opens \in Int
    <3>1. file'[f] \in FileStates
      BY DEF TablesInv
    <3> QED
      BY <3>1 DEF FileStates
  <2>4. PICK a \in Int, b \in Nat, c \in Nat, d \in Int, x \in Nat, y \in Nat :
          /\ a = file[f].opens /\ b = Cardinality(Descriptors(f)) /\ c = Cardinality(MappedTo(f))
          /\ d = file'[f].opens
          /\ x = Cardinality(Descriptors(f)') /\ y = Cardinality(MappedTo(f)')
    BY <2>1, <2>3, CountTypes
  <2>5. a >= b + c /\ (a = b + c \/ mislaid) /\ d + b + c = a + x + y
    BY <2>2, <2>4, CountTypes
  <2>6. d >= x + y /\ (d = x + y \/ mislaid') /\ d \in Nat
    BY <2>5
  <2> QED
    BY <2>1, <2>4, <2>6
<1> QED
  BY <1>1 DEF CountInv, FilesCounted, OpenersKnown

\* A step that leaves the lists and the numbers of openers alone.
LEMMA CountStays ==
  ASSUME CountInv, fds' = fds, maps' = maps, mislaid' = mislaid, broken => broken',
         \A f \in Files : file'[f].opens = file[f].opens
  PROVE  CountInv'
<1>1. ASSUME NEW f \in Files
      PROVE  Descriptors(f)' = Descriptors(f) /\ MappedTo(f)' = MappedTo(f)
  BY DEF Descriptors, MappedTo
<1>2. \A f \in Files : IsFiniteSet(Descriptors(f)') /\ file'[f].opens \in Nat
  BY <1>1 DEF CountInv
<1>3. ASSUME OpenersKnown PROVE OpenersKnown'
  BY <1>1, <1>3 DEF OpenersKnown
<1>4. ~broken' => OpenersKnown'
  BY <1>3 DEF CountInv, FilesCounted
<1> QED
  BY <1>2, <1>4 DEF CountInv, FilesCounted

\* What Descriptors says of a table t of descriptors.
Pairs(t, f) ==
  UNION {{<< p, t[p][i].id >> : i \in {j \in DOMAIN t[p] : t[p][j].file = f}} : p \in Procs}

LEMMA PairsAre ==
  ASSUME NEW t, NEW f, NEW x
  PROVE  x \in Pairs(t, f) <=>
           \E p \in Procs : \E i \in DOMAIN t[p] : t[p][i].file = f /\ x = << p, t[p][i].id >>
<1>1. ASSUME x \in Pairs(t, f)
      PROVE  \E p \in Procs : \E i \in DOMAIN t[p] : t[p][i].file = f /\ x = << p, t[p][i].id >>
  <2>1. PICK p \in Procs :
          x \in {<< p, t[p][i].id >> : i \in {j \in DOMAIN t[p] : t[p][j].file = f}}
    BY <1>1 DEF Pairs
  <2> QED
    BY <2>1
<1>2. ASSUME NEW p \in Procs, NEW i \in DOMAIN t[p],
             t[p][i].file = f, x = << p, t[p][i].id >>
      PROVE  x \in Pairs(t, f)
  <2>1. x \in {<< p, t[p][k].id >> : k \in {j \in DOMAIN t[p] : t[p][j].file = f}}
    BY <1>2
  <2> QED
    BY <2>1 DEF Pairs
<1> QED
  BY <1>1, <1>2

\* The same, of the state before a step and of the one after.
LEMMA DescriptorsAre ==
  ASSUME NEW f
  PROVE  /\ \A x : x \in Descriptors(f) <=>
              \E p \in Procs : \E i \in DOMAIN fds[p] :
                fds[p][i].file = f /\ x = << p, fds[p][i].id >>
         /\ \A x : x \in Descriptors(f)' <=>
              \E p \in Procs : \E i \in DOMAIN fds'[p] :
                fds'[p][i].file = f /\ x = << p, fds'[p][i].id >>
<1>1. Descriptors(f) = Pairs(fds, f) /\ Descriptors(f)' = Pairs(fds', f)
  BY DEF Descriptors, Pairs
<1>2. ASSUME NEW x
      PROVE  x \in Descriptors(f) <=> \E p \in Procs : \E i \in DOMAIN fds[p] :
               fds[p][i].file = f /\ x = << p, fds[p][i].id >>
  BY <1>1, PairsAre
<1>3. ASSUME NEW x
      PROVE  x \in Descriptors(f)' <=> \E p \in Procs : \E i \in DOMAIN fds'[p] :
               fds'[p][i].file = f /\ x = << p, fds'[p][i].id >>
  BY <1>1, PairsAre
<1> QED
  BY <1>2, <1>3

\* An entry is appended to the descriptors of p.
LEMMA DescriptorsGrow ==
  ASSUME TablesInv, NEW p \in Procs, NEW d, NEW r \in Seq(Entries),
         Find(fds[p], d.id) = {}, Len(r) = Len(fds[p]) + 1, r[Len(fds[p]) + 1] = d,
         \A i \in DOMAIN fds[p] : r[i] = fds[p][i], fds' = [fds EXCEPT ![p] = r],
         NEW f
  PROVE  /\ << p, d.id >> \notin Descriptors(f)
         /\ Descriptors(f)' = IF f = d.file THEN Descriptors(f) \union {<< p, d.id >>} ELSE Descriptors(f)
<1>1. PICK n \in Nat : n = Len(fds[p]) /\ DOMAIN fds[p] = 1 .. n /\ DOMAIN r = 1 .. n + 1
  BY DEF TablesInv
<1>2. /\ fds'[p] = r /\ r[n + 1] = d /\ \A i \in 1 .. n : r[i] = fds[p][i]
      /\ \A q \in Procs : q # p => fds'[q] = fds[q]
  BY <1>1 DEF TablesInv
<1>3. << p, d.id >> \notin Descriptors(f)
  BY DescriptorsAre DEF Find
<1>4. ASSUME NEW x \in Descriptors(f) PROVE x \in Descriptors(f)'
  <2>0. PICK q \in Procs :
          \E i \in DOMAIN fds[q] : fds[q][i].file = f /\ x = << q, fds[q][i].id >>
    BY DescriptorsAre
  <2>1. PICK i \in DOMAIN fds[q] : fds[q][i].file = f /\ x = << q, fds[q][i].id >>
    BY <2>0
  <2>2. i \in DOMAIN fds'[q] /\ fds'[q][i] = fds[q][i]
    <3>1. CASE q = p
      BY <1>1, <1>2, <2>1, <3>1
    <3>2. CASE q # p
      BY <1>2, <2>1, <3>2
    <3> QED
      BY <3>1, <3>2
  <2> QED
    BY <2>1, <2>2, DescriptorsAre
<1>5. ASSUME f = d.file PROVE << p, d.id >> \in Descriptors(f)'
  <2>1. n + 1 \in DOMAIN fds'[p] /\ fds'[p][n + 1] = d
    BY <1>1, <1>2
  <2> QED
    BY <1>5, <2>1, DescriptorsAre
<1>6. ASSUME NEW x \in Descriptors(f)', x \notin Descriptors(f) PROVE f = d.file /\ x = << p, d.id >>
  <2>0. PICK q \in Procs :
          \E i \in DOMAIN fds'[q] : fds'[q][i].file = f /\ x = << q, fds'[q][i].id >>
    BY DescriptorsAre
  <2>1. PICK i \in DOMAIN fds'[q] : fds'[q][i].file = f /\ x = << q, fds'[q][i].id >>
    BY <2>0
  <2>2. ~(i \in DOMAIN fds[q] /\ fds'[q][i] = fds[q][i])
    BY <1>6, <2>1, DescriptorsAre
  <2>3. q = p
    BY <1>2, <2>1, <2>2
  <2>4. i = n + 1
    BY <1>1, <1>2, <2>1, <2>2, <2>3
  <2> QED
    BY <1>2, <2>1, <2>3, <2>4
<1> QED
  BY <1>3, <1>4, <1>5, <1>6

\* An entry is taken from the descriptors of p.
LEMMA DescriptorsShrink ==
  ASSUME TablesInv, NEW p \in Procs, NEW k \in DOMAIN fds[p], NEW r,
         Lacks(fds[p], k, r), fds' = [fds EXCEPT ![p] = r], NEW f
  PROVE  /\ << p, fds[p][k].id >> \in Descriptors(f) <=> fds[p][k].file = f
         /\ Descriptors(f)' = Descriptors(f) \ {<< p, fds[p][k].id >>}
<1>1. /\ fds'[p] = r /\ \A q \in Procs : q # p => fds'[q] = fds[q]
      /\ \A j \in DOMAIN r : \E i \in DOMAIN fds[p] \ {k} : r[j] = fds[p][i]
      /\ \A i \in DOMAIN fds[p] \ {k} : \E j \in DOMAIN r : r[j] = fds[p][i]
  BY DEF TablesInv, Lacks
<1>2. \A i \in DOMAIN fds[p] : fds[p][i].id = fds[p][k].id => i = k
  <2>1. Rising(fds[p]) /\ DOMAIN fds[p] \in SUBSET Nat
    BY DEF TablesInv
  <2>2. ASSUME NEW i \in DOMAIN fds[p], i # k PROVE fds[p][i].id # fds[p][k].id
    <3>1. i < k \/ k < i
      BY <2>1, <2>2
    <3> QED
      BY <2>1, <3>1 DEF Rising
  <2> QED
    BY <2>2
<1>3. << p, fds[p][k].id >> \in Descriptors(f) <=> fds[p][k].file = f
  BY <1>2, DescriptorsAre
<1>4. ASSUME NEW x \in Descriptors(f)' PROVE x \in Descriptors(f) /\ x # << p, fds[p][k].id >>
  <2>0. PICK q \in Procs :
          \E j \in DOMAIN fds'[q] : fds'[q][j].file = f /\ x = << q, fds'[q][j].id >>
    BY DescriptorsAre
  <2>1. PICK j \in DOMAIN fds'[q] : fds'[q][j].file = f /\ x = << q, fds'[q][j].id >>
    BY <2>0
  <2>2. CASE q # p
    BY <1>1, <2>1, <2>2, DescriptorsAre
  <2>3. CASE q = p
    <3>1. PICK i \in DOMAIN fds[p] \ {k} : fds'[q][j] = fds[p][i]
      BY <1>1, <2>1, <2>3
    <3> QED
      BY <1>2, <2>1, <2>3, <3>1, DescriptorsAre
  <2> QED
    BY <2>2, <2>3
<1>5. ASSUME NEW x \in Descriptors(f), x # << p, fds[p][k].id >> PROVE x \in Descriptors(f)'
  <2>0. PICK q \in Procs :
          \E i \in DOMAIN fds[q] : fds[q][i].file = f /\ x = << q, fds[q][i].id >>
    BY DescriptorsAre
  <2>1. PICK i \in DOMAIN fds[q] : fds[q][i].file = f /\ x = << q, fds[q][i].id >>
    BY <2>0
  <2>2. \E j \in DOMAIN fds'[q] : fds'[q][j] = fds[q][i]
    <3>1. CASE q # p
      BY <1>1, <2>1, <3>1
    <3>2. CASE q = p
      BY <1>1, <1>5, <2>1, <3>2
    <3> QED
      BY <3>1, <3>2
  <2> QED
    BY <2>1, <2>2, DescriptorsAre
<1> QED
  BY <1>3, <1>4, <1>5
\* A mapping of a page that had none is appended to those of p.
LEMMA MappedGrows ==
  ASSUME TablesInv, NEW p \in Procs, NEW d \in Mappings, NEW r \in Seq(Mappings),
         page[p][d.page] = NoPage, Len(r) = Len(maps[p]) + 1, r[Len(maps[p]) + 1] = d,
         \A i \in DOMAIN maps[p] : r[i] = maps[p][i], maps' = [maps EXCEPT ![p] = r],
         NEW f
  PROVE  /\ << p, d.page >> \notin MappedTo(f)
         /\ MappedTo(f)' = IF f = d.file THEN MappedTo(f) \union {<< p, d.page >>}
                           ELSE MappedTo(f)
<1>1. PICK n \in Nat : n = Len(maps[p]) /\ DOMAIN maps[p] = 1 .. n /\ DOMAIN r = 1 .. n + 1
  BY DEF TablesInv
<1>2. /\ maps'[p] = r /\ r[n + 1] = d /\ \A i \in 1 .. n : r[i] = maps[p][i]
      /\ \A q \in Procs : q # p => maps'[q] = maps[q]
  BY <1>1 DEF TablesInv
<1>3. d.page \in Pages
  BY DEF Mappings
<1>4. \A i \in DOMAIN maps[p] : maps[p][i].page # d.page
  <2>1. page[p][d.page].status = "none"
    BY DEF NoPage
  <2> QED
    BY <1>3, <2>1 DEF TablesInv
<1>5. << p, d.page >> \notin MappedTo(f)
  BY <1>4 DEF MappedTo
<1>6. ASSUME NEW q \in Procs, NEW u \in Pages
      PROVE  << q, u >> \in MappedTo(f)'
               <=> << q, u >> \in MappedTo(f) \/ (q = p /\ u = d.page /\ f = d.file)
  <2>1. << q, u >> \in MappedTo(f) <=>
          \E i \in DOMAIN maps[q] : maps[q][i].page = u /\ maps[q][i].file = f
    BY DEF MappedTo
  <2>2. << q, u >> \in MappedTo(f)' <=>
          \E i \in DOMAIN maps'[q] : maps'[q][i].page = u /\ maps'[q][i].file = f
    BY DEF MappedTo
  <2>3. CASE q # p
    BY <1>2, <2>1, <2>2, <2>3
  <2>4. CASE q = p
    <3>1. (\E i \in DOMAIN r : r[i].page = u /\ r[i].file = f) <=>
            \/ \E i \in DOMAIN maps[p] : maps[p][i].page = u /\ maps[p][i].file = f
            \/ d.page = u /\ d.file = f
      BY <1>1, <1>2
    <3> QED
      BY <1>2, <2>1, <2>2, <2>4, <3>1
  <2> QED
    BY <2>3, <2>4
<1>7. /\ MappedTo(f) \in SUBSET (Procs \X Pages) /\ MappedTo(f)' \in SUBSET (Procs \X Pages)
      /\ << p, d.page >> \in Procs \X Pages
  BY <1>3 DEF MappedTo
<1>8. ASSUME NEW x \in Procs \X Pages
      PROVE  x \in MappedTo(f)' <=> x \in MappedTo(f) \/ (x = << p, d.page >> /\ f = d.file)
  <2>1. PICK q \in Procs, u \in Pages : x = << q, u >>
    OBVIOUS
  <2> QED
    BY <1>6, <2>1
<1> QED
  BY <1>5, <1>7, <1>8

\* A mapping is taken from those of p.
LEMMA MappedShrinks ==
  ASSUME TablesInv, NEW p \in Procs, NEW k \in DOMAIN maps[p], NEW r,
         maps[p][k] \in Mappings,
         Lacks(maps[p], k, r), maps' = [maps EXCEPT ![p] = r], NEW f
  PROVE  /\ << p, maps[p][k].page >> \in MappedTo(f) <=> maps[p][k].file = f
         /\ MappedTo(f)' = MappedTo(f) \ {<< p, maps[p][k].page >>}
<1>1. /\ maps'[p] = r /\ \A q \in Procs : q # p => maps'[q] = maps[q]
      /\ \A j \in DOMAIN r : \E i \in DOMAIN maps[p] \ {k} : r[j] = maps[p][i]
      /\ \A i \in DOMAIN maps[p] \ {k} : \E j \in DOMAIN r : r[j] = maps[p][i]
  BY DEF TablesInv, Lacks
<1>2. \A i \in DOMAIN maps[p] : maps[p][i].page = maps[p][k].page => i = k
  BY DEF TablesInv, Disjoint
<1>3. maps[p][k].page \in Pages
  BY DEF Mappings
<1>4. << p, maps[p][k].page >> \in MappedTo(f) <=> maps[p][k].file = f
  BY <1>2, <1>3 DEF MappedTo
<1>5. ASSUME NEW q \in Procs, NEW u \in Pages
      PROVE  << q, u >> \in MappedTo(f)'
               <=> << q, u >> \in MappedTo(f) /\ ~(q = p /\ u = maps[p][k].page)
  <2>1. << q, u >> \in MappedTo(f) <=>
          \E i \in DOMAIN maps[q] : maps[q][i].page = u /\ maps[q][i].file = f
    BY DEF MappedTo
  <2>2. << q, u >> \in MappedTo(f)' <=>
          \E i \in DOMAIN maps'[q] : maps'[q][i].page = u /\ maps'[q][i].file = f
    BY DEF MappedTo
  <2>3. CASE q # p
    BY <1>1, <2>1, <2>2, <2>3
  <2>4. CASE q = p
    <3>1. (\E j \in DOMAIN r : r[j].page = u /\ r[j].file = f) <=>
            \E i \in DOMAIN maps[p] \ {k} : maps[p][i].page = u /\ maps[p][i].file = f
      BY <1>1
    <3> QED
      BY <1>1, <1>2, <2>1, <2>2, <2>4, <3>1
  <2> QED
    BY <2>3, <2>4
<1>6. /\ MappedTo(f) \in SUBSET (Procs \X Pages) /\ MappedTo(f)' \in SUBSET (Procs \X Pages)
      /\ << p, maps[p][k].page >> \in Procs \X Pages
  BY <1>3 DEF MappedTo
<1>7. ASSUME NEW x \in Procs \X Pages
      PROVE  x \in MappedTo(f)' <=> x \in MappedTo(f) /\ x # << p, maps[p][k].page >>
  <2>1. PICK q \in Procs, u \in Pages : x = << q, u >>
    OBVIOUS
  <2> QED
    BY <1>5, <2>1
<1> QED
  BY <1>4, <1>6, <1>7

\* A step gives f an opener and p a descriptor for it.
LEMMA GivenCounts ==
  ASSUME TablesInv, TablesInv', CountInv, ~broken, NEW p \in Procs, NEW f \in Files,
         fds' = WithDesc(p, f), maps' = maps, mislaid' = mislaid,
         NEW n, n = file[f].opens + 1, OpensAre(file', file, f, n)
  PROVE  CountInv'
<1>1. PICK d \in Entries, r \in Seq(Entries) :
        /\ d.file = f /\ Find(fds[p], d.id) = {}
        /\ Len(r) = Len(fds[p]) + 1 /\ r[Len(fds[p]) + 1] = d
        /\ \A i \in DOMAIN fds[p] : r[i] = fds[p][i]
        /\ fds' = [fds EXCEPT ![p] = r]
  BY DescGiven
<1>2. ASSUME NEW g \in Files PROVE Balanced(g)
  <2>1. /\ << p, d.id >> \notin Descriptors(g)
        /\ Descriptors(g)' = IF g = f THEN Descriptors(g) \union {<< p, d.id >>}
                              ELSE Descriptors(g)
    <3>1. /\ Find(fds[p], d.id) = {} /\ Len(r) = Len(fds[p]) + 1
          /\ r[Len(fds[p]) + 1] = d /\ \A i \in DOMAIN fds[p] : r[i] = fds[p][i]
          /\ fds' = [fds EXCEPT ![p] = r]
      BY <1>1
    <3>2. /\ << p, d.id >> \notin Descriptors(g)
          /\ Descriptors(g)' = IF g = d.file THEN Descriptors(g) \union {<< p, d.id >>}
                                ELSE Descriptors(g)
      BY ONLY TablesInv, <3>1, p \in Procs, r \in Seq(Entries), DescriptorsGrow
    <3> QED
      BY <1>1, <3>2
  <2>2. MappedTo(g)' = MappedTo(g)
    BY DEF MappedTo
  <2>3. /\ file[g].opens \in Int
        /\ IsFiniteSet(Descriptors(g)) /\ Cardinality(Descriptors(g)) \in Nat
        /\ Cardinality(MappedTo(g)) \in Nat
    BY CountTypes
  <2>4. CASE g = f
    <3>1. /\ IsFiniteSet(Descriptors(g)')
          /\ Cardinality(Descriptors(g)') = Cardinality(Descriptors(g)) + 1
      <4>1. PICK x : x = << p, d.id >>
        OBVIOUS
      <4>2. x \notin Descriptors(g) /\ Descriptors(g)' = Descriptors(g) \union {x}
        BY <2>1, <2>4, <4>1
      <4> QED
        BY <2>3, <4>2, FS_AddElement
    <3>2. file'[g].opens = file[g].opens + 1
      BY <2>4 DEF OpensAre
    <3>3. PICK a \in Int, b \in Nat, c \in Nat :
            /\ a = file[g].opens /\ b = Cardinality(Descriptors(g))
            /\ c = Cardinality(MappedTo(g))
      BY <2>3
    <3>4. /\ file'[g].opens = a + 1 /\ Cardinality(Descriptors(g)') = b + 1
          /\ Cardinality(MappedTo(g)') = c
      BY <2>2, <3>1, <3>2, <3>3
    <3>5. (a + 1) + b + c = a + (b + 1) + c
      OBVIOUS
    <3>6. file'[g].opens + Cardinality(Descriptors(g)) + Cardinality(MappedTo(g))
            = file[g].opens + Cardinality(Descriptors(g)') + Cardinality(MappedTo(g)')
      BY <3>3, <3>4, <3>5
    <3> QED
      BY <3>1, <3>6 DEF Balanced
  <2>5. CASE g # f
    <3>1. file'[g] = file[g]
      BY <2>5 DEF OpensAre
    <3> QED
      BY <2>1, <2>2, <2>3, <2>5, <3>1 DEF Balanced
  <2> QED
    BY <2>4, <2>5
<1> QED
  BY <1>2, CountStep

\* sys_open, of a file that is not open.
LEMMA OpenCounts ==
  ASSUME TablesInv, TablesInv', CountInv, ~broken, NEW p \in Procs, NEW f \in Files,
         sys_open(p, f)
  PROVE  CountInv'
<1>1. maps' = maps /\ mislaid' = mislaid /\ broken' = broken
  BY DEF sys_open, kept
<1>2. CASE UNCHANGED << file, fds >>
  BY <1>1, <1>2, CountStays
<1>3. CASE ~UNCHANGED << file, fds >>
  <2>1. /\ fds' = WithDesc(p, f) /\ ~InMemory(f)
        /\ file' = [file EXCEPT ![f].opens = 1]
    BY <1>3, OpenIs
  <2>2. file[f].opens = 0
    BY <2>1 DEF InMemory, CountInv
  <2>3. 1 \in Int /\ 1 = file[f].opens + 1
    BY <2>2
  <2>4. OpensAre(file', file, f, 1)
    BY <2>1, <2>3, OpensChange
  <2> QED
    BY <1>1, <2>1, <2>3, <2>4, GivenCounts
<1> QED
  BY <1>2, <1>3

\* The rest of sys_open, of a file that is open; if it is no more, the machine is
\* broken.
LEMMA OpenedCounts ==
  ASSUME TablesInv, TablesInv', HandInv, CountInv, NEW p \in Procs, Opened(p)
  PROVE  CountInv'
<1>1. PICK f \in Files : f = hand[p]
  BY DEF HandInv, Opened
<1>2. maps' = maps /\ mislaid' = mislaid /\ fds' = WithDesc(p, f) /\ ~broken
  BY <1>1 DEF Opened, kept
<1>3. CASE broken'
  <2>1. file' = file
    BY <1>3 DEF Opened
  <2>2. PICK d \in Entries, r \in Seq(Entries) :
          /\ d.file = f /\ Find(fds[p], d.id) = {}
          /\ Len(r) = Len(fds[p]) + 1 /\ r[Len(fds[p]) + 1] = d
          /\ \A i \in DOMAIN fds[p] : r[i] = fds[p][i]
          /\ fds' = [fds EXCEPT ![p] = r]
    BY <1>2, DescGiven
  <2>3. ASSUME NEW g \in Files PROVE IsFiniteSet(Descriptors(g)')
    <3>1. Descriptors(g)' = IF g = d.file THEN Descriptors(g) \union {<< p, d.id >>}
                            ELSE Descriptors(g)
      BY <2>2, DescriptorsGrow
    <3>2. IsFiniteSet(Descriptors(g))
      BY DEF CountInv
    <3> QED
      BY <3>1, <3>2, FS_AddElement
  <2> QED
    BY <1>3, <2>1, <2>3 DEF CountInv, FilesCounted
<1>4. CASE ~broken'
  <2>1. PICK n \in Int : n = file[f].opens + 1
    BY OpensInt
  <2>2. file' = [file EXCEPT ![f].opens = n]
    BY <1>1, <1>4, <2>1 DEF Opened
  <2>3. OpensAre(file', file, f, n)
    BY <2>2, OpensChange
  <2> QED
    BY <1>2, <2>1, <2>3, GivenCounts
<1> QED
  BY <1>3, <1>4

\* A step takes an opener of f and the descriptor k of p for it.
LEMMA TakenCounts ==
  ASSUME TablesInv, TablesInv', CountInv, ~broken, NEW p \in Procs, NEW f \in Files,
         NEW k \in DOMAIN fds[p], f = fds[p][k].file,
         NEW r, Lacks(fds[p], k, r), fds' = [fds EXCEPT ![p] = r],
         maps' = maps, mislaid' = mislaid,
         file[f].opens >= 1 => file'[f].opens = file[f].opens - 1,
         \A g \in Files : g # f => file'[g] = file[g]
  PROVE  CountInv'
<1>1. ASSUME NEW g \in Files PROVE Balanced(g)
  <2>0. PICK x : x = << p, fds[p][k].id >>
    OBVIOUS
  <2>1. (x \in Descriptors(g) <=> f = g) /\ Descriptors(g)' = Descriptors(g) \ {x}
    <3>1. /\ << p, fds[p][k].id >> \in Descriptors(g) <=> fds[p][k].file = g
          /\ Descriptors(g)' = Descriptors(g) \ {<< p, fds[p][k].id >>}
      BY ONLY TablesInv, p \in Procs, k \in DOMAIN fds[p], Lacks(fds[p], k, r),
              fds' = [fds EXCEPT ![p] = r], DescriptorsShrink
    <3> QED
      BY <2>0, <3>1
  <2>2. MappedTo(g)' = MappedTo(g)
    BY DEF MappedTo
  <2>3. /\ file[g].opens \in Int
        /\ IsFiniteSet(Descriptors(g)) /\ Cardinality(Descriptors(g)) \in Nat
        /\ Cardinality(MappedTo(g)) \in Nat
        /\ file[g].opens >= Cardinality(Descriptors(g)) + Cardinality(MappedTo(g))
    BY CountTypes
  <2>4. CASE g = f
    <3>1. /\ IsFiniteSet(Descriptors(g)')
          /\ Cardinality(Descriptors(g)') = Cardinality(Descriptors(g)) - 1
      BY <2>1, <2>3, <2>4, FS_RemoveElement
    <3>2. Cardinality(Descriptors(g)') \in Nat
      BY <3>1, FS_CardinalityType
    <3>3. file[g].opens >= 1
      BY <2>3, <3>1, <3>2
    <3>4. file'[g].opens = file[g].opens - 1
      BY <2>4, <3>3
    <3> QED
      BY <2>2, <2>3, <3>1, <3>4 DEF Balanced
  <2>5. CASE g # f
    <3>1. file'[g] = file[g]
      BY <2>5
    <3>2. Descriptors(g)' = Descriptors(g)
      BY <2>1, <2>5
    <3> QED
      BY <2>2, <2>3, <3>1, <3>2 DEF Balanced
  <2> QED
    BY <2>4, <2>5
<1> QED
  BY <1>1, CountStep

\* sys_close.
LEMMA CloseCounts ==
  ASSUME TablesInv, TablesInv', CountInv, ~broken, NEW p \in Procs, NEW id, sys_close(p, id)
  PROVE  CountInv'
<1>1. maps' = maps /\ mislaid' = mislaid /\ broken' = broken
  BY DEF sys_close, kept
<1>2. PICK f : f = FileOf(p, id)
  OBVIOUS
<1>3. CASE f = None
  <2>1. Find(fds[p], id) = {}
    <3>1. ASSUME Find(fds[p], id) # {} PROVE FALSE
      <4>1. PICK k \in Find(fds[p], id) : TRUE
        BY <3>1
      <4>2. fds[p] \in Seq(Entries) /\ Rising(fds[p])
        BY DEF TablesInv
      <4>3. Place(fds[p], id) = k /\ k \in 1 .. Len(fds[p])
        BY <4>2, PlaceFound
      <4>4. fds[p][k] \in Entries /\ f = fds[p][k].file
        BY <1>2, <3>1, <4>2, <4>3 DEF FileOf
      <4> QED
        BY <1>3, <4>4, NoneAssumption DEF Entries
    <3> QED
      BY <3>1
  <2>2. Without(fds[p], id) = fds[p]
    BY <2>1 DEF Without
  <2>3. fds' = fds /\ file' = file
    BY <1>2, <1>3, <2>2 DEF sys_close, TablesInv
  <2> QED
    BY <1>1, <2>3, CountStays
<1>4. CASE f # None
  <2>1. PICK k \in Find(fds[p], id) :
          k \in DOMAIN fds[p] /\ f = fds[p][k].file /\ f \in Files
    BY <1>2, <1>4, FileFound
  <2>2. PICK r : r = Without(fds[p], id)
    OBVIOUS
  <2>3. Lacks(fds[p], k, r)
    BY <2>1, <2>2, WithoutGives DEF TablesInv
  <2>4. fds' = [fds EXCEPT ![p] = r] /\ file' = [file EXCEPT ![f] = Closed(file[f], 1)]
    BY <1>2, <1>4, <2>2 DEF sys_close, Close
  <2>5. file[f].opens >= 1 => file'[f].opens = file[f].opens - 1
    <3>1. file'[f] = Closed(file[f], 1) /\ file[f] \in FileStates
      BY <2>1, <2>4 DEF TablesInv
    <3> QED
      BY <3>1, ClosedTyped
  <2>6. \A g \in Files : g # f => file'[g] = file[g]
    BY <2>1, <2>4 DEF TablesInv
  <2> QED
    BY <1>1, <2>1, <2>3, <2>4, <2>5, <2>6, TakenCounts
<1> QED
  BY <1>3, <1>4
\* sys_mmap gives the file an opener and a mapping, or an opener for nobody.
LEMMA MmapCounts ==
  ASSUME TablesInv, TablesInv', CountInv, ~broken, NEW p \in Procs, NEW id, NEW u \in Pages,
         sys_mmap(p, id, u)
  PROVE  CountInv'
<1>1. PICK f : f = FileOf(p, id)
  OBVIOUS
<1>2. fds' = fds
  BY DEF sys_mmap
<1>3. CASE f = None
  BY <1>1, <1>2, <1>3, CountStays DEF sys_mmap, kept
<1>4. CASE f # None
  <2>1. f \in Files /\ file' = [file EXCEPT ![f].opens = @ + 1]
    BY <1>1, <1>4, FileFound DEF sys_mmap, ReopenedFor
  <2>2. file'[f].opens = file[f].opens + 1 /\ \A g \in Files : g # f => file'[g] = file[g]
    <3>1. PICK n \in Int : n = file[f].opens + 1
      BY <2>1, OpensInt
    <3>2. file' = [file EXCEPT ![f].opens = n]
      BY <2>1, <3>1
    <3>3. OpensAre(file', file, f, n)
      BY <2>1, <3>2, OpensChange
    <3> QED
      BY <3>1, <3>3 DEF OpensAre
  <2>3. ASSUME NEW g \in Files PROVE Descriptors(g)' = Descriptors(g)
    BY <1>2 DEF Descriptors
  <2>4. CASE file[f].length > 0 /\ page[p][u] = NoPage
    <3>1. (mislaid => mislaid') /\ page' # page
      <4>1. page' = [page EXCEPT ![p][u] = [NoPage EXCEPT !.status = "file"]]
        BY <1>1, <1>4, <2>4 DEF sys_mmap
      <4>2. [NoPage EXCEPT !.status = "file"] # NoPage
        BY DEF NoPage
      <4>3. page'[p][u] # page[p][u]
        BY <2>4, <4>1, <4>2 DEF TablesInv
      <4>4. mislaid => mislaid'
        BY <1>1, <1>4 DEF sys_mmap
      <4> QED
        BY <4>3, <4>4
    <3>2. PICK d \in Mappings, r \in Seq(Mappings) :
            /\ d.page = u /\ d.file = f
            /\ Len(r) = Len(maps[p]) + 1 /\ r[Len(maps[p]) + 1] = d
            /\ \A i \in DOMAIN maps[p] : r[i] = maps[p][i]
            /\ maps' = [maps EXCEPT ![p] = r]
      BY <1>1, <3>1, MmapIs
    <3>3. ASSUME NEW g \in Files PROVE Balanced(g)
      <4>1. /\ << p, u >> \notin MappedTo(g)
            /\ MappedTo(g)' = IF g = f THEN MappedTo(g) \union {<< p, u >>} ELSE MappedTo(g)
        BY <2>4, <3>2, MappedGrows
      <4>2. /\ file[g].opens \in Int
            /\ IsFiniteSet(Descriptors(g)) /\ Cardinality(Descriptors(g)) \in Nat
            /\ IsFiniteSet(MappedTo(g)) /\ Cardinality(MappedTo(g)) \in Nat
        BY CountTypes
      <4>3. CASE g = f
        <5>1. Cardinality(MappedTo(g)') = Cardinality(MappedTo(g)) + 1
          BY <4>1, <4>2, <4>3, FS_AddElement
        <5>2. Descriptors(g)' = Descriptors(g) /\ file'[g].opens = file[g].opens + 1
          BY <2>2, <2>3, <4>3
        <5>3. IsFiniteSet(Descriptors(g)') /\ Cardinality(Descriptors(g)') = Cardinality(Descriptors(g))
          BY <4>2, <5>2
        <5>4. file'[g].opens + Cardinality(Descriptors(g)) + Cardinality(MappedTo(g))
                = file[g].opens + Cardinality(Descriptors(g)') + Cardinality(MappedTo(g)')
          <6>1. PICK a \in Int, b \in Nat, c \in Nat :
                  /\ a = file[g].opens /\ b = Cardinality(Descriptors(g))
                  /\ c = Cardinality(MappedTo(g))
            BY <4>2
          <6>2. /\ file'[g].opens = a + 1 /\ Cardinality(Descriptors(g)') = b
                /\ Cardinality(MappedTo(g)') = c + 1
            BY <5>1, <5>2, <5>3, <6>1
          <6>3. (a + 1) + b + c = a + b + (c + 1)
            OBVIOUS
          <6> QED
            BY <6>1, <6>2, <6>3
        <5> QED
          BY <5>3, <5>4 DEF Balanced
      <4>4. CASE g # f
        BY <2>2, <2>3, <4>1, <4>2, <4>4 DEF Balanced
      <4> QED
        BY <4>3, <4>4
    <3> QED
      BY <3>1, <3>3, CountStep
  <2>5. CASE ~(file[f].length > 0 /\ page[p][u] = NoPage)
    <3>1. maps' = maps /\ mislaid'
      BY <1>1, <1>4, <2>5 DEF sys_mmap
    <3>2. ASSUME NEW g \in Files
          PROVE  /\ file'[g].opens >= Cardinality(Descriptors(g)') + Cardinality(MappedTo(g)')
                 /\ IsFiniteSet(Descriptors(g)') /\ file'[g].opens \in Nat
      <4>1. Descriptors(g)' = Descriptors(g) /\ MappedTo(g)' = MappedTo(g)
        BY <2>3, <3>1 DEF MappedTo
      <4>2. /\ file[g].opens \in Int /\ IsFiniteSet(Descriptors(g))
            /\ Cardinality(Descriptors(g)) \in Nat /\ Cardinality(MappedTo(g)) \in Nat
            /\ file[g].opens >= Cardinality(Descriptors(g)) + Cardinality(MappedTo(g))
        BY CountTypes
      <4>3. file'[g].opens = file[g].opens \/ file'[g].opens = file[g].opens + 1
        BY <2>2
      <4> QED
        BY <4>1, <4>2, <4>3
    <3> QED
      BY <3>1, <3>2 DEF CountInv, FilesCounted, OpenersKnown
  <2> QED
    BY <2>4, <2>5
<1> QED
  BY <1>3, <1>4

\* An unmapping takes both away.
LEMMA UnmapCounts ==
  ASSUME TablesInv, TablesInv', CountInv, ~broken, NEW p \in Procs, Unmap(p)
  PROVE  CountInv'
<1>1. PICK k \in DOMAIN maps[p], r \in Seq(Mappings) :
        /\ maps[p][k] = MapOf(p) /\ MapOf(p) \in Mappings
        /\ maps' = [maps EXCEPT ![p] = r] /\ Lacks(maps[p], k, r)
  BY UnmapIs
<1>2. PICK f \in Files : f = MapOf(p).file
  BY <1>1 DEF Mappings
<1>3. PICK b \in FileStates :
        b.opens = file[f].opens /\ file' = [file EXCEPT ![f] = Closed(b, 1)]
  BY <1>1, <1>2, UnmapFile
<1>4. fds' = fds /\ mislaid' = mislaid
  BY DEF Unmap, kept
<1>5. maps[p][k] \in Mappings /\ maps[p][k].file = f
  BY <1>1, <1>2
<1>6. ASSUME NEW g \in Files PROVE Balanced(g)
  <2>1. /\ << p, maps[p][k].page >> \in MappedTo(g) <=> f = g
        /\ MappedTo(g)' = MappedTo(g) \ {<< p, maps[p][k].page >>}
    <3>1. << p, maps[p][k].page >> \in MappedTo(g) <=> maps[p][k].file = g
      BY <1>1, <1>5, MappedShrinks
    <3>2. MappedTo(g)' = MappedTo(g) \ {<< p, maps[p][k].page >>}
      BY <1>1, <1>5, MappedShrinks
    <3> QED
      BY <1>5, <3>1, <3>2
  <2>2. Descriptors(g)' = Descriptors(g)
    BY <1>4 DEF Descriptors
  <2>3. /\ file[g].opens \in Int
        /\ IsFiniteSet(Descriptors(g)) /\ Cardinality(Descriptors(g)) \in Nat
        /\ IsFiniteSet(MappedTo(g)) /\ Cardinality(MappedTo(g)) \in Nat
        /\ Cardinality(MappedTo(g)') \in Nat
        /\ file[g].opens >= Cardinality(Descriptors(g)) + Cardinality(MappedTo(g))
    BY CountTypes
  <2>4. CASE g = f
    <3>1. Cardinality(MappedTo(g)') = Cardinality(MappedTo(g)) - 1
      <4>1. PICK x : x = << p, maps[p][k].page >>
        OBVIOUS
      <4>2. x \in MappedTo(g) /\ MappedTo(g)' = MappedTo(g) \ {x}
        BY <2>1, <2>4, <4>1
      <4> QED
        BY <2>3, <4>2, FS_RemoveElement
    <3>2. b.opens >= 1
      BY <1>3, <2>3, <2>4, <3>1
    <3>3. file'[g].opens = b.opens - 1
      <4>1. file'[g] = Closed(b, 1)
        BY <1>3, <2>4 DEF TablesInv
      <4> QED
        BY <3>2, <4>1, ClosedTyped
    <3> QED
      BY <1>3, <2>2, <2>3, <2>4, <3>1, <3>3 DEF Balanced
  <2>5. CASE g # f
    <3>1. file'[g] = file[g]
      BY <1>3, <2>5 DEF TablesInv
    <3>2. MappedTo(g)' = MappedTo(g)
      BY <2>1, <2>5
    <3> QED
      BY <2>2, <2>3, <3>1, <3>2 DEF Balanced
  <2> QED
    BY <2>4, <2>5
<1> QED
  BY <1>4, <1>6, CountStep

\* process_exit takes the front of the list and one opener of its file.
LEMMA ExitCounts ==
  ASSUME TablesInv, TablesInv', CountInv, NEW p \in Procs, ExitClose(p)
  PROVE  CountInv'
<1>1. maps' = maps /\ mislaid' = mislaid /\ ~broken
  BY DEF ExitClose, kept
<1>2. 1 \in DOMAIN fds[p]
  BY ExitCloseIs
<1>3. PICK f \in Files : f = fds[p][1].file
  BY ExitCloseIs
<1>4. PICK r : Lacks(fds[p], 1, r) /\ fds' = [fds EXCEPT ![p] = r]
  BY ExitCloseIs
<1>5. file'[f].opens = file[f].opens - 1
  BY <1>3, ExitCloseIs
<1>6. \A g \in Files : g # f => file'[g] = file[g]
  BY <1>3, ExitCloseIs
<1> QED
  BY <1>1, <1>2, <1>3, <1>4, <1>5, <1>6, TakenCounts

\* Of the calls, these and sys_create, sys_remove and sys_write touch files; the last
\* three leave their openers alone.
LEMMA CallCounts ==
  ASSUME TablesInv, TablesInv', CountInv, ~broken, NEW p \in Procs, Call(p)
  PROVE  CountInv'
<1>f. file \in [Files -> FileStates]
  BY DEF TablesInv
<1>1. ASSUME NEW f \in Files, NEW n \in {0, 1}, sys_create(p, f, n) PROVE CountInv'
  <2>1. \A g \in Files : file'[g].opens = file[g].opens
    BY <1>1, <1>f DEF sys_create, FileStates
  <2> QED
    BY <1>1, <2>1, CountStays DEF sys_create, kept
<1>2. ASSUME NEW f \in Files, sys_remove(p, f) PROVE CountInv'
  <2>1. \A g \in Files : file'[g].opens = file[g].opens
    <3>1. CASE file' = file
      BY <3>1
    <3>2. CASE file' # file
      <4>0. PICK e : e = IF file[f].named THEN Gone ELSE file[f]
        OBVIOUS
      <4>1. file' = [file EXCEPT ![f] = e] /\ ~(file[f].named /\ InMemory(f))
        BY <1>2, <3>2, <4>0 DEF sys_remove
      <4>a. file[f].named
        BY <1>f, <3>2, <4>0, <4>1
      <4>b. file' = [file EXCEPT ![f] = Gone] /\ Gone.opens = 0 /\ ~InMemory(f)
        BY <4>0, <4>1, <4>a DEF Gone
      <4>2. file[f].opens = 0
        BY <4>b DEF InMemory, CountInv
      <4> QED
        BY <1>f, <4>b, <4>2
    <3> QED
      BY <3>1, <3>2
  <2> QED
    BY <1>2, <2>1, CountStays DEF sys_remove, kept
<1>3. ASSUME NEW id \in Ids, NEW v \in Value, sys_write(p, id, v) PROVE CountInv'
  <2>1. \A g \in Files : file'[g].opens = file[g].opens
    <3>1. CASE FileOf(p, id) = None
      BY <1>3, <3>1 DEF sys_write
    <3>2. CASE FileOf(p, id) # None
      <4>1. PICK f \in Files : f = FileOf(p, id)
        BY <3>2, FileFound
      <4>2. file' = [file EXCEPT ![f].value = v, ![f].length = IF @ = 0 THEN 1 ELSE @]
        BY <1>3, <3>2, <4>1 DEF sys_write
      <4> QED
        BY <1>f, <4>2 DEF FileStates
    <3> QED
      BY <3>1, <3>2
  <2> QED
    BY <1>3, <2>1, CountStays DEF sys_write, kept
<1>4. ASSUME NEW id, sys_seek(p, id) \/ sys_isdir(p, id) PROVE CountInv'
  BY <1>4, CountStays DEF sys_seek, sys_isdir, kept
<1>5. ASSUME sys_exec(p) \/ sys_read(p) PROVE CountInv'
  BY <1>5, CountStays DEF sys_exec, sys_read, kept
<1>6. ASSUME NEW i, sys_munmap(p, i) PROVE CountInv'
  BY <1>6, CountStays DEF sys_munmap, kept
<1> QED
  BY <1>1, <1>2, <1>3, <1>4, <1>5, <1>6, OpenCounts, CloseCounts, MmapCounts DEF Call

\* Every step of a machine that is not broken; a broken one takes none.
LEMMA NextCounts ==
  LockInv /\ TablesInv /\ TablesInv' /\ HandInv /\ CountInv /\ [Next]_vars => CountInv'
<1> SUFFICES ASSUME LockInv, TablesInv, TablesInv', HandInv, CountInv, [Next]_vars
             PROVE  CountInv'
  OBVIOUS
<1>1. CASE UNCHANGED vars
  BY <1>1, CountStays DEF vars, kept
<1>2. ASSUME NEW p \in Procs,
             \/ Trap(p) \/ Acquire(p) \/ PinFrame(p) \/ Loaded(p) \/ Exit(p) \/ ExitMaps(p)
             \/ input_getc(p) \/ Clash(p)
      PROVE  CountInv'
  BY <1>2, CountStays DEF Trap, Acquire, PinFrame, Loaded, Exit, ExitMaps, input_getc,
     Clash, kept
<1>3. ASSUME NEW p \in Procs, NEW u \in Pages,
             Load(p, u) \/ Evict(p, u) \/ \E v \in Value : Store(p, u, v)
      PROVE  CountInv'
  BY <1>3, CountStays DEF Load, Evict, Store, kept
<1>4. ASSUME NEW p \in Procs, Call(p) PROVE CountInv'
  <2>1. ~broken
    BY <1>4 DEF Call, sys_create, sys_remove, sys_open, sys_close, sys_seek, sys_isdir,
       sys_write, sys_mmap, sys_munmap, sys_exec, sys_read, Inside
  <2> QED
    BY <1>4, <2>1, CallCounts
<1>5. ASSUME NEW p \in Procs, Unmap(p) PROVE CountInv'
  BY <1>5, UnmapCounts DEF Unmap
<1>6. ASSUME NEW p \in Procs, Removed(p) PROVE CountInv'
  <2>1. \A f \in Files : file'[f].opens = file[f].opens
    BY <1>6, RemovedTables
  <2>2. fds' = fds /\ maps' = maps /\ mislaid' = mislaid /\ ~broken
    BY <1>6 DEF Removed, kept
  <2> QED
    BY <2>1, <2>2, CountStays
<1>7. ASSUME NEW p \in Procs, ExitFree(p) PROVE CountInv'
  <2>1. \A f \in Files : file[f].opens >= 0
    BY DEF CountInv
  <2>2. \A f \in Files : file'[f].opens = file[f].opens
    BY <1>7, <2>1, ExitFreeTables
  <2>3. fds' = fds /\ maps' = maps /\ mislaid' = mislaid /\ broken' = broken
    BY <1>7 DEF ExitFree, kept
  <2> QED
    BY <2>2, <2>3, CountStays
<1> QED
  BY <1>1, <1>2, <1>3, <1>4, <1>5, <1>6, <1>7, OpenedCounts, ExitCounts DEF Next, Step

LEMMA InitCounts == Init => CountInv
<1> SUFFICES ASSUME Init PROVE CountInv
  OBVIOUS
<1>1. ASSUME NEW f \in Files
      PROVE  Descriptors(f) = {} /\ MappedTo(f) = {} /\ file[f].opens = 0
  <2>1. Descriptors(f) = {}
    BY DescriptorsAre DEF Init
  <2>2. MappedTo(f) = {}
    BY DEF Init, MappedTo
  <2>3. file[f].opens = 0
    BY DEF Init, Gone
  <2> QED
    BY <2>1, <2>2, <2>3
<1>2. ASSUME NEW f \in Files
      PROVE  /\ file[f].opens = 0 /\ Cardinality(Descriptors(f)) = 0
             /\ Cardinality(MappedTo(f)) = 0 /\ IsFiniteSet(Descriptors(f))
  BY <1>1, FS_EmptySet
<1> QED
  BY <1>2 DEF CountInv, FilesCounted, OpenersKnown

\* A file is open once for every descriptor and every mapping, whatever closes
\* them and in whatever order, exits that close theirs one by one without the lock
\* among them, until such an exit meets another's call on the same files: none loses
\* its file, and, while no mmap has failed, none keeps a file nobody can reach.
THEOREM OpenersAreCounted == Spec => []FilesCounted
<1>1. Spec => []LockInv
  BY InitLock, NextLock, PTL DEF Spec
<1>2. Spec => [](TablesInv /\ HandInv)
  BY <1>1, InitTables, InitHand, NextTables, NextHand, PTL DEF Spec
<1>3. Spec => []CountInv
  BY <1>1, <1>2, InitCounts, NextCounts, PTL DEF Spec
<1>4. CountInv => FilesCounted
  BY DEF CountInv
<1> QED
  BY <1>3, <1>4, PTL

\* The type invariant: that no file has fewer openers than none rests on the count.
THEOREM TypesHold == Spec => []TypeOK
<1>1. Spec => []LockInv
  BY InitLock, NextLock, PTL DEF Spec
<1>2. Spec => [](TablesInv /\ HandInv)
  BY <1>1, InitTables, InitHand, NextTables, NextHand, PTL DEF Spec
<1>3. Spec => []CountInv
  BY <1>1, <1>2, InitCounts, NextCounts, PTL DEF Spec
<1>4. LockInv /\ TablesInv /\ CountInv => TypeOK
  <2> SUFFICES ASSUME LockInv, TablesInv, CountInv PROVE TypeOK
    OBVIOUS
  <2>1. ASSUME NEW p \in Procs
        PROVE  pc[p] \in Holding \union {"none", "user", "acquire", "load", "exit", "freeing"}
    BY DEF LockInv, Labels
  <2>2. ASSUME NEW p \in Procs, NEW list \in {fds[p], maps[p]},
               NEW i \in DOMAIN list, NEW j \in DOMAIN list
        PROVE  list[i].file \in Files /\ (i < j => list[i].id < list[j].id)
    <3>1. Rising(list) /\ (list \in Seq(Entries) \/ list \in Seq(Mappings))
      BY DEF TablesInv
    <3>2. list[i] \in Entries \/ list[i] \in Mappings
      BY <3>1
    <3> QED
      BY <3>1, <3>2 DEF Rising, Entries, Mappings
  <2>3. ASSUME NEW p \in Procs, NEW u \in Pages
        PROVE  page[p][u].value \in Value \union {None}
    BY DEF TablesInv, PageEntries
  <2>4. ASSUME NEW f \in Files PROVE file[f].opens \in Nat
    BY DEF CountInv
  <2>5. filesys_lock \in Procs \union {None}
    BY DEF LockInv
  <2> QED
    BY <2>1, <2>2, <2>3, <2>4, <2>5 DEF TypeOK
<1> QED
  BY <1>1, <1>2, <1>3, <1>4, PTL
===============================================================================
