----------------------------- MODULE DevicesProofs -----------------------------
(***************************************************************************)
(* The two components of the kernel that stand before a device.            *)
(*                                                                         *)
(* The buffer cache, for any number of threads, sectors, slots and sector  *)
(* contents: it refines BlockStore, since no sector is in two slots and a  *)
(* clean slot agrees with the disk.                                        *)
(*                                                                         *)
(* The interrupt queues, for any number of processes and any size of the   *)
(* queues: no wakeup is lost, and nobody ever waits for the lock of one.   *)
(* Both rest on the locks of the callers, which let one process at a time  *)
(* come as far as the queue.                                               *)
(***************************************************************************)
EXTENDS BufferCache, SerialPort, TLAPS

-------------------------------------------------------------------------------
(* The buffer cache                                                         *)

\* Only the owner of the lock is inside the cache.
LockInv == \A t \in Threads : pc[t] \in Inside <=> lock = t

\* What each thread inside the cache has established so far.  From a failed
\* lookup to the claim its sector is in no slot; the lock is what keeps it so.
LocalInv ==
  \A t \in Threads :
    /\ pc[t] \in {"lookup", "evict", "vacate", "claim", "load", "copy"}
         => req[t] \in Access
    /\ pc[t] \in {"vacate", "claim", "load", "copy"} => slot[t] \in Slots
    /\ pc[t] \in {"idle", "acquire"} => slot[t] = 0
    /\ pc[t] = "idle" => req[t].op \in {"done", "got"}
    /\ pc[t] \in {"acquire", "sweep"} => req[t] \in Requests
    /\ pc[t] = "sweep" => req[t].op = "close"
    /\ pc[t] = "sweep"
         => \A i \in Slots : i < slot[t] => ~ (cache[i].occupied /\ cache[i].dirty)
    /\ pc[t] \in {"evict", "vacate", "claim"}
         => \A i \in Slots : ~ Caches(i, req[t].sector)
    /\ pc[t] = "vacate" => ~ cache[slot[t]].dirty
    /\ pc[t] = "claim" => ~ cache[slot[t]].occupied
    /\ pc[t] \in {"load", "copy"} => Caches(slot[t], req[t].sector)
    /\ pc[t] = "load" => ~ cache[slot[t]].dirty

IInv == TypeOK /\ LockInv /\ LocalInv /\ OneSlotPerSector /\ CleanMatchesDisk

-------------------------------------------------------------------------------
\* The fields of a request that a read or a write uses have their types.
LEMMA AccessFields ==
  ASSUME NEW r \in Access
  PROVE  /\ r.sector \in Sectors
         /\ r.op \in {"read", "write"}
         /\ r.op = "write" => r.data \in Data
         /\ r \in Requests
BY DEF Access, Requests

LEMMA BlankTyped == BlankEntry \in Entry /\ BlankCache \in [Slots -> Entry]
<1>1. PICK s \in Sectors, d \in Data : TRUE
  BY DataAssumption
<1>2. BlankEntry \in Entry
  BY <1>1 DEF BlankEntry, Entry
<1> QED
  BY <1>2 DEF BlankCache

LEMMA SlotsFacts == 0 \in Slots /\ Slots \subseteq 0 .. N /\ Slots \subseteq Int /\ N \in Nat
BY SizeAssumption DEF Slots

\* What the actions do to one entry keeps its type.
LEMMA EntryUpdates ==
  ASSUME NEW e \in Entry
  PROVE  /\ [e EXCEPT !.access = FALSE] \in Entry
         /\ [e EXCEPT !.dirty = FALSE] \in Entry
         /\ [e EXCEPT !.occupied = FALSE] \in Entry
         /\ [e EXCEPT !.access = TRUE] \in Entry
BY DEF Entry

LEMMA EntryRefills ==
  ASSUME NEW e \in Entry, NEW s \in Sectors, NEW d \in Data
  PROVE  /\ [e EXCEPT !.data = d] \in Entry
         /\ [e EXCEPT !.occupied = TRUE, !.sector = s, !.dirty = FALSE] \in Entry
         /\ [e EXCEPT !.data = d, !.dirty = TRUE, !.access = TRUE] \in Entry
BY DEF Entry

LEMMA ClockStep == ASSUME NEW i \in Slots PROVE (i + 1) % N \in Slots
BY SizeAssumption DEF Slots

\* The inductive step: every action keeps IInv.
LEMMA InvNext == IInv /\ [Next]_vars => IInv'
<1> SUFFICES ASSUME IInv, [Next]_vars PROVE IInv'
  OBVIOUS
<1> USE HolderAssumption, SlotsFacts
<1>1. ASSUME NEW t \in Threads, NEW r \in Requests, Call(t, r) PROVE IInv'
  <2>1. TypeOK'
    BY <1>1 DEF IInv, Call, TypeOK
  <2>2. LockInv'
    BY <1>1 DEF IInv, Call, LockInv, TypeOK, Inside
  <2>3. LocalInv'
    BY <1>1 DEF IInv, Call, LocalInv, TypeOK, Caches
  <2>4. OneSlotPerSector' /\ CleanMatchesDisk'
    BY <1>1 DEF IInv, Call, TypeOK, OneSlotPerSector, CleanMatchesDisk, Loading
  <2> QED
    BY <2>1, <2>2, <2>3, <2>4 DEF IInv
<1>2. ASSUME NEW t \in Threads, Acquire(t) PROVE IInv'
  <2>1. TypeOK'
    BY <1>2, AccessFields DEF IInv, Acquire, TypeOK, Inside, LocalInv, Entry
  <2>2. LockInv'
    BY <1>2 DEF IInv, Acquire, LockInv, TypeOK, Inside
  <2>3. LocalInv'
    BY <1>2 DEF IInv, Acquire, LocalInv, TypeOK, Inside, Caches, Requests, Access, Slots
  <2>4. OneSlotPerSector'
    BY <1>2, AccessFields DEF IInv, Acquire, LocalInv, TypeOK, Entry, OneSlotPerSector
  <2>5. CleanMatchesDisk'
    BY <1>2, AccessFields DEF IInv, Acquire, LocalInv, LockInv, TypeOK, Inside, Entry, CleanMatchesDisk, Loading, OneSlotPerSector
  <2> QED
    BY <2>1, <2>2, <2>3, <2>4, <2>5 DEF IInv
<1>3. ASSUME NEW t \in Threads, Lookup(t) PROVE IInv'
  <2>1. TypeOK'
    BY <1>3, AccessFields DEF IInv, Lookup, TypeOK, Inside, LocalInv, Entry, Caches
  <2>2. LockInv'
    BY <1>3 DEF IInv, Lookup, LockInv, TypeOK, Inside, Caches
  <2>3. LocalInv'
    BY <1>3, AccessFields DEF IInv, Lookup, LocalInv, LockInv, TypeOK, Inside, Entry, OneSlotPerSector, Caches
  <2>4. OneSlotPerSector'
    BY <1>3, AccessFields DEF IInv, Lookup, LocalInv, TypeOK, Entry, OneSlotPerSector, Caches
  <2>5. CleanMatchesDisk'
    BY <1>3, AccessFields DEF IInv, Lookup, LocalInv, LockInv, TypeOK, Inside, Entry, CleanMatchesDisk, Loading, OneSlotPerSector, Caches
  <2> QED
    BY <2>1, <2>2, <2>3, <2>4, <2>5 DEF IInv
<1>4. ASSUME NEW t \in Threads, TakeEmpty(t) PROVE IInv'
  <2>1. TypeOK'
    BY <1>4, AccessFields DEF IInv, TakeEmpty, TypeOK, Inside, LocalInv, Entry, Caches
  <2>2. LockInv'
    BY <1>4 DEF IInv, TakeEmpty, LockInv, TypeOK, Inside, Caches
  <2>3. LocalInv'
    BY <1>4, AccessFields DEF IInv, TakeEmpty, LocalInv, LockInv, TypeOK, Inside, Entry, OneSlotPerSector, Caches
  <2>4. OneSlotPerSector'
    BY <1>4, AccessFields DEF IInv, TakeEmpty, LocalInv, TypeOK, Entry, OneSlotPerSector, Caches
  <2>5. CleanMatchesDisk'
    BY <1>4, AccessFields DEF IInv, TakeEmpty, LocalInv, LockInv, TypeOK, Inside, Entry, CleanMatchesDisk, Loading, OneSlotPerSector, Caches
  <2> QED
    BY <2>1, <2>2, <2>3, <2>4, <2>5 DEF IInv
<1>5. ASSUME NEW t \in Threads, SecondChance(t) PROVE IInv'
  <2>1. TypeOK'
    <3>1. cache' \in [Slots -> Entry]
      BY <1>5, EntryUpdates, EntryRefills, AccessFields DEF IInv, SecondChance, TypeOK, LocalInv
    <3> QED
      BY <1>5, <3>1, ClockStep, AccessFields DEF IInv, SecondChance, TypeOK, Inside, LocalInv, Entry
  <2>2. LockInv'
    BY <1>5 DEF IInv, SecondChance, LockInv, TypeOK, Inside, Caches
  <2>3. LocalInv'
    BY <1>5, AccessFields DEF IInv, SecondChance, LocalInv, LockInv, TypeOK, Inside, Entry, OneSlotPerSector, Caches
  <2>4. OneSlotPerSector'
    BY <1>5, AccessFields DEF IInv, SecondChance, LocalInv, TypeOK, Entry, OneSlotPerSector, Caches
  <2>5. CleanMatchesDisk'
    BY <1>5, AccessFields DEF IInv, SecondChance, LocalInv, LockInv, TypeOK, Inside, Entry, CleanMatchesDisk, Loading, OneSlotPerSector, Caches
  <2> QED
    BY <2>1, <2>2, <2>3, <2>4, <2>5 DEF IInv
<1>6. ASSUME NEW t \in Threads, Victim(t) PROVE IInv'
  <2>1. TypeOK'
    <3>1. cache' \in [Slots -> Entry]
      <4>1. cache[clock] \in Entry
        BY DEF IInv, TypeOK
      <4>2. CASE cache[clock].dirty
        BY <1>6, <4>1, <4>2, EntryUpdates DEF IInv, Victim, TypeOK
      <4>3. CASE ~ cache[clock].dirty
        BY <1>6, <4>3 DEF IInv, Victim, TypeOK
      <4> QED
        BY <4>2, <4>3
    <3> QED
      BY <1>6, <3>1, ClockStep, AccessFields DEF IInv, Victim, TypeOK, Inside, LocalInv, Entry
  <2>2. LockInv'
    BY <1>6 DEF IInv, Victim, LockInv, TypeOK, Inside, Caches
  <2>3. LocalInv'
    BY <1>6, AccessFields DEF IInv, Victim, LocalInv, LockInv, TypeOK, Inside, Entry, OneSlotPerSector, Caches
  <2>4. OneSlotPerSector'
    BY <1>6, AccessFields DEF IInv, Victim, LocalInv, TypeOK, Entry, OneSlotPerSector, Caches
  <2>5. CleanMatchesDisk'
    <3>1. \A i \in Slots : ~ Loading(i)
      BY <1>6 DEF IInv, Victim, LockInv, TypeOK, Inside, Loading
    <3>2. CASE cache[clock].dirty
      <4>1. /\ cache[clock].occupied /\ cache[clock].sector \in Sectors
            /\ disk' = [disk EXCEPT ![cache[clock].sector] = cache[clock].data]
            /\ cache' = [cache EXCEPT ![clock].dirty = FALSE]
        BY <1>6, <3>2 DEF IInv, Victim, TypeOK, Entry
      <4>2. cache'[clock].sector = cache[clock].sector /\ cache'[clock].data = cache[clock].data
        BY <4>1 DEF IInv, TypeOK, Entry
      <4>3. disk'[cache[clock].sector] = cache[clock].data
        BY <4>1 DEF IInv, TypeOK
      <4>4. ASSUME NEW i \in Slots, i # clock, cache'[i].occupied, ~ cache'[i].dirty
            PROVE  cache'[i].data = disk'[cache'[i].sector]
        <5>1. cache'[i] = cache[i]
          BY <4>1, <4>4 DEF IInv, TypeOK
        <5>2. cache[i].sector # cache[clock].sector /\ cache[i].sector \in Sectors
          BY <4>1, <4>4, <5>1 DEF IInv, TypeOK, Entry, OneSlotPerSector
        <5>3. cache[i].data = disk[cache[i].sector]
          BY <3>1, <4>4, <5>1 DEF IInv, CleanMatchesDisk
        <5> QED
          BY <4>1, <5>1, <5>2, <5>3 DEF IInv, TypeOK
      <4> QED
        BY <4>2, <4>3, <4>4 DEF CleanMatchesDisk
    <3>3. CASE ~ cache[clock].dirty
      BY <1>6, <3>1, <3>3 DEF IInv, Victim, CleanMatchesDisk
    <3> QED
      BY <3>2, <3>3
  <2> QED
    BY <2>1, <2>2, <2>3, <2>4, <2>5 DEF IInv
<1>7. ASSUME NEW t \in Threads, Vacate(t) PROVE IInv'
  <2>1. TypeOK'
    <3>1. slot[t] \in Slots
      BY <1>7 DEF IInv, Vacate, LocalInv
    <3> QED
      BY <1>7, <3>1 DEF IInv, Vacate, TypeOK, Inside, Entry
  <2>2. LockInv'
    BY <1>7 DEF IInv, Vacate, LockInv, TypeOK, Inside, Caches
  <2>3. LocalInv'
    <3>1. /\ slot[t] \in Slots /\ pc'[t] = "claim" /\ req[t] \in Access
          /\ ~ cache'[slot[t]].occupied /\ UNCHANGED << req, slot >>
          /\ \A i \in Slots : ~ Caches(i, req[t].sector)
      <4>1. slot[t] \in Slots /\ req[t] \in Access /\ \A i \in Slots : ~ Caches(i, req[t].sector)
        BY <1>7 DEF IInv, Vacate, LocalInv
      <4> QED
        BY <1>7, <4>1 DEF IInv, Vacate, TypeOK, Entry
    <3>2. \A i \in Slots, s \in Sectors : Caches(i, s)' => Caches(i, s)
      BY <1>7 DEF IInv, Vacate, TypeOK, Entry, Caches
    <3>3. req[t].sector \in Sectors
      BY <3>1, AccessFields
    <3>4. \A u \in Threads \ {t} : pc'[u] = pc[u] /\ pc[u] \notin Inside
      BY <1>7 DEF IInv, Vacate, LockInv, TypeOK, Inside
    <3>5. \A i \in Slots : ~ Caches(i, req[t].sector)'
      BY <3>1, <3>2, <3>3
    <3>6. \A u \in Threads \ {t} : /\ pc[u] \in {"idle", "acquire", "halt"}
                                   /\ req'[u] = req[u] /\ slot'[u] = slot[u]
      BY <3>1, <3>4 DEF IInv, TypeOK, Inside
    <3> QED
      BY <3>1, <3>4, <3>5, <3>6 DEF IInv, LocalInv
  <2>4. OneSlotPerSector'
    BY <1>7, AccessFields DEF IInv, Vacate, LocalInv, TypeOK, Entry, OneSlotPerSector, Caches
  <2>5. CleanMatchesDisk'
    BY <1>7, AccessFields DEF IInv, Vacate, LocalInv, LockInv, TypeOK, Inside, Entry, CleanMatchesDisk, Loading, OneSlotPerSector, Caches
  <2> QED
    BY <2>1, <2>2, <2>3, <2>4, <2>5 DEF IInv
<1>8. ASSUME NEW t \in Threads, Claim(t) PROVE IInv'
  <2>1. TypeOK'
    <3>1. cache' \in [Slots -> Entry]
      <4>1. /\ slot[t] \in Slots /\ cache[slot[t]] \in Entry
            /\ req[t].sector \in Sectors
        BY <1>8, AccessFields DEF IInv, Claim, TypeOK, LocalInv
      <4>2. [cache[slot[t]] EXCEPT !.occupied = TRUE, !.sector = req[t].sector,
                                   !.dirty = FALSE] \in Entry
        BY <4>1 DEF Entry
      <4> QED
        BY <1>8, <4>1, <4>2 DEF IInv, Claim, TypeOK
    <3> QED
      BY <1>8, <3>1, ClockStep, AccessFields DEF IInv, Claim, TypeOK, Inside, LocalInv, Entry
  <2>2. LockInv'
    BY <1>8 DEF IInv, Claim, LockInv, TypeOK, Inside, Caches
  <2>3. LocalInv'
    BY <1>8, AccessFields DEF IInv, Claim, LocalInv, LockInv, TypeOK, Inside, Entry, OneSlotPerSector, Caches
  <2>4. OneSlotPerSector'
    BY <1>8, AccessFields DEF IInv, Claim, LocalInv, TypeOK, Entry, OneSlotPerSector, Caches
  <2>5. CleanMatchesDisk'
    BY <1>8, AccessFields DEF IInv, Claim, LocalInv, LockInv, TypeOK, Inside, Entry, CleanMatchesDisk, Loading, OneSlotPerSector, Caches
  <2> QED
    BY <2>1, <2>2, <2>3, <2>4, <2>5 DEF IInv
<1>9. ASSUME NEW t \in Threads, Load(t) PROVE IInv'
  <2>1. TypeOK'
    BY <1>9, AccessFields DEF IInv, Load, TypeOK, Inside, LocalInv, Entry, Caches
  <2>2. LockInv'
    BY <1>9 DEF IInv, Load, LockInv, TypeOK, Inside, Caches
  <2>3. LocalInv'
    BY <1>9, AccessFields DEF IInv, Load, LocalInv, LockInv, TypeOK, Inside, Entry, OneSlotPerSector, Caches
  <2>4. OneSlotPerSector'
    BY <1>9, AccessFields DEF IInv, Load, LocalInv, TypeOK, Entry, OneSlotPerSector, Caches
  <2>5. CleanMatchesDisk'
    BY <1>9, AccessFields DEF IInv, Load, LocalInv, LockInv, TypeOK, Inside, Entry, CleanMatchesDisk, Loading, OneSlotPerSector, Caches
  <2> QED
    BY <2>1, <2>2, <2>3, <2>4, <2>5 DEF IInv
<1>10. ASSUME NEW t \in Threads, CopyOut(t) PROVE IInv'
  <2>1. TypeOK'
    <3>1. cache' \in [Slots -> Entry]
      BY <1>10, EntryUpdates, EntryRefills, AccessFields DEF IInv, CopyOut, TypeOK, LocalInv
    <3> QED
      BY <1>10, <3>1, ClockStep, AccessFields DEF IInv, CopyOut, TypeOK, Inside, LocalInv, Entry, Return, Got, Answers
  <2>2. LockInv'
    BY <1>10 DEF IInv, CopyOut, LockInv, TypeOK, Inside, Caches, Return, Got
  <2>3. LocalInv'
    BY <1>10, AccessFields DEF IInv, CopyOut, LocalInv, LockInv,
       TypeOK, Inside, Entry, OneSlotPerSector, Caches, Return, Got
  <2>4. OneSlotPerSector'
    BY <1>10, AccessFields DEF IInv, CopyOut, LocalInv, TypeOK, Entry, OneSlotPerSector, Caches, Return, Got
  <2>5. CleanMatchesDisk'
    BY <1>10, AccessFields DEF IInv, CopyOut, LocalInv, LockInv, TypeOK, Inside, Entry, CleanMatchesDisk, Loading, OneSlotPerSector, Caches, Return, Got
  <2> QED
    BY <2>1, <2>2, <2>3, <2>4, <2>5 DEF IInv
<1>11. ASSUME NEW t \in Threads, CopyIn(t) PROVE IInv'
  <2>1. TypeOK'
    <3>1. cache' \in [Slots -> Entry]
      BY <1>11, EntryUpdates, EntryRefills, AccessFields DEF IInv, CopyIn, TypeOK, LocalInv
    <3> QED
      BY <1>11, <3>1, ClockStep, AccessFields DEF IInv, CopyIn, TypeOK, Inside, LocalInv, Entry, Return, Answers
  <2>2. LockInv'
    BY <1>11 DEF IInv, CopyIn, LockInv, TypeOK, Inside, Caches, Return
  <2>3. LocalInv'
    BY <1>11, AccessFields DEF IInv, CopyIn, LocalInv, LockInv,
       TypeOK, Inside, Entry, OneSlotPerSector, Caches, Return, Done
  <2>4. OneSlotPerSector'
    BY <1>11, AccessFields DEF IInv, CopyIn, LocalInv, TypeOK, Entry, OneSlotPerSector, Caches, Return
  <2>5. CleanMatchesDisk'
    BY <1>11, AccessFields DEF IInv, CopyIn, LocalInv, LockInv, TypeOK, Inside, Entry, CleanMatchesDisk, Loading, OneSlotPerSector, Caches, Return
  <2> QED
    BY <2>1, <2>2, <2>3, <2>4, <2>5 DEF IInv
<1>12. ASSUME NEW t \in Threads, Sweep(t) PROVE IInv'
  <2>1. TypeOK'
    <3>0. slot[t] \in Slots /\ slot[t] + 1 \in 0 .. N
      BY <1>12 DEF IInv, Sweep, TypeOK, Slots
    <3>1. cache' \in [Slots -> Entry]
      <4>1. cache[slot[t]] \in Entry
        BY <3>0 DEF IInv, TypeOK
      <4>2. CASE cache[slot[t]].occupied /\ cache[slot[t]].dirty
        BY <1>12, <3>0, <4>1, <4>2, EntryUpdates DEF IInv, Sweep, TypeOK
      <4>3. CASE ~ (cache[slot[t]].occupied /\ cache[slot[t]].dirty)
        BY <1>12, <4>3 DEF IInv, Sweep, TypeOK
      <4> QED
        BY <4>2, <4>3
    <3> QED
      BY <1>12, <3>0, <3>1, ClockStep, AccessFields DEF IInv, Sweep, TypeOK, Inside, LocalInv, Entry
  <2>2. LockInv'
    BY <1>12 DEF IInv, Sweep, LockInv, TypeOK, Inside, Caches
  <2>3. LocalInv'
    <3>1. slot[t] \in Slots /\ slot'[t] = slot[t] + 1
      BY <1>12 DEF IInv, Sweep, TypeOK, Slots
    <3>2. \A i \in Slots : i < slot'[t] => i < slot[t] \/ i = slot[t]
      BY <3>1 DEF Slots
    <3>3. \A i \in Slots :
            i < slot'[t] => ~ (cache'[i].occupied /\ cache'[i].dirty)
      BY <1>12, <3>1, <3>2 DEF IInv, Sweep, LocalInv, TypeOK, Entry
    <3> QED
      BY <1>12, <3>1, <3>3, AccessFields DEF IInv, Sweep, LocalInv, LockInv, TypeOK,
         Inside, Entry, Caches
  <2>4. OneSlotPerSector'
    BY <1>12, AccessFields DEF IInv, Sweep, LocalInv, TypeOK, Entry, OneSlotPerSector, Caches
  <2>5. CleanMatchesDisk'
    <3>1. slot[t] \in Slots
      BY <1>12 DEF IInv, Sweep, TypeOK, Slots
    <3> QED
      BY <1>12, <3>1 DEF IInv, Sweep, LockInv, TypeOK, Inside, Entry,
         CleanMatchesDisk, Loading, OneSlotPerSector
  <2> QED
    BY <2>1, <2>2, <2>3, <2>4, <2>5 DEF IInv
<1>13. ASSUME NEW t \in Threads, SweepDone(t) PROVE IInv'
  <2>1. TypeOK'
    BY <1>13 DEF IInv, SweepDone, TypeOK, Inside, Return, Answers
  <2>2. LockInv'
    BY <1>13 DEF IInv, SweepDone, LockInv, TypeOK, Inside, Caches, Return
  <2>3. LocalInv'
    BY <1>13, AccessFields DEF IInv, SweepDone, LocalInv, LockInv, TypeOK, Inside, Entry, OneSlotPerSector, Caches, Return
  <2>4. OneSlotPerSector'
    BY <1>13, AccessFields DEF IInv, SweepDone, LocalInv, TypeOK, Entry, OneSlotPerSector, Caches, Return
  <2>5. CleanMatchesDisk'
    BY <1>13, AccessFields DEF IInv, SweepDone, LocalInv, LockInv, TypeOK, Inside, Entry, CleanMatchesDisk, Loading, OneSlotPerSector, Caches, Return
  <2> QED
    BY <2>1, <2>2, <2>3, <2>4, <2>5 DEF IInv
<1>14. ASSUME Reset PROVE IInv'
  BY <1>14, BlankTyped DEF IInv, Reset, TypeOK, Inside, Answers, Done, LockInv, LocalInv, OneSlotPerSector,
     CleanMatchesDisk, BlankCache, BlankEntry
<1>15. ASSUME UNCHANGED vars PROVE IInv'
  BY <1>15 DEF IInv, vars, TypeOK, LockInv, LocalInv, OneSlotPerSector,
     CleanMatchesDisk, Loading, Caches
<1> QED
  BY <1>1, <1>2, <1>3, <1>4, <1>5, <1>6, <1>7, <1>8, <1>9, <1>10, <1>11, <1>12, <1>13, <1>14, <1>15 DEF Next, HolderStep

\* The inductive invariant holds.
THEOREM CacheInvariant == Spec => []IInv
<1>1. Init => IInv
  <2> SUFFICES ASSUME Init PROVE IInv
    OBVIOUS
  <2>1. TypeOK
    BY BlankTyped, SlotsFacts DEF Init, TypeOK, Inside, Answers
  <2>2. LockInv /\ LocalInv
    BY HolderAssumption DEF Init, LockInv, LocalInv, Inside, Done
  <2>3. OneSlotPerSector /\ CleanMatchesDisk
    BY DEF Init, OneSlotPerSector, CleanMatchesDisk, BlankCache, BlankEntry
  <2> QED
    BY <2>1, <2>2, <2>3 DEF IInv
<1> QED
  BY <1>1, InvNext, PTL DEF Spec

\* Type correctness of the buffer cache.
THEOREM CacheTyped == Spec => []TypeOK
BY CacheInvariant, PTL DEF IInv

\* Two slots of buffer_cache never hold the same sector.
THEOREM CachedOnce == Spec => []OneSlotPerSector
BY CacheInvariant, PTL DEF IInv

\* A slot that buffer_cache_evict may drop unwritten agrees with the disk.
THEOREM CleanSlotsAgree == Spec => []CleanMatchesDisk
BY CacheInvariant, PTL DEF IInv

\* The second chances of one eviction come to an end, since the owner of the
\* lock is the only thread that may set an access bit.
THEOREM EvictionEnds == Spec => ClockEnds
<1>1. IInv /\ [Next]_vars =>
        [\A t \in Threads :
           pc[t] = "evict" /\ pc'[t] = "evict"
             => \/ UNCHANGED << cache, clock >>
                \/ Accessed' \subseteq Accessed /\ Accessed' # Accessed]_vars
  <2> SUFFICES ASSUME IInv, Next, NEW t \in Threads,
                      pc[t] = "evict", pc'[t] = "evict"
               PROVE  \/ UNCHANGED << cache, clock >>
                      \/ Accessed' \subseteq Accessed /\ Accessed' # Accessed
    OBVIOUS
  <2>1. lock = t /\ \A u \in Threads : pc[u] \in Inside => u = t
    BY DEF IInv, LockInv, Inside
  <2>2. ~ Reset
    BY DEF Reset
  <2>3. ASSUME NEW u \in Threads, NEW r \in Requests, Call(u, r)
        PROVE  UNCHANGED << cache, clock >>
    BY <2>3 DEF Call
  <2>4. ASSUME NEW u \in Threads, Acquire(u)
        PROVE  UNCHANGED << cache, clock >>
    BY <2>4 DEF Acquire
  <2>5. ASSUME NEW u \in Threads, HolderStep(u)
        PROVE  SecondChance(t)
    <3>1. pc[u] \in Inside
      BY <2>5 DEF HolderStep, Lookup, TakeEmpty, SecondChance, Victim, Vacate, Claim,
                  Load, CopyOut, CopyIn, Sweep, SweepDone, Inside
    <3>2. u = t
      BY <2>1, <3>1
    <3>3. TakeEmpty(t) \/ SecondChance(t) \/ Victim(t)
      BY <2>5, <3>2 DEF HolderStep, Lookup, TakeEmpty, SecondChance, Victim, Vacate,
                        Claim, Load, CopyOut, CopyIn, Sweep, SweepDone
    <3> QED
      BY <3>3 DEF TakeEmpty, Victim, IInv, TypeOK
  <2>6. ASSUME SecondChance(t)
        PROVE  Accessed' \subseteq Accessed /\ Accessed' # Accessed
    <3>1. /\ clock \in Accessed /\ clock \in Slots
          /\ cache' = [cache EXCEPT ![clock].access = FALSE]
          /\ cache \in [Slots -> Entry]
      BY <2>6 DEF SecondChance, Accessed, IInv, TypeOK
    <3>2. /\ ~ cache'[clock].access
          /\ \A i \in Slots : i # clock => cache'[i] = cache[i]
      BY <3>1 DEF Entry
    <3>3. clock \notin Accessed'
      BY <3>2 DEF Accessed
    <3>4. Accessed' \subseteq Accessed
      BY <3>1, <3>2 DEF Accessed
    <3> QED
      BY <3>1, <3>3, <3>4
  <2> QED
    BY <2>2, <2>3, <2>4, <2>5, <2>6 DEF Next
<1> QED
  BY <1>1, CacheInvariant, PTL DEF Spec, ClockEnds

-------------------------------------------------------------------------------
\* What Current stands for, freed of its CHOOSE.
CurrentFacts(s) ==
  /\ \A i \in Slots : Holds(i, s) => Current(s) = cache[i].data
  /\ (\A i \in Slots : ~ Holds(i, s)) => Current(s) = disk[s]
  /\ \A i \in Slots : Caches(i, s) /\ ~ cache[i].dirty => Current(s) = disk[s]

CurrentFact == \A s \in Sectors : CurrentFacts(s)

LEMMA CurrentIs == IInv => CurrentFact
<1> SUFFICES ASSUME IInv, NEW s \in Sectors PROVE CurrentFacts(s)
  BY DEF CurrentFact
<1>1. ASSUME NEW i \in Slots, Holds(i, s) PROVE Current(s) = cache[i].data
  <2> DEFINE j == CHOOSE k \in Slots : Holds(k, s)
  <2>1. j \in Slots /\ Holds(j, s)
    BY <1>1
  <2>2. j = i
    BY <1>1, <2>1 DEF IInv, OneSlotPerSector, Holds, Caches
  <2> QED
    BY <1>1, <2>1, <2>2 DEF Current
<1>2. (\A i \in Slots : ~ Holds(i, s)) => Current(s) = disk[s]
  BY DEF Current
<1>3. ASSUME NEW i \in Slots, Caches(i, s), ~ cache[i].dirty
      PROVE  Current(s) = disk[s]
  <2>1. CASE Loading(i)
    <3>1. \A k \in Slots : ~ Holds(k, s)
      BY <1>3, <2>1 DEF IInv, OneSlotPerSector, Holds, Caches
    <3> QED
      BY <1>2, <3>1
  <2>2. CASE ~ Loading(i)
    BY <1>1, <1>3, <2>2 DEF IInv, CleanMatchesDisk, Holds, Caches
  <2> QED
    BY <2>1, <2>2
<1> QED
  BY <1>1, <1>2, <1>3 DEF CurrentFacts

\* The same of the next state.
LEMMA CurrentIsNext == IInv' => CurrentFact'
BY CurrentIs, PTL

\* Facts about a step that both sides of the refinement need.
View == [s \in Sectors |-> Current(s)]

LEMMA NotLoading ==
  ASSUME IInv, NEW t \in Threads, lock = t, pc[t] # "load"
  PROVE  \A i \in Slots : ~ Loading(i)
BY DEF IInv, LockInv, Loading, Inside

\* Initially nothing is cached and the view is the disk.
LEMMA InitRefines == Init => Store!Init
<1> SUFFICES ASSUME Init PROVE Store!Init
  OBVIOUS
<1>1. \A s \in Sectors : Current(s) = disk[s]
  BY DEF Init, BlankCache, BlankEntry, Current, Holds, Caches
<1>2. [s \in Sectors |-> Current(s)] = disk
  BY <1>1 DEF Init
<1> QED
  BY <1>2 DEF Init, Store!Init, Done, Store!Done

\* Every step of the cache is a step of the store or leaves it unchanged.
LEMMA StepRefines ==
  IInv /\ IInv' /\ [Next]_vars => [Store!Next]_(Store!vars)
<1> SUFFICES ASSUME IInv, IInv', [Next]_vars PROVE [Store!Next]_(Store!vars)
  OBVIOUS
<1>a. CurrentFact /\ CurrentFact'
  BY CurrentIs, CurrentIsNext
<1>b. TypeOK /\ TypeOK'
  BY DEF IInv
<1>c. Done = Store!Done /\ Closed = Store!Closed /\ Requests = Store!Requests
      /\ \A d \in Data : Got(d) = Store!Got(d)
  BY DEF Done, Store!Done, Closed, Store!Closed, Got, Store!Got, Requests, Access, Store!Requests
<1> HIDE DEF Done, Closed, Got
<1>v. ASSUME \A s \in Sectors : Current(s)' = Current(s),
             disk' = disk, req' = req
      PROVE  UNCHANGED Store!vars
  BY <1>v DEF Store!vars
<1>1. ASSUME NEW t \in Threads, NEW r \in Requests, Call(t, r)
      PROVE  Store!Call(t, r)
  <2>1. \A s \in Sectors : Current(s)' = Current(s)
    BY <1>1, <1>a, <1>b DEF Call, CurrentFact, CurrentFacts, Holds, Caches, Loading, TypeOK
  <2>2. req[t].op \in {"done", "got"}
    BY <1>1 DEF Call, IInv, LocalInv, Done, Got
  <2> QED
    BY <1>1, <2>1, <2>2 DEF Call, Store!Call
<1>2. ASSUME NEW t \in Threads, Acquire(t) PROVE UNCHANGED Store!vars
  <2>0. \A i \in Slots : Loading(i)' <=> Loading(i)
    BY <1>2, <1>b DEF Acquire, Loading, TypeOK
  <2>1. \A s \in Sectors : Current(s)' = Current(s)
    BY <1>2, <1>a, <1>b, <2>0 DEF Acquire, CurrentFact, CurrentFacts, Holds, Caches, Loading,
       TypeOK, Entry, IInv, LockInv, LocalInv, OneSlotPerSector, Inside
  <2> QED
    BY <1>2, <1>v, <2>1 DEF Acquire
<1>3. ASSUME NEW t \in Threads, Lookup(t) PROVE UNCHANGED Store!vars
  <2>1. \A s \in Sectors : Current(s)' = Current(s)
    BY <1>3, <1>a, <1>b, NotLoading DEF Lookup, CurrentFact, CurrentFacts, Holds, Caches, Loading,
       TypeOK, Entry, IInv, LockInv, LocalInv, OneSlotPerSector, Inside
  <2> QED
    BY <1>3, <1>v, <2>1 DEF Lookup
<1>4. ASSUME NEW t \in Threads, TakeEmpty(t) PROVE UNCHANGED Store!vars
  <2>1. \A s \in Sectors : Current(s)' = Current(s)
    BY <1>4, <1>a, <1>b, NotLoading DEF TakeEmpty, CurrentFact, CurrentFacts, Holds, Caches, Loading,
       TypeOK, Entry, IInv, LockInv, LocalInv, OneSlotPerSector, Inside
  <2> QED
    BY <1>4, <1>v, <2>1 DEF TakeEmpty
<1>5. ASSUME NEW t \in Threads, SecondChance(t) PROVE UNCHANGED Store!vars
  <2>1. \A s \in Sectors : Current(s)' = Current(s)
    BY <1>5, <1>a, <1>b, NotLoading DEF SecondChance, CurrentFact, CurrentFacts, Holds, Caches, Loading,
       TypeOK, Entry, IInv, LockInv, LocalInv, OneSlotPerSector, Inside
  <2> QED
    BY <1>5, <1>v, <2>1 DEF SecondChance
<1>6. ASSUME NEW t \in Threads, Vacate(t) PROVE UNCHANGED Store!vars
  <2>1. \A s \in Sectors : Current(s)' = Current(s)
    BY <1>6, <1>a, <1>b, NotLoading DEF Vacate, CurrentFact, CurrentFacts, Holds, Caches, Loading,
       TypeOK, Entry, IInv, LockInv, LocalInv, OneSlotPerSector, Inside
  <2> QED
    BY <1>6, <1>v, <2>1 DEF Vacate
<1>7. ASSUME NEW t \in Threads, Claim(t) PROVE UNCHANGED Store!vars
  <2>0. /\ slot[t] \in Slots /\ ~ cache[slot[t]].occupied
        /\ req[t].sector \in Sectors /\ lock = t /\ pc[t] = "claim"
        /\ \A i \in Slots : ~ Caches(i, req[t].sector)
    BY <1>7, AccessFields DEF Claim, IInv, LocalInv, LockInv, Inside
  <2>1. \A i \in Slots : ~ Loading(i)
    BY <2>0, NotLoading
  <2>2. \A i \in Slots : Loading(i)' <=> i = slot[t]
    BY <1>7, <1>b, <2>0, <2>1 DEF Claim, Loading, TypeOK
  <2>3. \A i \in Slots : i # slot[t] => cache'[i] = cache[i]
    BY <1>7, <1>b DEF Claim, TypeOK
  <2>4. \A i \in Slots, s \in Sectors : Holds(i, s)' <=> Holds(i, s)
    BY <2>0, <2>1, <2>2, <2>3 DEF Holds, Caches
  <2>5. ASSUME NEW s \in Sectors PROVE Current(s)' = Current(s)
    <3>1. CASE \E i \in Slots : Holds(i, s)
      BY <1>a, <2>0, <2>3, <2>4, <3>1 DEF CurrentFact, CurrentFacts, Holds, Caches
    <3>2. CASE \A i \in Slots : ~ Holds(i, s)
      BY <1>7, <1>a, <2>4, <3>2 DEF Claim, CurrentFact, CurrentFacts
    <3> QED
      BY <3>1, <3>2
  <2> QED
    BY <1>7, <1>v, <2>5 DEF Claim
<1>8. ASSUME NEW t \in Threads, Load(t) PROVE UNCHANGED Store!vars
  <2>1. \A s \in Sectors : Current(s)' = Current(s)
    <3>1. PICK k \in Slots, x \in Sectors :
            /\ k = slot[t] /\ x = req[t].sector
            /\ Caches(k, x) /\ ~ cache[k].dirty
            /\ disk' = disk /\ slot' = slot
      BY <1>8, AccessFields DEF Load, IInv, LocalInv
    <3>2. \A i \in Slots : (Loading(i) <=> i = k) /\ ~ Loading(i)'
      BY <1>8, <1>b, <3>1 DEF Load, IInv, LockInv, Inside, Loading, TypeOK
    <3>3. /\ ~ cache'[k].dirty
          /\ \A i \in Slots : cache'[i].occupied = cache[i].occupied /\ cache'[i].sector = cache[i].sector
          /\ \A i \in Slots \ {k} : cache'[i] = cache[i]
      BY <1>8, <1>b, <3>1 DEF Load, TypeOK, Entry
    <3>4. \A i \in Slots, s \in Sectors : Caches(i, s)' <=> Caches(i, s)
      BY <3>3 DEF Caches
    <3> SUFFICES ASSUME NEW s \in Sectors PROVE Current(s)' = Current(s)
      OBVIOUS
    <3>5. CASE s = x
      <4>1. \A i \in Slots : ~ Holds(i, x)
        BY <3>1, <3>2 DEF Holds, IInv, OneSlotPerSector, Caches
      <4>2. Current(x) = disk[x]
        BY <1>a, <3>1, <4>1 DEF CurrentFact, CurrentFacts
      <4>3. Current(x)' = disk'[x]
        <5>1. Caches(k, x)' /\ ~ cache'[k].dirty
          BY <3>1, <3>3, <3>4
        <5> QED
          BY <1>a, <3>1, <5>1 DEF CurrentFact, CurrentFacts
      <4> QED
        BY <3>1, <3>5, <4>2, <4>3
    <3>6. CASE s # x
      <4>1. \A i \in Slots : Caches(i, s) => i # k
        BY <3>1, <3>6 DEF Caches
      <4>2. \A i \in Slots : Holds(i, s)' <=> Holds(i, s)
        BY <3>2, <3>4, <4>1 DEF Holds
      <4>3. CASE \E i \in Slots : Holds(i, s)
        BY <1>a, <3>3, <4>1, <4>2, <4>3 DEF CurrentFact, CurrentFacts, Holds
      <4>4. CASE \A i \in Slots : ~ Holds(i, s)
        BY <1>a, <3>1, <4>2, <4>4 DEF CurrentFact, CurrentFacts
      <4> QED
        BY <4>3, <4>4
    <3> QED
      BY <3>5, <3>6
  <2> QED
    BY <1>8, <1>v, <2>1 DEF Load
<1>9. ASSUME NEW t \in Threads, Victim(t)
      PROVE  UNCHANGED Store!vars \/ \E s \in Sectors : Store!Persist(s)
  <2> DEFINE k == clock
  <2>0. /\ k \in Slots /\ cache[k] \in Entry /\ lock = t /\ pc[t] # "load"
        /\ lock' = t /\ pc'[t] # "load"
    BY <1>9, <1>b, SlotsFacts DEF Victim, TypeOK, IInv, LockInv, Inside, Slots
  <2>1. \A i \in Slots : ~ Loading(i) /\ ~ Loading(i)'
    BY <1>9, <1>b, <2>0, NotLoading DEF Victim, Loading, TypeOK
  <2>2. \A i \in Slots : /\ cache'[i].data = cache[i].data
                         /\ \A s \in Sectors : Holds(i, s)' <=> Holds(i, s)
    BY <1>9, <1>b, <2>1 DEF Victim, TypeOK, Entry, Holds, Caches
  <2> HIDE DEF k
  <2>3. CASE disk' = disk
    <3>1. \A s \in Sectors : Current(s)' = Current(s)
      BY <1>a, <2>2, <2>3 DEF CurrentFact, CurrentFacts
    <3> QED
      BY <1>9, <1>v, <2>3, <3>1 DEF Victim
  <2>4. CASE disk' # disk
    <3>1. /\ disk' = [disk EXCEPT ![cache[k].sector] = cache[k].data]
          /\ cache[k].occupied
      BY <1>9, <2>4 DEF Victim, k
    <3>2. cache[k].sector \in Sectors /\ Holds(k, cache[k].sector)
      BY <2>0, <2>1, <3>1 DEF Entry, Holds, Caches
    <3>3. ASSUME NEW s \in Sectors PROVE Current(s)' = Current(s)
      <4>1. CASE \E i \in Slots : Holds(i, s)
        BY <1>a, <2>2, <4>1 DEF CurrentFact, CurrentFacts
      <4>2. CASE \A i \in Slots : ~ Holds(i, s)
        <5>1. s # cache[k].sector
          BY <2>0, <3>2, <4>2
        <5> QED
          BY <1>a, <1>b, <2>2, <3>1, <4>2, <5>1 DEF CurrentFact, CurrentFacts, TypeOK
      <4> QED
        BY <4>1, <4>2
    <3>4. Current(cache[k].sector) = cache[k].data
      BY <1>a, <2>0, <3>2 DEF CurrentFact, CurrentFacts
    <3>5. Store!Persist(cache[k].sector)
      BY <1>9, <3>1, <3>2, <3>3, <3>4 DEF Victim, Store!Persist
    <3> QED
      BY <3>2, <3>5
  <2> QED
    BY <2>3, <2>4
<1>10. ASSUME NEW t \in Threads, Sweep(t)
      PROVE  UNCHANGED Store!vars \/ \E s \in Sectors : Store!Persist(s)
  <2> DEFINE k == slot[t]
  <2>0. /\ k \in Slots /\ cache[k] \in Entry /\ lock = t /\ pc[t] # "load"
        /\ lock' = t /\ pc'[t] # "load"
    BY <1>10, <1>b, SlotsFacts DEF Sweep, TypeOK, IInv, LockInv, Inside, Slots
  <2>1. \A i \in Slots : ~ Loading(i) /\ ~ Loading(i)'
    BY <1>10, <1>b, <2>0, NotLoading DEF Sweep, Loading, TypeOK
  <2>2. \A i \in Slots : /\ cache'[i].data = cache[i].data
                         /\ \A s \in Sectors : Holds(i, s)' <=> Holds(i, s)
    BY <1>10, <1>b, <2>1 DEF Sweep, TypeOK, Entry, Holds, Caches
  <2> HIDE DEF k
  <2>3. CASE disk' = disk
    <3>1. \A s \in Sectors : Current(s)' = Current(s)
      BY <1>a, <2>2, <2>3 DEF CurrentFact, CurrentFacts
    <3> QED
      BY <1>10, <1>v, <2>3, <3>1 DEF Sweep
  <2>4. CASE disk' # disk
    <3>1. /\ disk' = [disk EXCEPT ![cache[k].sector] = cache[k].data]
          /\ cache[k].occupied
      BY <1>10, <2>4 DEF Sweep, k
    <3>2. cache[k].sector \in Sectors /\ Holds(k, cache[k].sector)
      BY <2>0, <2>1, <3>1 DEF Entry, Holds, Caches
    <3>3. ASSUME NEW s \in Sectors PROVE Current(s)' = Current(s)
      <4>1. CASE \E i \in Slots : Holds(i, s)
        BY <1>a, <2>2, <4>1 DEF CurrentFact, CurrentFacts
      <4>2. CASE \A i \in Slots : ~ Holds(i, s)
        <5>1. s # cache[k].sector
          BY <2>0, <3>2, <4>2
        <5> QED
          BY <1>a, <1>b, <2>2, <3>1, <4>2, <5>1 DEF CurrentFact, CurrentFacts, TypeOK
      <4> QED
        BY <4>1, <4>2
    <3>4. Current(cache[k].sector) = cache[k].data
      BY <1>a, <2>0, <3>2 DEF CurrentFact, CurrentFacts
    <3>5. Store!Persist(cache[k].sector)
      BY <1>10, <3>1, <3>2, <3>3, <3>4 DEF Sweep, Store!Persist
    <3> QED
      BY <3>2, <3>5
  <2> QED
    BY <2>3, <2>4
<1>11. ASSUME NEW t \in Threads, CopyOut(t) PROVE Store!Read(t)
  <2>0. /\ slot[t] \in Slots /\ cache[slot[t]] \in Entry
        /\ lock = t /\ pc[t] = "copy"
        /\ req[t].sector \in Sectors /\ Caches(slot[t], req[t].sector)
    BY <1>11, <1>b, AccessFields DEF CopyOut, IInv, LocalInv, LockInv, Inside, TypeOK
  <2>1. \A i \in Slots : ~ Loading(i) /\ ~ Loading(i)'
    BY <1>11, <1>b, <2>0, NotLoading DEF CopyOut, Return, Loading, TypeOK
  <2>2. \A s \in Sectors : Current(s)' = Current(s)
    BY <1>11, <1>a, <1>b, <2>1 DEF CopyOut, CurrentFact, CurrentFacts, TypeOK, Entry, Holds, Caches
  <2>3. Current(req[t].sector) = cache[slot[t]].data
    BY <1>a, <2>0, <2>1 DEF CurrentFact, CurrentFacts, Holds
  <2>4. Got(cache[slot[t]].data) = Store!Got(cache[slot[t]].data)
    BY <1>c, <2>0 DEF Entry
  <2> QED
    BY <1>11, <2>0, <2>2, <2>3, <2>4 DEF CopyOut, Return, Store!Read
<1>12. ASSUME NEW t \in Threads, CopyIn(t) PROVE Store!Write(t)
  <2>0. /\ slot[t] \in Slots /\ lock = t /\ pc[t] = "copy"
        /\ req[t].sector \in Sectors /\ Caches(slot[t], req[t].sector)
    BY <1>12, <1>b, AccessFields DEF CopyIn, IInv, LocalInv, LockInv, Inside, TypeOK
  <2>1. \A i \in Slots : ~ Loading(i) /\ ~ Loading(i)'
    BY <1>12, <1>b, <2>0, NotLoading DEF CopyIn, Return, Loading, TypeOK
  <2>2. \A i \in Slots : /\ i # slot[t] => cache'[i] = cache[i]
                         /\ \A s \in Sectors : Holds(i, s)' <=> Holds(i, s)
    BY <1>12, <1>b, <2>1 DEF CopyIn, TypeOK, Entry, Holds, Caches
  <2>3. ASSUME NEW s \in Sectors, s = req[t].sector PROVE Current(s)' = req[t].data
    <3>1. Holds(slot[t], s)
      BY <2>0, <2>1, <2>3 DEF Holds
    <3>2. cache'[slot[t]].data = req[t].data
      BY <1>12, <1>b, <2>0 DEF CopyIn, TypeOK, Entry
    <3> QED
      BY <1>12, <1>a, <2>0, <2>2, <3>1, <3>2 DEF CopyIn, CurrentFact, CurrentFacts
  <2>4. ASSUME NEW s \in Sectors, s # req[t].sector PROVE Current(s)' = Current(s)
    <3>1. \A i \in Slots : Holds(i, s) => i # slot[t]
      BY <2>0, <2>4 DEF Holds, Caches
    <3>2. CASE \E i \in Slots : Holds(i, s)
      BY <1>a, <2>2, <3>1, <3>2 DEF CurrentFact, CurrentFacts
    <3>3. CASE \A i \in Slots : ~ Holds(i, s)
      BY <1>12, <1>a, <2>2, <3>3 DEF CopyIn, CurrentFact, CurrentFacts
    <3> QED
      BY <3>2, <3>3
  <2> QED
    <3>1. View' = [View EXCEPT ![req[t].sector] = req[t].data]
      BY <2>0, <2>3, <2>4 DEF View
    <3> QED
      BY <1>12, <1>c, <2>0, <3>1 DEF CopyIn, Return, Store!Write, View
<1>13. ASSUME NEW t \in Threads, SweepDone(t) PROVE Store!Close(t)
  <2>0. lock = t /\ pc[t] = "sweep" /\ req[t].op = "close"
    BY <1>13 DEF SweepDone, IInv, LocalInv, LockInv, Inside
  <2>1. \A i \in Slots : ~ (cache[i].occupied /\ cache[i].dirty)
    <3>1. \A i \in Slots : i < N
      BY SizeAssumption DEF Slots
    <3> QED
      BY <1>13, <3>1 DEF SweepDone, IInv, LocalInv
  <2>2. \A s \in Sectors : Current(s) = disk[s] /\ Current(s)' = disk[s]
    BY <1>13, <1>a, <2>1 DEF SweepDone, CurrentFact, CurrentFacts, Holds, Caches
  <2>3. disk = [s \in Sectors |-> Current(s)]
    BY <1>b, <2>2 DEF TypeOK
  <2> QED
    BY <1>13, <1>c, <2>0, <2>2, <2>3 DEF SweepDone, Return, Store!Close
<1>14. ASSUME Reset PROVE Store!Reset
  <2>1. \A s \in Sectors : Current(s)' = disk[s]
    BY <1>14 DEF Reset, BlankCache, BlankEntry, Current, Holds, Caches
  <2>2. [s \in Sectors |-> Current(s)]' = disk
    BY <2>1, <1>b DEF TypeOK
  <2> QED
    BY <1>14, <2>2, <1>c DEF Reset, Store!Reset
<1>15. ASSUME UNCHANGED vars PROVE UNCHANGED Store!vars
  <2>1. \A s \in Sectors : Current(s)' = Current(s)
    BY <1>15 DEF vars, Current, Holds, Caches, Loading
  <2> QED
    BY <1>15, <1>v, <2>1 DEF vars
<1> QED
  BY <1>1, <1>2, <1>3, <1>4, <1>5, <1>6, <1>7, <1>8, <1>9, <1>10, <1>11, <1>12, <1>13, <1>14, <1>15, <1>c DEF Next, HolderStep, Store!Next

\* The buffer cache implements the abstract store.
THEOREM CacheImplementsStore == Spec => StoreSpec
BY CacheInvariant, InitRefines, StepRefines, PTL DEF Spec, StoreSpec, Store!Spec

-------------------------------------------------------------------------------
(* The interrupt queues                                                    *)

Readers == {"getc", "getc_asleep", "getc_awake"}
Printers == {"putc", "putc_asleep", "putc_awake"}

\* Who is at a queue has the lock of its callers.
Serialised ==
  \A p \in Procs :
    /\ place[p] \in Readers => filesys_lock = p
    /\ place[p] \in Printers => console_lock = p

\* Who sleeps at a queue, or has just slept there, has the lock of the queue.
QueueLocked ==
  \A p \in Procs :
    /\ input.lock = p <=> place[p] \in Readers \ {"getc"}
    /\ txq.lock = p <=> place[p] \in Printers \ {"putc"}

\* Interrupt handlers never wait: each queue is waited for at one end only.
OneSided == input.not_full = None /\ txq.not_empty = None

SerialInv ==
  SerialTypeOK /\ NeverPanics /\ SleepersKnown /\ Serialised /\ QueueLocked /\ OneSided

\* Positions stay in the buffer.
LEMMA NextType ==
  ASSUME NEW pos \in 0 .. BUFSIZE - 1
  PROVE  next(pos) \in 0 .. BUFSIZE - 1
  BY BufsizeAssumption, SMTT(30) DEF next

\* Putting a byte leaves a queue, with nobody waiting for one.
LEMMA PutType ==
  ASSUME NEW B, NEW q \in Queues(B), NEW b \in B
  PROVE  /\ WithPut(q, b) \in Queues(B)
         /\ WithPut(q, b).not_empty = None
         /\ WithPut(q, b).not_full = q.not_full
         /\ WithPut(q, b).lock = q.lock
         /\ WithPut(q, b).head = next(q.head)
         /\ WithPut(q, b).tail = q.tail
  BY NextType DEF WithPut, Queues

\* Taking a byte leaves a queue, with nobody waiting for room.
LEMMA GetType ==
  ASSUME NEW B, NEW q \in Queues(B)
  PROVE  /\ WithGet(q) \in Queues(B)
         /\ WithGet(q).not_full = None
         /\ WithGet(q).not_empty = q.not_empty
         /\ WithGet(q).lock = q.lock
         /\ WithGet(q).tail = next(q.tail)
         /\ WithGet(q).head = q.head
  BY NextType DEF WithGet, Queues

\* What signal does to the processes.
LEMMA WokenType ==
  ASSUME SerialInv, NEW w \in Procs \union {None},
         w = None \/ place[w] \in {"getc_asleep", "putc_asleep"}
  PROVE  /\ Woken(w) \in [Procs -> Labels]
         /\ \A p \in Procs : p # w => Woken(w)[p] = place[p]
         /\ w # None => Woken(w)[w] = IF place[w] = "getc_asleep" THEN "getc_awake"
                                      ELSE "putc_awake"
  BY NoneAssumption DEF Woken, SerialInv, SerialTypeOK, Labels

\* The steps that only take a lock of the callers.
LEMMA CallerSteps ==
  ASSUME SerialInv, NEW p \in Procs,
         Read(p) \/ putbuf(p) \/ ReadLocked(p) \/ PrintLocked(p)
  PROVE  SerialInv'
<1>1. /\ input' = input /\ txq' = txq /\ ier' = ier /\ rbr' = rbr /\ thr' = thr
      /\ off' = off /\ panic' = panic
      /\ key' \in Keys \union {None}
      /\ \/ place[p] \in {"user", "read", "print"} /\ place' = [place EXCEPT ![p] = "read"]
         \/ place[p] \in {"user", "read", "print"} /\ place' = [place EXCEPT ![p] = "print"]
         \/ /\ place[p] \in {"user", "read", "print"} /\ place' = [place EXCEPT ![p] = "getc"]
            /\ filesys_lock = None /\ filesys_lock' = p
         \/ /\ place[p] \in {"user", "read", "print"} /\ place' = [place EXCEPT ![p] = "putc"]
            /\ console_lock = None /\ console_lock' = p
      /\ filesys_lock' = filesys_lock \/ (filesys_lock = None /\ filesys_lock' = p)
      /\ console_lock' = console_lock \/ (console_lock = None /\ console_lock' = p)
  BY DEF Read, putbuf, ReadLocked, PrintLocked, At, Goto, SerialInv, SerialTypeOK
<1>2. SerialTypeOK'
  BY <1>1 DEF SerialInv, SerialTypeOK, Labels
<1>3. SleepersKnown'
  BY <1>1 DEF SerialInv, SerialTypeOK, SleepersKnown, Empty, Full
<1>4. Serialised' /\ QueueLocked'
  BY <1>1, NoneAssumption DEF SerialInv, SerialTypeOK, Serialised, QueueLocked, Readers, Printers
<1> QED
  BY <1>1, <1>2, <1>3, <1>4 DEF SerialInv, NeverPanics, OneSided

\* intq_getc: a reader takes a key, or goes to sleep on an empty queue whose
\* lock is free, since every other reader is kept out by filesys_lock.
LEMMA GetcStep ==
  ASSUME SerialInv, NEW p \in Procs, Getc(p)
  PROVE  SerialInv'
<1>1. place[p] = "getc" /\ filesys_lock = p /\ p # None
  <2>1. place[p] = "getc"
    BY DEF Getc, At
  <2>2. "getc" \in Readers
    BY DEF Readers
  <2>3. filesys_lock = p
    BY <2>1, <2>2 DEF SerialInv, Serialised
  <2> QED
    BY <2>1, <2>3, NoneAssumption
<1>2. \A q \in Procs : q # p => place[q] \notin Readers
  <2> SUFFICES ASSUME NEW q \in Procs, place[q] \in Readers PROVE q = p
    OBVIOUS
  <2>1. filesys_lock = q
    BY DEF SerialInv, Serialised
  <2> QED
    BY <2>1, <1>1
<1>3. input \in Queues(Keys) /\ txq \in Queues(Text) /\ place \in [Procs -> Labels]
  BY DEF SerialInv, SerialTypeOK
<1>4. input.lock = None /\ input.not_empty = None /\ input.not_full = None
  <2>1. \A q \in Procs : input.lock # q /\ input.not_empty # q
    <3> SUFFICES ASSUME NEW q \in Procs PROVE input.lock # q /\ input.not_empty # q
      OBVIOUS
    <3>1. place[q] \notin {"getc_asleep", "getc_awake"}
      BY <1>1, <1>2 DEF Readers
    <3> QED
      BY <3>1 DEF SerialInv, QueueLocked, SleepersKnown, Readers
  <2> QED
    BY <2>1, <1>3 DEF Queues, SerialInv, OneSided
<1>5. /\ UNCHANGED << console_lock, txq, rbr, thr, off >>
      /\ \/ ~Empty(input) /\ GetByte(p) /\ UNCHANGED panic
         \/ Empty(input) /\ WaitInput(p) /\ UNCHANGED << filesys_lock, ier, key >>
  BY DEF Getc
<1>a. CASE ~Empty(input) /\ GetByte(p) /\ UNCHANGED panic
  <2>1. /\ place' = [place EXCEPT ![p] = "user"]
        /\ filesys_lock' = None /\ input' = WithGet(input)
        /\ ier' \subseteq {"recv", "xmit"} /\ key' = input.buf[input.tail]
    <3>1. Woken(None) = place
      BY <1>3, NoneAssumption DEF Woken
    <3> QED
      BY <3>1, <1>4, <1>a DEF GetByte, Ier
  <2>2. key' \in Keys \union {None}
    BY <2>1, <1>3 DEF Queues
  <2>3. /\ input' \in Queues(Keys) /\ input'.lock = None
        /\ input'.not_full = None /\ input'.not_empty = None
    BY <2>1, <1>3, <1>4, GetType
  <2>4. SerialTypeOK'
    BY <2>1, <2>2, <2>3, <1>5, <1>a DEF SerialInv, SerialTypeOK, Labels
  <2>5. SleepersKnown'
    BY <2>1, <2>3, <1>1, <1>2, <1>3, <1>5, NoneAssumption
    DEF SerialInv, SleepersKnown, Full, Readers
  <2>6. Serialised' /\ QueueLocked' /\ OneSided'
    BY <2>1, <2>3, <1>1, <1>2, <1>3, <1>5, NoneAssumption
    DEF SerialInv, Serialised, QueueLocked, OneSided, Readers, Printers
  <2> QED
    BY <2>4, <2>5, <2>6, <1>a DEF SerialInv, NeverPanics
<1>b. CASE Empty(input) /\ WaitInput(p) /\ UNCHANGED << filesys_lock, ier, key >>
  <2>1. /\ place' = [place EXCEPT ![p] = "getc_asleep"] /\ panic' = FALSE
        /\ input' = [input EXCEPT !.lock = p, !.not_empty = p]
    BY <1>b, <1>4 DEF WaitInput, Goto, SerialInv, NeverPanics
  <2>2. /\ input' \in Queues(Keys) /\ input'.lock = p
        /\ input'.not_full = None /\ input'.not_empty = p
        /\ Empty(input)'
    BY <2>1, <1>3, <1>4, <1>b DEF Queues, Empty
  <2>3. SerialTypeOK'
    BY <2>1, <2>2, <1>5, <1>b DEF SerialInv, SerialTypeOK, Labels
  <2>4. SleepersKnown'
    BY <2>1, <2>2, <1>1, <1>2, <1>3, <1>5, NoneAssumption
    DEF SerialInv, SleepersKnown, Full, Readers
  <2>5. Serialised' /\ QueueLocked' /\ OneSided'
    BY <2>1, <2>2, <1>1, <1>2, <1>3, <1>5, <1>b, NoneAssumption
    DEF SerialInv, Serialised, QueueLocked, OneSided, Readers, Printers
  <2> QED
    BY <2>1, <2>3, <2>4, <2>5 DEF SerialInv, NeverPanics
<1> QED
  BY <1>5, <1>a, <1>b

\* The reader runs again and gives the lock of the queue back.
LEMMA GetcAwakeStep ==
  ASSUME SerialInv, NEW p \in Procs, GetcAwake(p)
  PROVE  SerialInv'
<1>1. /\ place[p] = "getc_awake" /\ place' = [place EXCEPT ![p] = "getc"]
      /\ input' = [input EXCEPT !.lock = None]
      /\ UNCHANGED << filesys_lock, console_lock, txq, ier, rbr, thr, key, off, panic >>
  BY DEF GetcAwake, At, Goto
<1>2. input \in Queues(Keys) /\ place \in [Procs -> Labels]
  BY DEF SerialInv, SerialTypeOK
<1>3. \A q \in Procs : q # p => place[q] \notin Readers
  BY <1>1 DEF SerialInv, Serialised, Readers
<1>4. /\ input' \in Queues(Keys) /\ input'.lock = None
      /\ input'.not_full = input.not_full /\ input'.not_empty = input.not_empty
      /\ Empty(input)' = Empty(input)
  BY <1>1, <1>2 DEF Queues, Empty
<1>5. SerialTypeOK'
  BY <1>1, <1>4 DEF SerialInv, SerialTypeOK, Labels
<1>6. SleepersKnown'
  BY <1>1, <1>2, <1>4 DEF SerialInv, SleepersKnown, Full
<1>7. Serialised' /\ QueueLocked' /\ OneSided'
  BY <1>1, <1>2, <1>3, <1>4, NoneAssumption
  DEF SerialInv, Serialised, QueueLocked, OneSided, Readers, Printers
<1> QED
  BY <1>1, <1>5, <1>6, <1>7 DEF SerialInv, NeverPanics

\* intq_putc: the same for the thread that prints and console_lock.
LEMMA PutcStep ==
  ASSUME SerialInv, NEW p \in Procs, Putc(p)
  PROVE  SerialInv'
<1>1. place[p] = "putc" /\ console_lock = p /\ p # None
  BY NoneAssumption DEF Putc, At, SerialInv, Serialised, Printers
<1>2. \A q \in Procs : q # p => place[q] \notin Printers
  BY <1>1 DEF SerialInv, Serialised
<1>3. input \in Queues(Keys) /\ txq \in Queues(Text) /\ place \in [Procs -> Labels]
  BY DEF SerialInv, SerialTypeOK
<1>4. txq.lock = None /\ txq.not_empty = None /\ txq.not_full = None
  <2>1. \A q \in Procs : txq.lock # q /\ txq.not_full # q
    <3> SUFFICES ASSUME NEW q \in Procs PROVE txq.lock # q /\ txq.not_full # q
      OBVIOUS
    <3>1. place[q] \notin {"putc_asleep", "putc_awake"}
      BY <1>1, <1>2 DEF Printers
    <3> QED
      BY <3>1 DEF SerialInv, QueueLocked, SleepersKnown, Printers
  <2> QED
    BY <2>1, <1>3 DEF Queues, SerialInv, OneSided
<1>5. /\ UNCHANGED << filesys_lock, input, rbr, thr, key, off >>
      /\ \/ ~Full(txq) /\ (\E b \in Text : PutByte(p, b)) /\ UNCHANGED panic
         \/ Full(txq) /\ WaitTxq(p) /\ UNCHANGED << console_lock, ier >>
  BY DEF Putc
<1>a. ASSUME NEW b \in Text, PutByte(p, b), UNCHANGED panic
      PROVE  SerialInv'
  <2>1. /\ place' = [place EXCEPT ![p] = "user"]
        /\ console_lock' = None /\ txq' = WithPut(txq, b)
        /\ ier' \subseteq {"recv", "xmit"}
    <3>1. Woken(None) = place
      BY <1>3, NoneAssumption DEF Woken
    <3> QED
      BY <3>1, <1>4, <1>a DEF PutByte, Ier
  <2>2. /\ txq' \in Queues(Text) /\ txq'.lock = None
        /\ txq'.not_full = None /\ txq'.not_empty = None
    BY <2>1, <1>3, <1>4, PutType
  <2>3. SerialTypeOK'
    BY <2>1, <2>2, <1>5, <1>a DEF SerialInv, SerialTypeOK, Labels
  <2>4. SleepersKnown'
    BY <2>1, <2>2, <1>1, <1>2, <1>3, <1>5, NoneAssumption
    DEF SerialInv, SleepersKnown, Empty, Printers
  <2>5. Serialised' /\ QueueLocked' /\ OneSided'
    BY <2>1, <2>2, <1>1, <1>2, <1>3, <1>5, NoneAssumption
    DEF SerialInv, Serialised, QueueLocked, OneSided, Readers, Printers
  <2> QED
    BY <2>3, <2>4, <2>5, <1>a DEF SerialInv, NeverPanics
<1>b. CASE Full(txq) /\ WaitTxq(p) /\ UNCHANGED << console_lock, ier >>
  <2>1. /\ place' = [place EXCEPT ![p] = "putc_asleep"] /\ panic' = FALSE
        /\ txq' = [txq EXCEPT !.lock = p, !.not_full = p]
    BY <1>b, <1>4 DEF WaitTxq, Goto, SerialInv, NeverPanics
  <2>2. /\ txq' \in Queues(Text) /\ txq'.lock = p
        /\ txq'.not_full = p /\ txq'.not_empty = None
        /\ Full(txq)'
    BY <2>1, <1>3, <1>4, <1>b DEF Queues, Full
  <2>3. SerialTypeOK'
    BY <2>1, <2>2, <1>5, <1>b DEF SerialInv, SerialTypeOK, Labels
  <2>4. SleepersKnown'
    BY <2>1, <2>2, <1>1, <1>2, <1>3, <1>5, NoneAssumption
    DEF SerialInv, SleepersKnown, Empty, Printers
  <2>5. Serialised' /\ QueueLocked' /\ OneSided'
    BY <2>1, <2>2, <1>1, <1>2, <1>3, <1>5, <1>b, NoneAssumption
    DEF SerialInv, Serialised, QueueLocked, OneSided, Readers, Printers
  <2> QED
    BY <2>1, <2>3, <2>4, <2>5 DEF SerialInv, NeverPanics
<1> QED
  BY <1>5, <1>a, <1>b

\* The thread that prints runs again and gives the lock of the queue back.
LEMMA PutcAwakeStep ==
  ASSUME SerialInv, NEW p \in Procs, PutcAwake(p)
  PROVE  SerialInv'
<1>1. /\ place[p] = "putc_awake" /\ place' = [place EXCEPT ![p] = "putc"]
      /\ txq' = [txq EXCEPT !.lock = None]
      /\ UNCHANGED << filesys_lock, console_lock, input, ier, rbr, thr, key, off, panic >>
  BY DEF PutcAwake, At, Goto
<1>2. txq \in Queues(Text) /\ place \in [Procs -> Labels]
  BY DEF SerialInv, SerialTypeOK
<1>3. \A q \in Procs : q # p => place[q] \notin Printers
  BY <1>1 DEF SerialInv, Serialised, Printers
<1>4. /\ txq' \in Queues(Text) /\ txq'.lock = None
      /\ txq'.not_full = txq.not_full /\ txq'.not_empty = txq.not_empty
      /\ Full(txq)' = Full(txq)
  BY <1>1, <1>2 DEF Queues, Full
<1>5. SerialTypeOK'
  BY <1>1, <1>4 DEF SerialInv, SerialTypeOK, Labels
<1>6. SleepersKnown'
  BY <1>1, <1>2, <1>4 DEF SerialInv, SleepersKnown, Empty
<1>7. Serialised' /\ QueueLocked' /\ OneSided'
  BY <1>1, <1>2, <1>3, <1>4, NoneAssumption
  DEF SerialInv, Serialised, QueueLocked, OneSided, Readers, Printers
<1> QED
  BY <1>1, <1>5, <1>6, <1>7 DEF SerialInv, NeverPanics

\* What every step with interrupts off has in common: g says that it changes
\* the input queue and wakes its reader, s that it changes the other and wakes
\* its printer.  The locks stay as they are.
LEMMA InterruptKeeps ==
  ASSUME SerialInv, NEW g \in BOOLEAN, NEW s \in BOOLEAN,
         input' \in Queues(Keys), txq' \in Queues(Text),
         input'.lock = input.lock, txq'.lock = txq.lock,
         input'.not_full = None, txq'.not_empty = None,
         input'.not_empty = IF g THEN None ELSE input.not_empty,
         txq'.not_full = IF s THEN None ELSE txq.not_full,
         ~g => input' = input,
         ~s => txq' = txq \/ ~Full(txq),
         place' \in [Procs -> Labels],
         \A p \in Procs :
           place'[p] = IF g /\ p = input.not_empty THEN "getc_awake"
                    ELSE IF s /\ p = txq.not_full THEN "putc_awake" ELSE place[p],
         ier' \subseteq {"recv", "xmit"}, rbr' \in BOOLEAN,
         thr' \in Text \union {None}, off' \in 0 .. MaxOff,
         UNCHANGED << filesys_lock, console_lock, key, panic >>
  PROVE  SerialInv'
<1>1. SerialTypeOK'
  BY DEF SerialInv, SerialTypeOK
<1>2. \A p \in Procs : /\ input.not_empty = p <=> place[p] = "getc_asleep"
                       /\ txq.not_full = p <=> place[p] = "putc_asleep"
                       /\ place[p] = "getc_asleep" => Empty(input)
                       /\ place[p] = "putc_asleep" => Full(txq)
                       /\ p # None
  BY NoneAssumption DEF SerialInv, SleepersKnown
<1>3. SleepersKnown'
  <2> SUFFICES ASSUME NEW p \in Procs
               PROVE  /\ place'[p] = "getc_asleep" => Empty(input')
                      /\ place'[p] = "putc_asleep" => Full(txq')
                      /\ input'.not_empty = p <=> place'[p] = "getc_asleep"
                      /\ txq'.not_full = p <=> place'[p] = "putc_asleep"
    BY DEF SleepersKnown
  <2> QED
    BY <1>2
<1>4. Serialised' /\ QueueLocked'
  <2> SUFFICES ASSUME NEW p \in Procs
               PROVE  /\ place'[p] \in Readers => filesys_lock' = p
                      /\ place'[p] \in Printers => console_lock' = p
                      /\ input'.lock = p <=> place'[p] \in Readers \ {"getc"}
                      /\ txq'.lock = p <=> place'[p] \in Printers \ {"putc"}
    BY DEF Serialised, QueueLocked
  <2> QED
    BY <1>2 DEF SerialInv, Serialised, QueueLocked, Readers, Printers
<1> QED
  BY <1>1, <1>3, <1>4 DEF SerialInv, NeverPanics, OneSided

\* What a handler finds: the sleepers, at the ends where one may sleep.
LEMMA Found ==
  ASSUME SerialInv
  PROVE  /\ input \in Queues(Keys) /\ txq \in Queues(Text)
         /\ place \in [Procs -> Labels] /\ ier \subseteq {"recv", "xmit"}
         /\ rbr \in BOOLEAN /\ thr \in Text \union {None} /\ off \in 0 .. MaxOff
         /\ None \notin Procs
         /\ input.not_full = None /\ txq.not_empty = None
         /\ \A p \in Procs : input.not_empty = p => place[p] = "getc_asleep"
         /\ \A p \in Procs : txq.not_full = p => place[p] = "putc_asleep" /\ Full(txq)
  BY NoneAssumption DEF SerialInv, SerialTypeOK, OneSided, SleepersKnown

\* serial_putc with interrupts off.
LEMMA PrintOffStep ==
  ASSUME SerialInv, NEW b \in Text, PrintOff(b)
  PROVE  SerialInv'
<1> DEFINE q == IF Full(txq) THEN WithGet(txq) ELSE txq
<1>1. /\ txq' = WithPut(q, b)
      /\ place' = (IF Full(txq) THEN Woken(txq.not_full) ELSE Woken(txq.not_empty))
      /\ thr' = (IF Full(txq) THEN txq.buf[txq.tail] ELSE thr)
      /\ ier' = Ier(input, txq') /\ off < MaxOff /\ off' = off + 1
      /\ UNCHANGED << filesys_lock, console_lock, input, rbr, key, panic >>
  BY DEF PrintOff
<1>2. q \in Queues(Text) /\ q.lock = txq.lock /\ q.not_empty = None
      /\ q.not_full = IF Full(txq) THEN None ELSE txq.not_full
  BY Found, GetType
<1>3. txq' \in Queues(Text) /\ txq'.lock = txq.lock /\ txq'.not_empty = None
      /\ txq'.not_full = IF Full(txq) THEN None ELSE txq.not_full
  BY <1>1, <1>2, PutType
<1>4. thr' \in Text \union {None}
  BY <1>1, Found DEF Queues
<1>5. ier' \subseteq {"recv", "xmit"} /\ off' \in 0 .. MaxOff
  BY <1>1, Found, MaxOffAssumption DEF Ier
<1>6. /\ place' \in [Procs -> Labels]
      /\ \A p \in Procs :
           place'[p] = IF FALSE /\ p = input.not_empty THEN "getc_awake"
                    ELSE IF Full(txq) /\ p = txq.not_full THEN "putc_awake" ELSE place[p]
  BY <1>1, Found DEF Woken, Labels
<1>7. Full(txq) \in BOOLEAN
  BY DEF Full
<1> HIDE DEF q
<1> QED
  BY <1>1, <1>3, <1>4, <1>5, <1>6, <1>7, Found, InterruptKeeps

\* serial_flush.
LEMMA FlushStep ==
  ASSUME SerialInv, serial_flush
  PROVE  SerialInv'
<1>1. /\ txq' = [EmptyQueue EXCEPT !.head = txq.head, !.tail = txq.head,
                                   !.lock = txq.lock, !.not_empty = txq.not_empty]
      /\ place' = Woken(txq.not_full)
      /\ thr' = IF Empty(txq) THEN thr
                              ELSE txq.buf[(txq.head + BUFSIZE - 1) % BUFSIZE]
      /\ off < MaxOff /\ off' = off + 1
      /\ UNCHANGED << filesys_lock, console_lock, input, ier, rbr, key, panic >>
  BY DEF serial_flush
<1>2. txq' \in Queues(Text) /\ txq'.lock = txq.lock /\ txq'.not_empty = None
      /\ txq'.not_full = None
  BY <1>1, Found DEF EmptyQueue, Queues
<1>3. (txq.head + BUFSIZE - 1) % BUFSIZE \in 0 .. BUFSIZE - 1
  BY Found, BufsizeAssumption DEF Queues
<1>4. thr' \in Text \union {None}
  BY <1>1, <1>3, Found DEF Queues
<1>5. off' \in 0 .. MaxOff
  BY <1>1, Found, MaxOffAssumption
<1>6. /\ place' \in [Procs -> Labels]
      /\ \A p \in Procs :
           place'[p] = IF FALSE /\ p = input.not_empty THEN "getc_awake"
                    ELSE IF TRUE /\ p = txq.not_full THEN "putc_awake" ELSE place[p]
  BY <1>1, Found DEF Woken, Labels
<1> QED
  BY <1>1, <1>2, <1>4, <1>5, <1>6, Found, InterruptKeeps

\* input_putc from the keyboard.
LEMMA KeyboardStep ==
  ASSUME SerialInv, NEW b \in Keys, keyboard_interrupt(b)
  PROVE  SerialInv'
<1>1. UNCHANGED << filesys_lock, console_lock, txq, rbr, thr, key, off, panic >>
  BY DEF keyboard_interrupt
<1>2. Full(input) \in BOOLEAN
  BY DEF Full
<1>3. IF Full(input) THEN UNCHANGED << place, input, ier >>
      ELSE /\ input' = WithPut(input, b)
           /\ place' = Woken(input.not_empty)
           /\ ier' = Ier(input', txq)
  BY DEF keyboard_interrupt
<1>4. /\ input' \in Queues(Keys) /\ input'.lock = input.lock /\ input'.not_full = None
      /\ input'.not_empty = IF ~Full(input) THEN None ELSE input.not_empty
      /\ Full(input) => input' = input
  BY <1>3, Found, PutType
<1>5. ier' \subseteq {"recv", "xmit"}
  BY <1>3, Found DEF Ier
<1>6. /\ place' \in [Procs -> Labels]
      /\ \A p \in Procs :
           place'[p] = IF ~Full(input) /\ p = input.not_empty THEN "getc_awake"
                    ELSE IF FALSE /\ p = txq.not_full THEN "putc_awake" ELSE place[p]
  BY <1>3, Found DEF Woken, Labels
<1> QED
  BY <1>1, <1>2, <1>4, <1>5, <1>6, Found, InterruptKeeps

\* serial_interrupt, which may serve both queues.
LEMMA SerialStep ==
  ASSUME SerialInv, serial_interrupt
  PROVE  SerialInv'
<1> DEFINE gets == rbr /\ ~Full(input)
           sends == thr = None /\ ~Empty(txq)
<1>1. PICK b \in Keys : input' = IF gets THEN WithPut(input, b) ELSE input
  BY DEF serial_interrupt
<1>2. /\ txq' = IF sends THEN WithGet(txq) ELSE txq
      /\ place' = [p \in Procs |-> IF gets /\ p = input.not_empty THEN Woken(p)[p]
                                ELSE IF sends /\ p = txq.not_full THEN Woken(p)[p]
                                ELSE place[p]]
      /\ rbr' = (rbr /\ ~gets)
      /\ thr' = IF sends THEN txq.buf[txq.tail] ELSE thr
      /\ ier' = Ier(input', txq')
      /\ UNCHANGED << filesys_lock, console_lock, key, off, panic >>
  BY DEF serial_interrupt
<1>3. gets \in BOOLEAN /\ sends \in BOOLEAN
  BY Found DEF Full, Empty
<1>4. /\ input' \in Queues(Keys) /\ input'.lock = input.lock /\ input'.not_full = None
      /\ input'.not_empty = IF gets THEN None ELSE input.not_empty
      /\ ~gets => input' = input
  BY <1>1, Found, PutType
<1>5. /\ txq' \in Queues(Text) /\ txq'.lock = txq.lock /\ txq'.not_empty = None
      /\ txq'.not_full = IF sends THEN None ELSE txq.not_full
      /\ ~sends => txq' = txq
  BY <1>2, Found, GetType
<1>6. /\ place' \in [Procs -> Labels]
      /\ \A p \in Procs :
           place'[p] = IF gets /\ p = input.not_empty THEN "getc_awake"
                    ELSE IF sends /\ p = txq.not_full THEN "putc_awake" ELSE place[p]
  <2>1. \A p \in Procs : /\ p = input.not_empty => Woken(p)[p] = "getc_awake"
                         /\ p = txq.not_full => Woken(p)[p] = "putc_awake"
    BY Found DEF Woken
  <2>2. \A p \in Procs :
           place'[p] = IF gets /\ p = input.not_empty THEN "getc_awake"
                    ELSE IF sends /\ p = txq.not_full THEN "putc_awake" ELSE place[p]
    BY <1>2, <2>1
  <2>3. place' \in [Procs -> Labels]
    BY <1>2, <2>1, Found DEF Labels
  <2> QED
    BY <2>2, <2>3
<1>7. rbr' \in BOOLEAN /\ thr' \in Text \union {None} /\ ier' \subseteq {"recv", "xmit"}
  BY <1>2, <1>3, Found DEF Queues, Ier
<1> HIDE DEF gets, sends
<1> QED
  BY <1>2, <1>3, <1>4, <1>5, <1>6, <1>7, Found, InterruptKeeps

\* The port, which touches neither queue.
LEMMA PortStep ==
  ASSUME SerialInv, Receives \/ Sends
  PROVE  SerialInv'
<1>1. /\ UNCHANGED << place, filesys_lock, console_lock, input, txq, ier, key, off, panic >>
      /\ rbr' \in BOOLEAN /\ thr' \in Text \union {None}
  BY Found DEF Receives, Sends
<1> QED
  BY <1>1 DEF SerialInv, SerialTypeOK, NeverPanics, SleepersKnown, Serialised, QueueLocked,
              OneSided, Full, Empty

\* Every step keeps the invariant.
LEMMA SerialInvKept ==
  SerialInv /\ [SerialNext]_serial_vars => SerialInv'
<1> SUFFICES ASSUME SerialInv, [SerialNext]_serial_vars PROVE SerialInv'
  OBVIOUS
<1>1. CASE \E p \in Procs : Read(p) \/ putbuf(p) \/ Step(p)
  BY <1>1, CallerSteps, GetcStep, GetcAwakeStep, PutcStep, PutcAwakeStep DEF Step
<1>2. CASE \E b \in Text : PrintOff(b)
  BY <1>2, PrintOffStep
<1>3. CASE \E b \in Keys : keyboard_interrupt(b)
  BY <1>3, KeyboardStep
<1>4. CASE serial_flush
  BY <1>4, FlushStep
<1>5. CASE serial_interrupt
  BY <1>5, SerialStep
<1>6. CASE Receives \/ Sends
  BY <1>6, PortStep
<1>7. CASE UNCHANGED serial_vars
  BY <1>7 DEF serial_vars, SerialInv, SerialTypeOK, NeverPanics, SleepersKnown, Serialised,
              QueueLocked, OneSided, Full, Empty
<1> QED
  BY <1>1, <1>2, <1>3, <1>4, <1>5, <1>6, <1>7 DEF SerialNext

\* The invariant holds from the start, when both queues are empty.
THEOREM SerialInvariant == SerialSpec => []SerialInv
<1>1. SerialInit => SerialInv
  <2> SUFFICES ASSUME SerialInit PROVE SerialInv
    OBVIOUS
  <2>1. EmptyQueue \in Queues(Keys) /\ EmptyQueue \in Queues(Text)
    BY BufsizeAssumption DEF EmptyQueue, Queues
  <2>2. place \in [Procs -> Labels] /\ ier \subseteq {"recv", "xmit"} /\ off \in 0 .. MaxOff
    BY MaxOffAssumption DEF SerialInit, Labels
  <2>3. SerialTypeOK
    BY <2>1, <2>2 DEF SerialInit, SerialTypeOK
  <2> QED
    BY <2>3, NoneAssumption
    DEF SerialInit, SerialInv, NeverPanics, SleepersKnown, Serialised, QueueLocked, OneSided,
        Readers, Printers, EmptyQueue
<1> QED
  BY <1>1, SerialInvKept, PTL DEF SerialSpec

\* intq.c:46, 67 and 91: wait is never entered with the queue changed while its
\* lock was waited for, since there is never anybody to wait for it.
THEOREM QueuesNeverPanic == SerialSpec => []NeverPanics
  BY SerialInvariant, PTL DEF SerialInv

\* intq.c:86-114: the thread on a pointer of the queue is the one asleep there,
\* with nothing for it to take.
THEOREM SleepersAreKnown == SerialSpec => []SleepersKnown
  BY SerialInvariant, PTL DEF SerialInv

-------------------------------------------------------------------------------
(* The queues are those of ByteQueue.                                      *)

\* A position below twice the size of the buffer, taken round its end.
LEMMA Round ==
  ASSUME NEW x \in 0 .. 2 * BUFSIZE - 1
  PROVE  x % BUFSIZE = IF x < BUFSIZE THEN x ELSE x - BUFSIZE
<1>1. CASE x < BUFSIZE
  BY <1>1, BufsizeAssumption
<1>2. CASE ~ (x < BUFSIZE)
  BY <1>2, BufsizeAssumption
<1> QED
  BY <1>1, <1>2

\* The number of bytes between tail and head, and where the i-th of them is.
Count(head, tail) == IF tail <= head THEN head - tail ELSE head + BUFSIZE - tail
Place(tail, i) == IF tail + i - 1 < BUFSIZE THEN tail + i - 1 ELSE tail + i - 1 - BUFSIZE

\* Positions of head, tail and what is between them.
LEMMA Positions ==
  ASSUME NEW h \in 0 .. BUFSIZE - 1, NEW t \in 0 .. BUFSIZE - 1
  PROVE  /\ Count(h, t) \in 0 .. BUFSIZE - 1
         /\ h = t <=> Count(h, t) = 0
         /\ next(h) = t <=> Count(h, t) = BUFSIZE - 1
         /\ Place(t, 1) = t /\ Place(t, Count(h, t) + 1) = h
         /\ \A i \in 1 .. Count(h, t) : Place(t, i) # h /\ Place(t, i) \in 0 .. BUFSIZE - 1
         /\ next(h) # t => Count(next(h), t) = Count(h, t) + 1
         /\ h # t => Count(h, next(t)) = Count(h, t) - 1
         /\ \A i \in 1 .. Count(h, t) - 1 : /\ Place(next(t), i) = Place(t, i + 1)
                                             /\ Place(t, i + 1) # t
<1>b. BUFSIZE \in Nat /\ BUFSIZE > 1
  BY BufsizeAssumption
<1>1. /\ next(h) = IF h = BUFSIZE - 1 THEN 0 ELSE h + 1
      /\ next(t) = IF t = BUFSIZE - 1 THEN 0 ELSE t + 1
  <2>1. h + 1 \in 0 .. 2 * BUFSIZE - 1 /\ t + 1 \in 0 .. 2 * BUFSIZE - 1
    BY <1>b
  <2> QED
    BY <1>b, <2>1, Round DEF next
<1>2. Count(h, t) \in 0 .. BUFSIZE - 1 /\ (h = t <=> Count(h, t) = 0)
  BY <1>b DEF Count
<1>3. next(h) = t <=> Count(h, t) = BUFSIZE - 1
  BY <1>b, <1>1 DEF Count
<1>4. Place(t, 1) = t /\ Place(t, Count(h, t) + 1) = h
  <2>1. Place(t, 1) = t
    BY <1>b DEF Place
  <2>2. CASE t <= h
    BY <1>b, <2>1, <2>2 DEF Place, Count
  <2>3. CASE ~ (t <= h)
    BY <1>b, <2>1, <2>3 DEF Place, Count
  <2> QED
    BY <2>2, <2>3
<1>5. \A i \in 1 .. Count(h, t) : Place(t, i) # h /\ Place(t, i) \in 0 .. BUFSIZE - 1
  BY <1>b DEF Place, Count
<1>6. next(h) # t => Count(next(h), t) = Count(h, t) + 1
  BY <1>b, <1>1 DEF Count
<1>7. h # t => Count(h, next(t)) = Count(h, t) - 1
  BY <1>b, <1>1 DEF Count
<1>8. \A i \in 1 .. Count(h, t) - 1 : /\ Place(next(t), i) = Place(t, i + 1)
                                      /\ Place(t, i + 1) # t
  <2> SUFFICES ASSUME NEW i \in 1 .. Count(h, t) - 1
               PROVE  Place(next(t), i) = Place(t, i + 1) /\ Place(t, i + 1) # t
    OBVIOUS
  <2>1. i \in 1 .. BUFSIZE - 2
    BY <1>b, <1>2
  <2> HIDE DEF Count
  <2>2. CASE t = BUFSIZE - 1
    BY <1>b, <1>1, <2>1, <2>2 DEF Place
  <2>3. CASE t # BUFSIZE - 1
    BY <1>b, <1>1, <2>1, <2>3 DEF Place
  <2> QED
    BY <2>2, <2>3
<1> QED
  BY <1>2, <1>3, <1>4, <1>5, <1>6, <1>7, <1>8

\* What a queue contains, without remainders.
LEMMA ContentsAre ==
  ASSUME NEW B, NEW q \in Queues(B)
  PROVE  /\ Count(q.head, q.tail) \in 0 .. BUFSIZE - 1
         /\ Contents(q) = [i \in 1 .. Count(q.head, q.tail) |-> q.buf[Place(q.tail, i)]]
         /\ \A i \in 1 .. BUFSIZE : Place(q.tail, i) \in 0 .. BUFSIZE - 1
<1>1. q.head \in 0 .. BUFSIZE - 1 /\ q.tail \in 0 .. BUFSIZE - 1
  BY DEF Queues
<1>2. (q.head + BUFSIZE - q.tail) % BUFSIZE = Count(q.head, q.tail)
  <2>1. q.head + BUFSIZE - q.tail \in 0 .. 2 * BUFSIZE - 1
    BY <1>1, BufsizeAssumption
  <2> QED
    BY <1>1, <2>1, Round, BufsizeAssumption DEF Count
<1>3. Count(q.head, q.tail) \in 0 .. BUFSIZE - 1
  BY <1>1, BufsizeAssumption DEF Count
<1>4. \A i \in 1 .. BUFSIZE : /\ (q.tail + i - 1) % BUFSIZE = Place(q.tail, i)
                              /\ Place(q.tail, i) \in 0 .. BUFSIZE - 1
  <2> SUFFICES ASSUME NEW i \in 1 .. BUFSIZE
               PROVE  /\ (q.tail + i - 1) % BUFSIZE = Place(q.tail, i)
                      /\ Place(q.tail, i) \in 0 .. BUFSIZE - 1
    OBVIOUS
  <2>1. q.tail + i - 1 \in 0 .. 2 * BUFSIZE - 1
    BY <1>1, BufsizeAssumption
  <2> QED
    BY <1>1, <2>1, Round, BufsizeAssumption DEF Place
<1>5. Contents(q) = [i \in 1 .. Count(q.head, q.tail) |-> q.buf[Place(q.tail, i)]]
  <2>1. \A i \in 1 .. Count(q.head, q.tail) : i \in 1 .. BUFSIZE
    BY <1>3, BufsizeAssumption
  <2> QED
    BY <1>2, <1>4, <2>1 DEF Contents
<1> QED
  BY <1>3, <1>4, <1>5

\* They are a sequence, empty or of the length of the buffer but one when the
\* queue says so.
LEMMA ContentsType ==
  ASSUME NEW B, NEW q \in Queues(B)
  PROVE  /\ Contents(q) \in Seq(B \union {None})
         /\ Len(Contents(q)) = Count(q.head, q.tail)
         /\ Empty(q) <=> Count(q.head, q.tail) = 0
         /\ Full(q) <=> Count(q.head, q.tail) = BUFSIZE - 1
<1>1. q.head \in 0 .. BUFSIZE - 1 /\ q.tail \in 0 .. BUFSIZE - 1
      /\ q.buf \in [0 .. BUFSIZE - 1 -> B \union {None}]
  BY DEF Queues
<1>2. Count(q.head, q.tail) \in Nat
  BY ContentsAre
<1>3. \A i \in 1 .. Count(q.head, q.tail) : q.buf[Place(q.tail, i)] \in B \union {None}
  <2>1. \A i \in 1 .. Count(q.head, q.tail) : Place(q.tail, i) \in 0 .. BUFSIZE - 1
    BY ContentsAre, BufsizeAssumption
  <2> QED
    BY <1>1, <2>1
<1>4. Contents(q) \in Seq(B \union {None}) /\ Len(Contents(q)) = Count(q.head, q.tail)
  BY <1>2, <1>3, ContentsAre
<1>5. Empty(q) <=> Count(q.head, q.tail) = 0
  <2>1. q.head = q.tail <=> Count(q.head, q.tail) = 0
    <3>1. \A h, t \in 0 .. BUFSIZE - 1 : h = t <=> Count(h, t) = 0
      BY Positions
    <3> QED
      BY <1>1, <3>1
  <2> QED
    BY <2>1 DEF Empty
<1>6. Full(q) <=> Count(q.head, q.tail) = BUFSIZE - 1
  BY <1>1, Positions DEF Full
<1> QED
  BY <1>4, <1>5, <1>6

\* A byte that is put comes behind the others.
LEMMA PutContents ==
  ASSUME NEW B, NEW q \in Queues(B), NEW b \in B, ~ Full(q)
  PROVE  /\ Contents(WithPut(q, b)) = Append(Contents(q), b)
         /\ Len(Contents(q)) < BUFSIZE - 1
<1>p. PICK r : r = WithPut(q, b)
  OBVIOUS
<1>n. PICK n : n = Count(q.head, q.tail)
  OBVIOUS
<1>1. q.head \in 0 .. BUFSIZE - 1 /\ q.tail \in 0 .. BUFSIZE - 1
      /\ q.buf \in [0 .. BUFSIZE - 1 -> B \union {None}]
  BY DEF Queues
<1>2. n \in 0 .. BUFSIZE - 2 /\ Len(Contents(q)) = n /\ next(q.head) # q.tail
  <2>1. n \in 0 .. BUFSIZE - 1 /\ Len(Contents(q)) = n /\ n # BUFSIZE - 1
    BY <1>n, ContentsAre, ContentsType
  <2> QED
    BY <2>1, BufsizeAssumption DEF Full
<1>3. /\ r \in Queues(B) /\ r.head = next(q.head) /\ r.tail = q.tail
      /\ r.buf = [q.buf EXCEPT ![q.head] = b]
  BY <1>p, PutType DEF WithPut, Queues
<1>4. Count(r.head, r.tail) = n + 1
  <2>1. Count(next(q.head), q.tail) = Count(q.head, q.tail) + 1
    <3>1. \A h, t \in 0 .. BUFSIZE - 1 : next(h) # t => Count(next(h), t) = Count(h, t) + 1
      BY Positions
    <3> QED
      BY <1>1, <1>2, <3>1
  <2> QED
    BY <1>n, <1>3, <2>1
<1>5. Place(q.tail, n + 1) = q.head
  BY <1>n, <1>1, Positions
<1>6. \A i \in 1 .. n : Place(q.tail, i) # q.head /\ Place(q.tail, i) \in 0 .. BUFSIZE - 1
  BY <1>n, <1>1, Positions
<1>7. Contents(r) = [i \in 1 .. n + 1 |-> r.buf[Place(q.tail, i)]]
  <2>1. Contents(r) = [i \in 1 .. Count(r.head, r.tail) |-> r.buf[Place(r.tail, i)]]
    BY <1>3, ContentsAre
  <2> QED
    BY <1>3, <1>4, <2>1
<1>8. Contents(q) = [i \in 1 .. n |-> q.buf[Place(q.tail, i)]]
  BY <1>n, ContentsAre
<1>9. r.buf[q.head] = b /\ \A i \in 1 .. n : r.buf[Place(q.tail, i)] = q.buf[Place(q.tail, i)]
  BY <1>1, <1>3, <1>6
<1>10. Contents(r) = Append(Contents(q), b)
  <2>1. /\ Contents(r) \in Seq(B \union {None}) /\ Len(Contents(r)) = n + 1
        /\ Contents(q) \in Seq(B \union {None}) /\ Len(Contents(q)) = n
    BY <1>2, <1>3, <1>4, ContentsType
  <2>2. /\ Append(Contents(q), b) \in Seq(B \union {None})
        /\ Len(Append(Contents(q), b)) = n + 1
    BY <2>1
  <2>3. \A i \in 1 .. n + 1 : Contents(r)[i] = Append(Contents(q), b)[i]
    <3> SUFFICES ASSUME NEW i \in 1 .. n + 1 PROVE Contents(r)[i] = Append(Contents(q), b)[i]
      OBVIOUS
    <3>1. CASE i = n + 1
      BY <1>2, <1>5, <1>7, <1>9, <2>1, <3>1
    <3>2. CASE i # n + 1
      <4>1. i \in 1 .. n
        BY <1>2, <3>2
      <4>2. Append(Contents(q), b)[i] = Contents(q)[i]
        BY <2>1, <4>1
      <4> QED
        BY <1>7, <1>8, <1>9, <4>1, <4>2
    <3> QED
      BY <3>1, <3>2
  <2> QED
    BY <2>1, <2>2, <2>3
<1>11. n < BUFSIZE - 1
  BY <1>2, BufsizeAssumption
<1> QED
  BY <1>p, <1>2, <1>10, <1>11

\* The byte that is taken is the first of them.
LEMMA GetContents ==
  ASSUME NEW B, NEW q \in Queues(B), ~ Empty(q)
  PROVE  /\ Contents(q) # << >>
         /\ Contents(WithGet(q)) = Tail(Contents(q))
         /\ Head(Contents(q)) = q.buf[q.tail]
         /\ ~ Full(WithGet(q))
<1>p. PICK r : r = WithGet(q)
  OBVIOUS
<1>n. PICK n : n = Count(q.head, q.tail)
  OBVIOUS
<1>1. q.head \in 0 .. BUFSIZE - 1 /\ q.tail \in 0 .. BUFSIZE - 1
      /\ q.buf \in [0 .. BUFSIZE - 1 -> B \union {None}]
  BY DEF Queues
<1>2. n \in 1 .. BUFSIZE - 1 /\ Len(Contents(q)) = n /\ q.head # q.tail
  <2>1. n \in 0 .. BUFSIZE - 1 /\ Len(Contents(q)) = n /\ n # 0
    BY <1>n, ContentsAre, ContentsType
  <2> QED
    BY <2>1, BufsizeAssumption DEF Empty
<1>3. /\ r \in Queues(B) /\ r.tail = next(q.tail) /\ r.head = q.head
      /\ r.buf = [q.buf EXCEPT ![q.tail] = None]
  BY <1>p, GetType DEF WithGet, Queues
<1>4. Count(r.head, r.tail) = n - 1
  <2>1. Count(q.head, next(q.tail)) = Count(q.head, q.tail) - 1
    <3>1. \A h, t \in 0 .. BUFSIZE - 1 : h # t => Count(h, next(t)) = Count(h, t) - 1
      BY Positions
    <3> QED
      BY <1>1, <1>2, <3>1
  <2> QED
    BY <1>n, <1>3, <2>1
<1>5. Place(q.tail, 1) = q.tail
  BY <1>1, Positions
<1>6. \A i \in 1 .. n - 1 : /\ Place(r.tail, i) = Place(q.tail, i + 1)
                            /\ Place(q.tail, i + 1) # q.tail
                            /\ Place(q.tail, i + 1) \in 0 .. BUFSIZE - 1
  <2>1. \A i \in 1 .. n - 1 : i + 1 \in 1 .. n
    BY <1>2
  <2>2. \A i \in 1 .. n - 1 : /\ Place(next(q.tail), i) = Place(q.tail, i + 1)
                              /\ Place(q.tail, i + 1) # q.tail
    BY <1>n, <1>1, Positions
  <2>3. \A i \in 1 .. n : Place(q.tail, i) \in 0 .. BUFSIZE - 1
    BY <1>n, <1>1, Positions
  <2> QED
    BY <1>3, <2>1, <2>2, <2>3
<1>7. Contents(r) = [i \in 1 .. n - 1 |-> r.buf[Place(r.tail, i)]]
  BY <1>3, <1>4, ContentsAre
<1>8. Contents(q) = [i \in 1 .. n |-> q.buf[Place(q.tail, i)]]
  BY <1>n, ContentsAre
<1>9. /\ Contents(r) \in Seq(B \union {None}) /\ Len(Contents(r)) = n - 1
      /\ Contents(q) \in Seq(B \union {None}) /\ Contents(q) # << >>
  BY <1>2, <1>3, <1>4, ContentsType
<1>10. Contents(r) = Tail(Contents(q))
  <2>1. /\ Tail(Contents(q)) \in Seq(B \union {None}) /\ Len(Tail(Contents(q))) = n - 1
        /\ \A i \in 1 .. n - 1 : Tail(Contents(q))[i] = Contents(q)[i + 1]
    BY <1>2, <1>9
  <2>2. \A i \in 1 .. n - 1 : Contents(r)[i] = Contents(q)[i + 1]
    <3> SUFFICES ASSUME NEW i \in 1 .. n - 1 PROVE Contents(r)[i] = Contents(q)[i + 1]
      OBVIOUS
    <3>1. i + 1 \in 1 .. n
      BY <1>2
    <3>2. r.buf[Place(r.tail, i)] = q.buf[Place(q.tail, i + 1)]
      BY <1>1, <1>3, <1>6
    <3> QED
      BY <1>7, <1>8, <3>1, <3>2
  <2> QED
    BY <1>9, <2>1, <2>2
<1>11. Head(Contents(q)) = q.buf[q.tail]
  BY <1>2, <1>5, <1>8, <1>9
<1>12. ~ Full(r)
  <2>1. n - 1 # BUFSIZE - 1
    BY <1>2, BufsizeAssumption
  <2> QED
    BY <1>3, <1>4, <2>1, ContentsType
<1> QED
  BY <1>p, <1>9, <1>10, <1>11, <1>12

\* The last byte is the one before head.
LEMMA LastContents ==
  ASSUME NEW B, NEW q \in Queues(B), ~ Empty(q)
  PROVE  Contents(q)[Len(Contents(q))] = q.buf[(q.head + BUFSIZE - 1) % BUFSIZE]
<1>n. PICK n : n = Count(q.head, q.tail)
  OBVIOUS
<1>1. q.head \in 0 .. BUFSIZE - 1 /\ q.tail \in 0 .. BUFSIZE - 1
  BY DEF Queues
<1>2. n \in 1 .. BUFSIZE - 1 /\ Len(Contents(q)) = n /\ q.head # q.tail
  <2>1. n \in 0 .. BUFSIZE - 1 /\ Len(Contents(q)) = n /\ n # 0
    BY <1>n, ContentsAre, ContentsType
  <2> QED
    BY <2>1, BufsizeAssumption DEF Empty
<1>3. (q.head + BUFSIZE - 1) % BUFSIZE = IF q.head = 0 THEN BUFSIZE - 1 ELSE q.head - 1
  <2>1. q.head + BUFSIZE - 1 \in 0 .. 2 * BUFSIZE - 1
    BY <1>1, BufsizeAssumption
  <2> QED
    BY <1>1, <2>1, Round, BufsizeAssumption
<1>4. Place(q.tail, n) = IF q.head = 0 THEN BUFSIZE - 1 ELSE q.head - 1
  <2>1. Place(q.tail, n + 1) = q.head
    BY <1>n, <1>1, Positions
  <2> QED
    BY <1>1, <1>2, <2>1, BufsizeAssumption DEF Place
<1>5. Contents(q)[n] = q.buf[Place(q.tail, n)]
  BY <1>n, <1>2, ContentsAre
<1> QED
  BY <1>2, <1>3, <1>4, <1>5
\* A queue of which only the lock and the sleepers change has the same contents.
LEMMA SameContents ==
  ASSUME NEW q, NEW r, r.buf = q.buf, r.head = q.head, r.tail = q.tail
  PROVE  Contents(r) = Contents(q)
  BY DEF Contents

\* What a step does to the contents of a queue and the byte that is given.
Puts(old, new, given, given1, B) ==
  \E b \in B : ~ Full(old) /\ Contents(new) = Contents(WithPut(old, b)) /\ given1 = given
Gets(old, new, given1) ==
  /\ ~ Empty(old) /\ Contents(new) = Contents(WithGet(old))
  /\ given1 = old.buf[old.tail]

\* Those are the steps of the queue for the keys.
LEMMA InSteps ==
  ASSUME input \in Queues(Keys),
         \/ Puts(input, input', key, key', Keys)
         \/ Gets(input, input', key')
         \/ Contents(input') = Contents(input) /\ key' \in {key, None}
  PROVE  [In!Next]_<< Contents(input), key >>
<1>1. CASE Puts(input, input', key, key', Keys)
  <2>1. PICK b \in Keys : /\ ~ Full(input) /\ key' = key
                          /\ Contents(input') = Contents(WithPut(input, b))
    BY <1>1 DEF Puts
  <2>2. In!Put(b)
    BY <2>1, PutContents DEF In!Put
  <2> QED
    BY <2>1, <2>2 DEF In!Next
<1>2. CASE Gets(input, input', key')
  <2>1. In!Get
    BY <1>2, GetContents DEF Gets, In!Get
  <2> QED
    BY <2>1 DEF In!Next
<1>3. CASE Contents(input') = Contents(input) /\ key' = key
  BY <1>3
<1>4. CASE Contents(input') = Contents(input) /\ key' = None
  <2>1. In!Done
    BY <1>4 DEF In!Done
  <2> QED
    BY <2>1 DEF In!Next
<1> QED
  BY <1>1, <1>2, <1>3, <1>4

\* And of that for the bytes that go out.
LEMMA OutSteps ==
  ASSUME txq \in Queues(Text),
         \/ Puts(txq, txq', thr, thr', Text)
         \/ Gets(txq, txq', thr')
         \/ Contents(txq') = Contents(txq) /\ thr' \in {thr, None}
  PROVE  [Out!Next]_<< Contents(txq), thr >>
<1>1. CASE Puts(txq, txq', thr, thr', Text)
  <2>1. PICK b \in Text : /\ ~ Full(txq) /\ thr' = thr
                          /\ Contents(txq') = Contents(WithPut(txq, b))
    BY <1>1 DEF Puts
  <2>2. Out!Put(b)
    BY <2>1, PutContents DEF Out!Put
  <2> QED
    BY <2>1, <2>2 DEF Out!Next
<1>2. CASE Gets(txq, txq', thr')
  <2>1. Out!Get
    BY <1>2, GetContents DEF Gets, Out!Get
  <2> QED
    BY <2>1 DEF Out!Next
<1>3. CASE Contents(txq') = Contents(txq) /\ thr' = thr
  BY <1>3
<1>4. CASE Contents(txq') = Contents(txq) /\ thr' = None
  <2>1. Out!Done
    BY <1>4 DEF Out!Done
  <2> QED
    BY <2>1 DEF Out!Next
<1> QED
  BY <1>1, <1>2, <1>3, <1>4

\* Every step is one of the queue for the keys.
LEMMA InNext ==
  SerialInv /\ [SerialNext]_serial_vars => [In!Next]_<< Contents(input), key >>
<1> SUFFICES ASSUME SerialInv, [SerialNext]_serial_vars PROVE [In!Next]_<< Contents(input), key >>
  OBVIOUS
<1>q. input \in Queues(Keys)
  BY DEF SerialInv, SerialTypeOK
<1>l. ASSUME NEW l, NEW w, input' = [input EXCEPT !.lock = l, !.not_empty = w]
      PROVE  Contents(input') = Contents(input)
  BY <1>q, <1>l, SameContents DEF Queues
<1>1. CASE input' = input /\ key' \in {key, None}
  BY <1>q, <1>1, InSteps
<1>2. ASSUME NEW p \in Procs, Getc(p) PROVE [In!Next]_<< Contents(input), key >>
  <2>1. CASE ~ Empty(input) /\ GetByte(p)
    BY <1>q, <2>1, InSteps DEF GetByte, Gets
  <2>2. CASE WaitInput(p) /\ key' = key
    <3>1. input' = [input EXCEPT !.lock = p, !.not_empty = p]
      BY <2>2 DEF WaitInput
    <3> QED
      BY <1>q, <1>l, <2>2, <3>1, InSteps
  <2> QED
    BY <1>2, <2>1, <2>2 DEF Getc
<1>3. ASSUME NEW p \in Procs, GetcAwake(p) PROVE [In!Next]_<< Contents(input), key >>
  <2>1. input' = [input EXCEPT !.lock = None] /\ key' = key
    BY <1>3 DEF GetcAwake
  <2>2. Contents(input') = Contents(input)
    BY <1>q, <2>1, SameContents DEF Queues
  <2> QED
    BY <1>q, <2>1, <2>2, InSteps
<1>4. ASSUME NEW b \in Keys, keyboard_interrupt(b) PROVE [In!Next]_<< Contents(input), key >>
  <2>1. CASE Full(input)
    BY <1>1, <1>4, <2>1 DEF keyboard_interrupt
  <2>2. CASE ~ Full(input)
    BY <1>q, <1>4, <2>2, InSteps DEF keyboard_interrupt, Puts
  <2> QED
    BY <2>1, <2>2
<1>5. CASE serial_interrupt
  <2>1. key' = key
    BY <1>5 DEF serial_interrupt
  <2>2. CASE rbr /\ ~ Full(input)
    <3>1. \E b \in Keys : input' = WithPut(input, b)
      BY <1>5, <2>2 DEF serial_interrupt
    <3> QED
      BY <1>q, <2>1, <2>2, <3>1, InSteps DEF Puts
  <2>3. CASE ~ (rbr /\ ~ Full(input))
    <3>1. input' = input
      BY <1>5, <2>3 DEF serial_interrupt
    <3> QED
      BY <1>1, <2>1, <3>1
  <2> QED
    BY <2>2, <2>3
<1>6. ASSUME NEW p \in Procs,
             Read(p) \/ putbuf(p) \/ ReadLocked(p) \/ PrintLocked(p) \/ Putc(p) \/ PutcAwake(p)
      PROVE  input' = input /\ key' \in {key, None}
  BY <1>6 DEF Read, putbuf, ReadLocked, PrintLocked, Putc, PutcAwake
<1>7. CASE \/ \E b \in Text : PrintOff(b)
           \/ serial_flush \/ Receives \/ Sends \/ UNCHANGED serial_vars
  BY <1>1, <1>7 DEF PrintOff, serial_flush, Receives, Sends, serial_vars
<1> QED
  BY <1>1, <1>2, <1>3, <1>4, <1>5, <1>6, <1>7 DEF SerialNext, Step

\* Every step is one of the queue for the bytes that go out.
LEMMA OutNext ==
  SerialInv /\ [SerialNext]_serial_vars => [Out!Next]_<< Contents(txq), thr >>
<1> SUFFICES ASSUME SerialInv, [SerialNext]_serial_vars PROVE [Out!Next]_<< Contents(txq), thr >>
  OBVIOUS
<1>q. txq \in Queues(Text)
  BY DEF SerialInv, SerialTypeOK
<1>1. CASE txq' = txq /\ thr' \in {thr, None}
  BY <1>q, <1>1, OutSteps
<1>2. ASSUME NEW p \in Procs, Putc(p) PROVE [Out!Next]_<< Contents(txq), thr >>
  <2>0. thr' = thr
    BY <1>2 DEF Putc
  <2>1. CASE ~ Full(txq) /\ \E b \in Text : PutByte(p, b)
    BY <1>q, <2>0, <2>1, OutSteps DEF PutByte, Puts
  <2>2. CASE WaitTxq(p)
    <3>1. txq' = [txq EXCEPT !.lock = p, !.not_full = p]
      BY <2>2 DEF WaitTxq
    <3>2. Contents(txq') = Contents(txq)
      BY <1>q, <3>1, SameContents DEF Queues
    <3> QED
      BY <1>q, <2>0, <3>2, OutSteps
  <2> QED
    BY <1>2, <2>1, <2>2 DEF Putc
<1>3. ASSUME NEW p \in Procs, PutcAwake(p) PROVE [Out!Next]_<< Contents(txq), thr >>
  <2>1. txq' = [txq EXCEPT !.lock = None] /\ thr' = thr
    BY <1>3 DEF PutcAwake
  <2>2. Contents(txq') = Contents(txq)
    BY <1>q, <2>1, SameContents DEF Queues
  <2> QED
    BY <1>q, <2>1, <2>2, OutSteps
<1>4. ASSUME NEW b \in Text, PrintOff(b) PROVE [Out!Next]_<< Contents(txq), thr >>
  <2>1. CASE ~ Full(txq)
    <3>1. txq' = WithPut(txq, b) /\ thr' = thr
      BY <1>4, <2>1 DEF PrintOff
    <3> QED
      BY <1>q, <2>1, <3>1, OutSteps DEF Puts
  <2>2. CASE Full(txq)
    <3>1. txq' = WithPut(WithGet(txq), b) /\ thr' = txq.buf[txq.tail]
      BY <1>4, <2>2 DEF PrintOff
    <3>2. ~ Empty(txq)
      <4>1. Count(txq.head, txq.tail) = BUFSIZE - 1
        BY <1>q, <2>2, ContentsType
      <4>2. Count(txq.head, txq.tail) # 0
        BY <4>1, BufsizeAssumption
      <4> QED
        BY <1>q, <4>2, ContentsType
    <3>3. /\ Contents(txq) # << >> /\ Head(Contents(txq)) = txq.buf[txq.tail]
          /\ Contents(WithGet(txq)) = Tail(Contents(txq)) /\ ~ Full(WithGet(txq))
      BY <1>q, <3>2, GetContents
    <3>4. Contents(txq') = Append(Tail(Contents(txq)), b)
      BY <1>q, <3>1, <3>3, GetType, PutContents
    <3>5. Out!Exchange(b)
      BY <3>1, <3>3, <3>4 DEF Out!Exchange
    <3> QED
      BY <3>5 DEF Out!Next
  <2> QED
    BY <2>1, <2>2
<1>5. CASE serial_flush
  <2>1. /\ txq' = [EmptyQueue EXCEPT !.head = txq.head, !.tail = txq.head,
                                     !.lock = txq.lock, !.not_empty = txq.not_empty]
        /\ thr' = IF Empty(txq) THEN thr
                                ELSE txq.buf[(txq.head + BUFSIZE - 1) % BUFSIZE]
    BY <1>5 DEF serial_flush
  <2>2. txq' \in Queues(Text) /\ txq'.head = txq'.tail
    BY <1>q, <2>1, NoneAssumption, BufsizeAssumption DEF EmptyQueue, Queues
  <2>3. Contents(txq') = << >>
    <3>1. Contents(txq') \in Seq(Text \union {None}) /\ Len(Contents(txq')) = 0
      BY <2>2, ContentsType DEF Empty
    <3> QED
      BY <3>1
  <2>4. CASE Empty(txq)
    <3>1. Contents(txq) = << >>
      <4>1. Contents(txq) \in Seq(Text \union {None}) /\ Len(Contents(txq)) = 0
        BY <1>q, <2>4, ContentsType
      <4> QED
        BY <4>1
    <3> QED
      BY <1>q, <2>1, <2>3, <2>4, <3>1, OutSteps
  <2>5. CASE ~ Empty(txq)
    <3>1. Contents(txq) # << >> /\ thr' = Contents(txq)[Len(Contents(txq))]
      BY <1>q, <2>1, <2>5, GetContents, LastContents
    <3>2. Out!Flush
      BY <2>3, <3>1 DEF Out!Flush
    <3> QED
      BY <3>2 DEF Out!Next
  <2> QED
    BY <2>4, <2>5
<1>6. CASE serial_interrupt
  <2>1. CASE thr = None /\ ~ Empty(txq)
    <3>1. txq' = WithGet(txq) /\ thr' = txq.buf[txq.tail]
      BY <1>6, <2>1 DEF serial_interrupt
    <3> QED
      BY <1>q, <2>1, <3>1, OutSteps DEF Gets
  <2>2. CASE ~ (thr = None /\ ~ Empty(txq))
    <3>1. txq' = txq /\ thr' = thr
      BY <1>6, <2>2 DEF serial_interrupt
    <3> QED
      BY <1>1, <3>1
  <2> QED
    BY <2>1, <2>2
<1>7. ASSUME NEW p \in Procs,
             Read(p) \/ putbuf(p) \/ ReadLocked(p) \/ PrintLocked(p) \/ Getc(p) \/ GetcAwake(p)
      PROVE  txq' = txq /\ thr' \in {thr, None}
  BY <1>7 DEF Read, putbuf, ReadLocked, PrintLocked, Getc, GetcAwake
<1>8. CASE (\E b \in Keys : keyboard_interrupt(b)) \/ Receives \/ Sends \/ UNCHANGED serial_vars
  BY <1>1, <1>8 DEF keyboard_interrupt, Receives, Sends, serial_vars
<1> QED
  BY <1>1, <1>2, <1>3, <1>4, <1>5, <1>6, <1>7, <1>8 DEF SerialNext, Step

\* Both queues are empty at first.
LEMMA InitQueues == SerialInit => In!Init /\ Out!Init
<1> SUFFICES ASSUME SerialInit PROVE In!Init /\ Out!Init
  OBVIOUS
<1>1. EmptyQueue \in Queues({}) /\ Empty(EmptyQueue)
  BY BufsizeAssumption DEF EmptyQueue, Queues, Empty
<1>2. Contents(EmptyQueue) \in Seq({} \union {None}) /\ Len(Contents(EmptyQueue)) = 0
  BY <1>1, ContentsType
<1>3. Contents(EmptyQueue) = << >>
  BY <1>2
<1> QED
  BY <1>3 DEF SerialInit, In!Init, Out!Init

\* Neither queue loses, repeats or reorders a byte, for any size of the buffer and
\* whatever interrupt comes between the steps of those who read and print
\* (intq.h; intq_getc, intq_putc, serial_putc, serial_flush, serial_interrupt).
THEOREM QueuesAreFifos == SerialSpec => Fifos
<1>1. SerialSpec => In!Spec
  BY SerialInvariant, InitQueues, InNext, PTL DEF SerialSpec, In!Spec
<1>2. SerialSpec => Out!Spec
  BY SerialInvariant, InitQueues, OutNext, PTL DEF SerialSpec, Out!Spec
<1> QED
  BY <1>1, <1>2 DEF Fifos
===============================================================================
