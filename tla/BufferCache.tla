------------------------------ MODULE BufferCache ------------------------------
(***************************************************************************)
(* filesys/cache.c: the buffer cache between the file system and the block *)
(* device fs_device.  One lock serialises its operations, so that threads  *)
(* interleave only before they own it; a reset of the machine may come     *)
(* between any two steps, in particular between the write-back of a victim *)
(* and the reuse of its slot.                                              *)
(***************************************************************************)
EXTENDS Integers

CONSTANTS
  Threads,    \* kernel threads that use the cache
  Sectors,    \* sectors of fs_device that are used
  Data,       \* possible contents of a sector
  N,          \* BUFFER_CACHE_SIZE
  NoThread    \* holder of a free lock

ASSUME SizeAssumption == N \in Nat \ {0}
ASSUME HolderAssumption == NoThread \notin Threads
ASSUME DataAssumption == Sectors # {} /\ Data # {}

VARIABLES
  cache,      \* cache[i]: struct buffer_cache_entry_t
  clock,      \* the static clock hand of buffer_cache_evict
  disk,       \* the contents of fs_device
  lock,       \* holder of buffer_cache_lock
  pc,         \* pc[t]: where thread t is
  req,        \* req[t]: the operation t is in and its arguments, or the
              \* answer it got from the last one
  slot        \* slot[t]: local variable slot (read, write) or i (close)

vars == << cache, clock, disk, lock, pc, req, slot >>

Slots == 0 .. N - 1

Done == [op |-> "done"]
Closed == [op |-> "closed"]
Got(d) == [op |-> "got", data |-> d]
Answers == {Done, Closed} \union {Got(d) : d \in Data}
Access == [op : {"read"}, sector : Sectors]
            \union [op : {"write"}, sector : Sectors, data : Data]
Requests == Access \union {[op |-> "close"]}

Entry == [occupied : BOOLEAN, sector : Sectors, data : Data,
          dirty : BOOLEAN, access : BOOLEAN]

\* The cache is a static array: zero until its first use.
BlankEntry == [occupied |-> FALSE, sector |-> CHOOSE s \in Sectors : TRUE,
               data |-> CHOOSE d \in Data : TRUE,
               dirty |-> FALSE, access |-> FALSE]

BlankCache == [i \in Slots |-> BlankEntry]

\* buffer_cache_init has just been run.
Init ==
  /\ cache = BlankCache
  /\ clock = 0
  /\ lock = NoThread
  /\ pc = [t \in Threads |-> "idle"]
  /\ req = [t \in Threads |-> Done]
  /\ slot = [t \in Threads |-> 0]
  /\ disk \in [Sectors -> Data]

-------------------------------------------------------------------------------
\* A thread calls buffer_cache_read, buffer_cache_write or buffer_cache_close.
Call(t, r) ==
  /\ pc[t] = "idle"
  /\ req' = [req EXCEPT ![t] = r]
  /\ pc' = [pc EXCEPT ![t] = "acquire"]
  /\ UNCHANGED << cache, clock, disk, lock, slot >>

\* lock_acquire (&buffer_cache_lock).
Acquire(t) ==
  /\ pc[t] = "acquire"
  /\ lock = NoThread
  /\ lock' = t
  /\ pc' = [pc EXCEPT ![t] = IF req[t].op = "close" THEN "sweep" ELSE "lookup"]
  /\ UNCHANGED << cache, clock, disk, req, slot >>

\* Slot i holds the entry of sector s.
Caches(i, s) == cache[i].occupied /\ cache[i].sector = s

\* Mutant of Lookup: the last slot is never looked at.
LookupShort(t) ==
  /\ pc[t] = "lookup"
  /\ LET hits == {i \in 0 .. N - 2 : Caches(i, req[t].sector)}
     IN IF hits = {}
          THEN pc' = [pc EXCEPT ![t] = "evict"] /\ UNCHANGED slot
          ELSE /\ pc' = [pc EXCEPT ![t] = "copy"]
               /\ \E i \in hits : slot' = [slot EXCEPT ![t] = i]
  /\ UNCHANGED << cache, clock, disk, lock, req >>

\* buffer_cache_lookup: the slot that holds the sector, if there is one.
Lookup(t) ==
  /\ pc[t] = "lookup"
  /\ \/ \E i \in Slots :
          /\ Caches(i, req[t].sector)
          /\ \A j \in Slots : j < i => ~ Caches(j, req[t].sector)
          /\ slot' = [slot EXCEPT ![t] = i]
          /\ pc' = [pc EXCEPT ![t] = "copy"]
     \/ /\ \A i \in Slots : ~ Caches(i, req[t].sector)
        /\ pc' = [pc EXCEPT ![t] = "evict"]
        /\ UNCHANGED slot
  /\ UNCHANGED << cache, clock, disk, lock, req >>

\* The clock finds a slot that was never used: it is taken as it is.
TakeEmpty(t) ==
  /\ pc[t] = "evict"
  /\ ~ cache[clock].occupied
  /\ slot' = [slot EXCEPT ![t] = clock]
  /\ pc' = [pc EXCEPT ![t] = "claim"]
  /\ UNCHANGED << cache, clock, disk, lock, req >>

\* Mutant of SecondChance: the hand advances without clearing the bit.
SecondChanceKeep(t) ==
  /\ pc[t] = "evict"
  /\ cache[clock].occupied /\ cache[clock].access
  /\ clock' = (clock + 1) % N
  /\ UNCHANGED << cache, disk, lock, pc, req, slot >>

\* A slot used since the hand last passed gets a second chance.
SecondChance(t) ==
  /\ pc[t] = "evict"
  /\ cache[clock].occupied /\ cache[clock].access
  /\ cache' = [cache EXCEPT ![clock].access = FALSE]
  /\ clock' = (clock + 1) % N
  /\ UNCHANGED << disk, lock, pc, req, slot >>

\* Mutant of Victim: a dirty victim is dropped without a write.
VictimDropped(t) ==
  /\ pc[t] = "evict"
  /\ cache[clock].occupied /\ ~ cache[clock].access
  /\ slot' = [slot EXCEPT ![t] = clock]
  /\ pc' = [pc EXCEPT ![t] = "vacate"]
  /\ UNCHANGED << cache, clock, disk, lock, req >>

\* The victim is found and, if it is dirty, written to the disk
\* (buffer_cache_flush); it stays occupied until that is done.
Victim(t) ==
  /\ pc[t] = "evict"
  /\ cache[clock].occupied /\ ~ cache[clock].access
  /\ slot' = [slot EXCEPT ![t] = clock]
  /\ IF cache[clock].dirty
       THEN /\ disk' = [disk EXCEPT ![cache[clock].sector] = cache[clock].data]
            /\ cache' = [cache EXCEPT ![clock].dirty = FALSE]
       ELSE UNCHANGED << disk, cache >>
  /\ pc' = [pc EXCEPT ![t] = "vacate"]
  /\ UNCHANGED << clock, lock, req >>

\* slot->occupied = false: the victim leaves the cache.
Vacate(t) ==
  /\ pc[t] = "vacate"
  /\ cache' = [cache EXCEPT ![slot[t]].occupied = FALSE]
  /\ pc' = [pc EXCEPT ![t] = "claim"]
  /\ UNCHANGED << clock, disk, lock, req, slot >>

\* The slot is labelled with its new sector before the sector is read.
Claim(t) ==
  /\ pc[t] = "claim"
  /\ cache' = [cache EXCEPT ![slot[t]].occupied = TRUE,
                            ![slot[t]].sector = req[t].sector,
                            ![slot[t]].dirty = FALSE]
  /\ pc' = [pc EXCEPT ![t] = "load"]
  /\ UNCHANGED << clock, disk, lock, req, slot >>

\* block_read (fs_device, sector, slot->buffer).
Load(t) ==
  /\ pc[t] = "load"
  /\ cache' = [cache EXCEPT ![slot[t]].data = disk[req[t].sector]]
  /\ pc' = [pc EXCEPT ![t] = "copy"]
  /\ UNCHANGED << clock, disk, lock, req, slot >>

\* Back to the caller: the lock is released and the locals are dead.
Return(t, at, r) ==
  /\ lock' = NoThread
  /\ pc' = [pc EXCEPT ![t] = at]
  /\ req' = [req EXCEPT ![t] = r]
  /\ slot' = [slot EXCEPT ![t] = 0]

\* End of buffer_cache_read: memcpy out of the slot.
CopyOut(t) ==
  /\ pc[t] = "copy" /\ req[t].op = "read"
  /\ cache' = [cache EXCEPT ![slot[t]].access = TRUE]
  /\ Return(t, "idle", Got(cache[slot[t]].data))
  /\ UNCHANGED << clock, disk >>

\* Mutant of CopyIn: the slot is not marked dirty.
CopyInClean(t) ==
  /\ pc[t] = "copy" /\ req[t].op = "write"
  /\ cache' = [cache EXCEPT ![slot[t]].data = req[t].data,
                            ![slot[t]].access = TRUE]
  /\ Return(t, "idle", Done)
  /\ UNCHANGED << clock, disk >>

\* End of buffer_cache_write: memcpy into the slot, which becomes dirty.
CopyIn(t) ==
  /\ pc[t] = "copy" /\ req[t].op = "write"
  /\ cache' = [cache EXCEPT ![slot[t]].data = req[t].data,
                            ![slot[t]].dirty = TRUE,
                            ![slot[t]].access = TRUE]
  /\ Return(t, "idle", Done)
  /\ UNCHANGED << clock, disk >>

\* One iteration of the loop of buffer_cache_close.
Sweep(t) ==
  /\ pc[t] = "sweep" /\ slot[t] < N
  /\ IF cache[slot[t]].occupied /\ cache[slot[t]].dirty
       THEN /\ disk' = [disk EXCEPT ![cache[slot[t]].sector] = cache[slot[t]].data]
            /\ cache' = [cache EXCEPT ![slot[t]].dirty = FALSE]
       ELSE UNCHANGED << disk, cache >>
  /\ slot' = [slot EXCEPT ![t] = @ + 1]
  /\ UNCHANGED << clock, lock, pc, req >>

\* End of buffer_cache_close; filesys_done returns to shutdown_power_off,
\* whose thread never calls the cache again.
SweepDone(t) ==
  /\ pc[t] = "sweep" /\ slot[t] = N
  /\ Return(t, "halt", Closed)
  /\ UNCHANGED << cache, clock, disk >>

\* The machine goes down and boots again: shutdown_reboot at any time (it
\* does not call filesys_done), or the end of shutdown_power_off.  Of the
\* state only the disk is kept.
Reset ==
  /\ cache' = BlankCache
  /\ clock' = 0
  /\ lock' = NoThread
  /\ pc' = [t \in Threads |-> "idle"]
  /\ req' = [t \in Threads |-> Done]
  /\ slot' = [t \in Threads |-> 0]
  /\ UNCHANGED << disk >>

\* The step of the thread that owns the lock.
HolderStep(t) ==
  \/ Lookup(t) \/ TakeEmpty(t) \/ SecondChance(t) \/ Victim(t) \/ Vacate(t)
  \/ Claim(t) \/ Load(t) \/ CopyOut(t) \/ CopyIn(t) \/ Sweep(t) \/ SweepDone(t)

Next ==
  \/ \E t \in Threads :
       \/ \E r \in Requests : Call(t, r)
       \/ Acquire(t)
       \/ HolderStep(t)
  \/ Reset

Spec == Init /\ [][Next]_vars

\* A thread inside the cache is eventually scheduled: it never waits there
\* for another thread, and timer_interrupt preempts the others.
FairSpec == Spec /\ \A t \in Threads : WF_vars(HolderStep(t))

-------------------------------------------------------------------------------
Inside == {"lookup", "evict", "vacate", "claim", "load", "copy", "sweep"}

\* The types: in particular the clock hand stays on the cache, and a thread's
\* slot is one past the last at most (buffer_cache_close, buffer_cache_lookup).
TypeOK ==
  /\ cache \in [Slots -> Entry]
  /\ clock \in Slots
  /\ disk \in [Sectors -> Data]
  /\ lock \in Threads \union {NoThread}
  /\ pc \in [Threads -> Inside \union {"idle", "acquire", "halt"}]
  /\ req \in [Threads -> Requests \union Answers]
  /\ slot \in [Threads -> 0 .. N]

\* No sector is ever cached in two slots: a second copy would go stale as
\* soon as the first is written, and buffer_cache_lookup would hide it.
OneSlotPerSector ==
  \A i, j \in Slots :
    cache[i].occupied /\ cache[j].occupied /\ i # j
      => cache[i].sector # cache[j].sector

\* Slot i is being filled by thread t: its buffer is not its sector's yet.
Loading(i) == \E t \in Threads : pc[t] = "load" /\ slot[t] = i

\* A clean slot holds what the disk holds, so that buffer_cache_evict may
\* drop it without a write.
CleanMatchesDisk ==
  \A i \in Slots :
    cache[i].occupied /\ ~ cache[i].dirty /\ ~ Loading(i)
      => cache[i].data = disk[cache[i].sector]

\* The contents of sector s that the cache and the disk stand for together.
Holds(i, s) == Caches(i, s) /\ ~ Loading(i)
Current(s) ==
  IF \E i \in Slots : Holds(i, s)
    THEN cache[CHOOSE i \in Slots : Holds(i, s)].data
    ELSE disk[s]

Store == INSTANCE BlockStore WITH
           view <- [s \in Sectors |-> Current(s)], durable <- disk,
           pend <- req

\* The cache is a BlockStore: reads see the last completed write whatever is
\* evicted in between, only current contents reach the disk, a close returns
\* with everything on the disk, and a reset loses nothing else.
StoreSpec == Store!Spec

\* The loop of buffer_cache_evict has no bound of its own (cache.c:102): it ends,
\* after one turn of the clock at most, because whatever is done to the cache
\* while the loop goes on takes an access bit away and gives none.
Accessed == {i \in Slots : cache[i].access}
ClockEnds ==
  [][\A t \in Threads :
       pc[t] = "evict" /\ pc'[t] = "evict"
         => \/ UNCHANGED << cache, clock >>
            \/ Accessed' \subseteq Accessed /\ Accessed' # Accessed]_vars

\* Whoever owns the lock gives it back: in particular the clock, which
\* restarts after every second chance, always finds a victim.
LockReleased == \A t \in Threads : lock = t ~> lock # t
===============================================================================
